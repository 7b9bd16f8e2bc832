---------------------------- MODULE MCVfsReaddir ----------------------------
(* A listing of up to two names, in either order, next to two real names,  *)
(* one of which the listing may override.                                  *)
EXTENDS VfsReaddir

MCPlainNames  == {"a", "b", "c"}
MCHiddenNames == {}
MCRank == ("." :> 1) @@ (".." :> 2) @@ ("/" :> 3) @@ ("a" :> 4) @@ ("b" :> 5) @@ ("c" :> 6)

MCRealNames == {"a", "c"}
MCListings == {NULL, <<>>, <<"a">>, <<"a", "b">>, <<"b", "a">>}
HandleSymmetry == Permutations(Handles)
ReversedListings == {<<"b", "a">>}
=============================================================================
