--------------------------- MODULE MCPathRequests ---------------------------
(* Two plain names and one dot name are enough to tell a name from its     *)
(* neighbour and a hidden component from a visible one; six tokens spell   *)
(* "/a/../b", "a//.h/" and "../..".                                         *)
EXTENDS PathRequests

MCPlainNames  == {"a", "b"}
MCHiddenNames == {".h"}
MCRank == ("." :> 1) @@ (".." :> 2) @@ (".h" :> 3) @@ ("/" :> 4) @@ ("a" :> 5) @@ ("b" :> 6)
=============================================================================
