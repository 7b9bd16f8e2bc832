----------------------------- MODULE MCVfsInodes -----------------------------
(* A tree of depth two over two names, a root inode, nested targets, a     *)
(* flag set above and reset below and the other way round, directories     *)
(* implied before they are asked for, and every refusal.                   *)
EXTENDS VfsInodes

MCPlainNames  == {"a", "b"}
MCHiddenNames == {}
MCRank == ("." :> 1) @@ (".." :> 2) @@ ("/" :> 3) @@ ("a" :> 4) @@ ("b" :> 5)

Request(p, t, set, reset) ==
  [virtual_path |-> p, target_path |-> t, flags_set |-> set, flags_reset |-> reset]

MCRequests == {
  Request(<<"/">>, NULL, {"READ_ONLY"}, {}),
  Request(<<"/", "a", "/">>, <<"/", "b", "/">>, {}, {"READ_ONLY"}),
  Request(<<"/", "a", "/", "b">>, <<"/", "a">>, {"READ_ONLY"}, {"FILTER_HIDDEN"}),
  Request(<<"/", "b", "/", "a">>, <<"/", "b", "/", "a">>, {"FILTER_HIDDEN"}, {"READ_ONLY"}),
  Request(<<"/", "a">>, NULL, {"FILTER_HIDDEN"}, {}),
  Request(<<"/", "/", "/">>, NULL, {}, {}),
  Request(<<"a">>, NULL, {}, {}),
  Request(<<"/", "b">>, <<"a">>, {}, {}) }

MCLookupPaths == {
  <<"/">>, <<"/", "a">>, <<"/", "b">>, <<"/", "a", "/", "b">>,
  <<"/", "b", "/", "a">>, <<"/", "a", "/", "b", "/", "a">>,
  <<"/", "b", "/", "b">>, <<"a">> }

MCBaseFlags == {}
=============================================================================
