------------------------------ MODULE MCVfsOpen ------------------------------
(* "/" is virtual and read-only; "/m" maps "/s" read-write and hides dot   *)
(* names; "/m/p" in it is filtered; "/w" maps "/s" with links allowed and  *)
(* stays read-only.                                                        *)
EXTENDS VfsOpen

MCPlainNames  == {"m", "p", "w", "s", "d", "f"}
MCHiddenNames == {".h"}
MCRank ==
  ("." :> 1) @@ (".." :> 2) @@ (".h" :> 3) @@ ("/" :> 4) @@ ("d" :> 5) @@ ("f" :> 6)
    @@ ("m" :> 7) @@ ("p" :> 8) @@ ("s" :> 9) @@ ("w" :> 10)

Inode(p, t, set, reset) ==
  [virtual_path |-> p, target_path |-> t, flags_set |-> set, flags_reset |-> reset]

MCTable == <<
  Inode(<<>>, NULL, {"READ_ONLY"}, {}),
  Inode(<<"/", "m">>, <<"/", "s">>, {"FILTER_HIDDEN"}, {"READ_ONLY"}),
  Inode(<<"/", "m", "/", "p">>, NULL, {"FILTER_ALL"}, {}),
  Inode(<<"/", "w">>, <<"/", "s">>, {"ALLOW_SYMLINKS"}, {}) >>

MCRequests == {
  <<"/">>, <<"/", "m", "/", "f">>, <<"/", "w", "/", "f">>, <<"/", "w", "/", "d">>,
  <<"f">>, <<"..", "/", "m", "/", "p">>, <<"/", "m", "/", ".h">>,
  <<"/", "m", "/", "d", "/", "f">>, <<"m">> }

MCBaseFlags == {}

Disk(s, f, d, df) ==
  (<<"s">> :> s) @@ (<<"s", "f">> :> f) @@ (<<"s", "d">> :> d) @@ (<<"s", "d", "f">> :> df)

MCDisks ==
  {Disk("dir", f, d, df) : f \in {"absent", "reg", "link", "dir"},
     d \in {"absent", "dir", "linkdir", "locked"}, df \in {"absent", "reg"}}

FewDisks ==
  {Disk("dir", f, d, df) : f \in {"absent", "reg"}, d \in {"absent", "dir"},
     df \in {"absent", "reg"}}
=============================================================================
