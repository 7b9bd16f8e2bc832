---------------------------- MODULE MCStringList ----------------------------
(* Three names in a list of up to four: some name is always repeated in a  *)
(* full list, and four elements have every relative order of three.        *)
EXTENDS StringList

MCPlainNames  == {"a", "b", "c"}
MCHiddenNames == {}
MCRank == ("." :> 1) @@ (".." :> 2) @@ ("/" :> 3) @@ ("a" :> 4) @@ ("b" :> 5) @@ ("c" :> 6)
=============================================================================
