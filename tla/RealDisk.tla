------------------------------ MODULE RealDisk ------------------------------
(***************************************************************************)
(* The file system calls the VFS makes, on a disk that is a function from  *)
(* places (sequences of names) to what is found there:                     *)
(*   "absent"   nothing            "reg"      a regular file               *)
(*   "dir"      a directory        "locked"   one that cannot be searched  *)
(*   "link"     a link to a file   "linkdir"  a link to a directory        *)
(* What lies below a linked directory is what the disk has below its       *)
(* place.  Places outside the function's domain are absent.                *)
(***************************************************************************)
EXTENDS Directories

Kinds == {"absent", "reg", "dir", "locked", "link", "linkdir"}

Errnos == {"EFAULT", "ENOENT", "EACCES", "ENOTDIR", "EISDIR", "ENOSPC"}

ASSUME NullIsNoErrno == NULL \notin Errnos

KindAt(fs, c) ==
  IF c = <<>> THEN "dir" ELSE IF c \in DOMAIN fs THEN fs[c] ELSE "absent"

(* The error of walking to c: the first directory on the way that cannot   *)
(* be searched decides.                                                    *)
WalkError(fs, c) ==
  LET blocks(k) == KindAt(fs, SubSeq(c, 1, k)) \notin {"dir", "linkdir"}
  IN  IF \E k \in 0 .. Len(c) - 1 : blocks(k)
      THEN LET k == CHOOSE k \in 0 .. Len(c) - 1 :
                      blocks(k) /\ \A l \in 0 .. k - 1 : ~blocks(l)
           IN  CASE KindAt(fs, SubSeq(c, 1, k)) = "absent" -> "ENOENT"
                 [] KindAt(fs, SubSeq(c, 1, k)) = "locked" -> "EACCES"
                 [] OTHER                                  -> "ENOTDIR"
      ELSE NULL

(* What a call meets at the place c, and on the path p: an error or a kind. *)
Failed(errno) == [errno |-> errno, kind |-> "absent"]

MetAt(fs, c) ==
  IF WalkError(fs, c) # NULL THEN Failed(WalkError(fs, c))
  ELSE IF KindAt(fs, c) = "absent" THEN Failed("ENOENT")
  ELSE [errno |-> NULL, kind |-> KindAt(fs, c)]

Met(fs, p) ==
  IF p = NULL THEN Failed("EFAULT")
  ELSE IF p = <<>> THEN Failed("ENOENT")
  ELSE CHOOSE met \in {MetAt(fs, c) : c \in {Components(p)}} : TRUE

lstat(fs, p) == Met(fs, p)

(* stat follows links.                                                     *)
Followed(kind) ==
  CASE kind = "link"                  -> "reg"
    [] kind \in {"linkdir", "locked"} -> "dir"
    [] OTHER                          -> kind

stat(fs, p) == [Met(fs, p) EXCEPT !.kind = Followed(@)]

opendir(fs, p) ==
  LET s == stat(fs, p)
  IN  IF s.errno = NULL /\ s.kind # "dir" THEN "ENOTDIR" ELSE s.errno

(* fopen "r" opens directories too; "w" and "a" make a missing file, for   *)
(* which the disk has room only at the places of its domain.               *)
fopen(fs, p, mode) ==
  LET s == stat(fs, p)
      makes == /\ mode # "READ" /\ s.errno = "ENOENT" /\ Len(p) > 0
               /\ WalkError(fs, Components(p)) = NULL
  IN  CASE makes                            -> IF Components(p) \in DOMAIN fs THEN NULL
                                               ELSE "ENOSPC"
        [] ~makes /\ s.errno # NULL         -> s.errno
        [] mode # "READ" /\ s.kind = "dir"  -> "EISDIR"
        [] OTHER                            -> NULL

(* The disk after a successful fopen.                                      *)
AfterFopen(fs, p, mode) ==
  LET c == Components(p)
  IN  IF mode # "READ" /\ c \in DOMAIN fs /\ fs[c] = "absent"
      THEN [fs EXCEPT ![c] = "reg"] ELSE fs
=============================================================================
