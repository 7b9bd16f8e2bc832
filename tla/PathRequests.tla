---------------------------- MODULE PathRequests ----------------------------
(***************************************************************************)
(* A client spells out a path token by token and changes directory to it,  *)
(* any number of times.  Every path of up to MaxPathLen tokens is met with *)
(* every working directory the client can reach, and the path functions    *)
(* of strings.c are compared with a reader's account of what a path means: *)
(* a walk over a stack of directory names.                                 *)
(***************************************************************************)
EXTENDS Walks

CONSTANTS
  MaxPathLen,  \* bound: tokens in a request
  MaxDepth     \* bound: directories in the working directory

ASSUME PathBounds == MaxPathLen \in Nat /\ MaxDepth \in Nat

VARIABLES
  cwd,    \* vfs->cwd.path, kept without a trailing slash
  request \* the path being typed

(* StringListProofs speaks of this specification and of StringList's: the  *)
(* names of the two differ.                                                *)
typing_vars == <<cwd, request>>

Sanitized == sanitize_path(cwd, request)

Destination == Walk(PlaceOf(cwd), request)

-----------------------------------------------------------------------------
TypingInit ==
  /\ cwd = truncate_trailing_slash(<<Slash>>)
  /\ request = <<>>

Type(t) ==
  /\ Len(request) < MaxPathLen
  /\ IsPath(Append(request, t))
  /\ request' = Append(request, t)
  /\ UNCHANGED cwd

(***************************************************************************)
(* vfs_chdir of an existing directory: vfs_open_node sanitizes the path    *)
(* and vfs_set_cwd stores it without its trailing slash.                   *)
(***************************************************************************)
Chdir ==
  /\ Len(Destination) <= MaxDepth
  /\ cwd' = truncate_trailing_slash(Sanitized)
  /\ request' = <<>>

(* Any other answer of vfs_chdir leaves the working directory alone.       *)
ChdirRefused ==
  /\ request # <<>>
  /\ request' = <<>>
  /\ UNCHANGED cwd

TypingNext == Chdir \/ ChdirRefused \/ \E t \in Tokens : Type(t)

TypingSpec == TypingInit /\ [][TypingNext]_typing_vars

-----------------------------------------------------------------------------
(* sanitize_path leads where walking the request from the working          *)
(* directory leads, never above the root, and writes that place in the     *)
(* one canonical form; the root is the only path it ends in a slash.       *)
SanitizeIsWalk == Sanitized = Render(Destination)

(* The stored working directory has lost the root's slash (it is empty     *)
(* there); resolving any relative request against it gives what resolving  *)
(* against the untruncated directory gives.                                *)
CwdLosesNothing ==
  sanitize_path(cwd, request) = sanitize_path(Render(PlaceOf(cwd)), request)

(* On a sanitized path path_split visits every ancestor once, the root     *)
(* first and the path itself last, flagged as the full path: what the      *)
(* flag inheritance of vfs_lookup and the symlink check need.              *)
SplitVisitsAncestors ==
  LET stack == Destination
      visits == path_split(Sanitized)
  IN  visits = [k \in 1 .. Len(stack) + 1 |->
                  [path |-> Render(SubSeq(stack, 1, k - 1)),
                   is_full_path |-> k = Len(stack) + 1]]

(* A sanitized path is hidden exactly if some directory on the way to it   *)
(* has a dot name: "." and ".." of the request are not mistaken for one,   *)
(* nor a dot name that a later ".." leaves again.                          *)
HiddenIsAComponent ==
  path_contains_hidden(Sanitized)
    <=> \E i \in 1 .. Len(Destination) : Destination[i] \in HiddenNames
=============================================================================
