# umsftpd in TLA+

A verification development for umsftpd, a user-mode SFTP server in C. The
server shows its clients a *virtual file system* (VFS): a table of virtual
directories, some of them mapped to real ones, with flags that are inherited
down the tree. Around it stand the SSH session that serves clients one after
the other, and a password database with one-time codes. Everything is written from the code; references like
`vfs.c:204` are to files of the repository.

## The system

| Component | State | Operations | What makes it correct |
|---|---|---|---|
| Path functions (`strings.c`) | none | `path_split`, `pathcmp`, `truncate_trailing_slash`, `sanitize_path`, `path_contains_hidden`, `path_contains_symlink`, `const_basename` | a path is a walk: `..` never leaves the root, results are canonical, comparisons tell places apart, a split visits every ancestor once |
| String list (`stringlist.c`) | array of names, sorted flag | new, insert, sort, contains (sorts lazily) | the flag is honest; the list is a bag; answers are right |
| Inode table (`vfs.c:89-374`) | array of inodes, frozen flag, one listing of children per inode | `vfs_add_inode`, `vfs_freeze_inodes`, `vfs_lookup`, `vfs_map_path` | one inode per path; listings, parents and paths are one tree; granted requests are honoured; a lookup is what the nearest ancestors say; mapped paths stay below their target |
| Handles and path operations (`vfs.c:101-122, 376-669`) | working directory, open handles, the real disk | chdir, opendir, open, stat, read, write, close | READ_ONLY and filters hold for every spelling; what was checked is what is opened; no handle is lost; failed calls change nothing; calls return |
| Directory listing (`vfs.c:671-745`) | a handle's position in the listing and in its DIR stream | `vfs_readdir` | every name once, virtual directories before and instead of real ones; listing ends |
| VFS shell (`vfsdebug.c`) | command line | ls, cd, stat, cat, put | drives the VFS |
| Session (`main.c`) | the client served: authentication, channel, SFTP session; the thread's place in its loops | accept, libssh callbacks, authentication and event loop, message dispatch | clients are served in order, no state outlives its client, no loop waits for what cannot come, requests are answered in order |
| Password database (`passdb.c`) | an entry: function, salt, hash, TOTP and its window | create, attach TOTP, validate | only passphrases that were set are accepted; codes in the window are, and none much older; the time taken tells nothing |
| One-time codes (`rfc6238.c`), Base32 (`rfc4648.c`) | a TOTP configuration; none | generate; decode | slices at their boundaries; every bit in its place, nothing outside the buffers |
| Configuration (`jsonconfig.c`), logging (`logging.c`) | parsed values, level | parse, log | lifetime of the strings |

Interactions. The path operations call `vfs_open_node`, which sanitizes the
path against the working directory, looks it up in the inode table
(`path_split` calls back once per directory), maps it, and walks the mapped
path once more for symlinks. `vfs_readdir` reads the listing of an inode, which
is shared by all handles, and asks it `stringlist_contains`, which may reorder
it. The real disk is shared with every other process. The shell is the only
caller of the VFS so far: the session of `main.c` does not use it yet ("work in
progress and does not work yet", README of the repository), nor the password
database: `auth_password` accepts everybody. The password database asks
`rfc6238.c` for one code per time slice; Base32 is for the secrets of those
codes. In `main.c`, libssh calls back from inside every poll.

Hard behaviours. The program has one thread, so its own calls do not overlap,
but calls on different handles alternate, system calls of one operation
interleave with other processes, allocations fail in the middle of
multi-step updates, and nothing stops a caller from adding inodes after
freezing. Clients of the session send ahead, break off anywhere and queue up
behind one another; callbacks come in the order of their messages, not in that
of the code; time goes on between the making and the checking of a code. The hazards are listed with their lines in `PROJECT.json`.

## Modules

| Module | Models | State and actions |
|---|---|---|
| `Paths` | `strings.c` as operators | a path is a sequence of tokens: the slash, `.`, `..`, and one token per file name; names starting with a dot are a set of their own |
| `Walks` | nothing: the reference | components, walks, the canonical path of a place and the place of a stored or canonical path (`PlaceOf`) |
| `PathRequests` | a client that types paths and changes directory | `Type`, `Chdir`, `ChdirRefused` |
| `StringLists`, `StringList` | `stringlist.c`; its calls | `Insert`, `InsertFails`, `Sort`, `Search`; `qsort` and `bsearch` by their contracts, nondeterministic |
| `NameBag` | nothing: abstract specification of a string list | a bag that grows and answers |
| `InodeTable` | `vfs_find_inode`, `vfs_lookup`, `vfs_map_path`, the sort, as operators on a table | |
| `Directories` | nothing: the reference | what the nearest ancestor says; tables of different paths without trailing slashes (`PlainTable`) |
| `VfsInodes` | `vfs_add_inode`, `vfs_freeze_inodes`, `vfs_lookup` | `BeginAdd`/`RefuseAdd` up to `path_split`, then one `AddVisit` per callback, each with its allocation outcomes; `Freeze`, `DoLookup`, `RefuseLookup` |
| `RealDisk` | lstat, stat, opendir, fopen (external) | the disk is a function from places to kinds |
| `VfsOpen` | `vfs_open_node`, chdir, opendir, open, stat, read, write, close | `vfs_open_node` up to the symlink check is one step, for it looks at the table only; then one step per system call: `LstatOne`, `Stat…`, `Opendir`, `OpenStat`, `Fopen`; `ChangeDisk` by others in between |
| `DirCursor` | nothing: abstract specification of the working directory | moves along paths the client sent, to visible places |
| `VfsReaddir` | `vfs_readdir`, opening and closing its handles | `ReadNothing`, `ReadListing`, `EnterLoop`, `EndWithoutStream` begin a call; in the loop `StreamReads`, `StatLists`/`StatSkips`, `StreamEnds`, `StreamFails`; `ChangeDisk` by others, also between readdir(3) and fstatat(2) |
| `Session` | `main.c`, and clients as its environment | one action per step of the thread between two polls (`Accept`, `KeyExchange`, `AuthPoll`, `SetChannelCallbacks`, `EventPoll`, `Check`, `SftpInit`, `SftpFails`, `process_client_message`, ...); a poll folds the callbacks over everything the client has sent; `ReadMore` is the blocking read of a packet; `Connect` and `Send` are the clients |
| `FirstServed` | nothing: abstract specification of the server | a queue, one client served, packets dealt with in order |
| `Totp` | `rfc6238.c` as operators | the HMAC is a constant function of the time slice |
| `Passdb` | `passdb.c` on one entry | `passdb_create_entry` with its failures, `passdb_attach_totp`, `passdb_validate` up to the first code, then `CheckOffset` once per code, `Answered` |
| `Base32` | `rfc4648_decode_base32_multi` | one step per group of eight characters: `GroupDecodes`, `GroupRefused` |

Composition: `Paths` → `StringLists` → `InodeTable` → `VfsInodes` and, with
`RealDisk`, `VfsOpen`. `StringLists` → `VfsReaddir`. `Totp` → `Passdb`. `MC*` modules give the
constants values for TLC; `*Proofs` modules hold the proofs. Definitions ending
in `_Mut` are plausible mistakes in the definition they follow; they
are used only to see that a property notices them.

Abstractions. A file name is one token, so lengths count tokens and slashes;
no bound of the code depends on more (the truncation of names to 255 bytes in
`vfs_readdir` is not modelled). Flag words are sets. An inode is known by its
index in the order of creation, which stands for its address. Error wording and
logging are left out. A digest of a passphrase is what it was computed from, so
different inputs never collide; a Base32 character is its index in the
alphabet; the contents of messages, passwords included, are left out, since the
session ignores them.

libssh is external and modelled from how `main.c` uses it. A poll deals with all
that has come in, calling back for session messages and keeping SFTP packets
in the channel's inbox; a poll with a timeout that finds nothing changes nothing;
the poll that sees the connection end may report an error, and every later
one does; a subsystem request that finds no channel callback is kept unanswered;
before the key exchange nothing else is accepted. Clients keep to the order of
the protocol, and ask each thing once per connection. SSH's packet format,
encryption and windows are left out.

## Runs

| Run | Question | Bounds and why they suffice |
|---|---|---|
| `paths` | do the path functions agree with walking? | requests of up to 6 tokens over two plain and one dot name: spells `/a/../b`, `a//.h/`, `../..`; working directories up to depth 2, one more than `..` needs |
| `string_list` | is the list a bag with an honest flag? | 3 names, 4 places: repeated names and every order |
| `inodes` | does building the table keep it one tree, with unique paths and right lookups? | 5 inodes: a root and a tree of depth two over two names; requests in every order, refused ones, nested targets, flags set above and reset below, a path of slashes only; one callback whose allocations fail, at any of the places and in any combination |
| `readdir` | two handles on one listing: who suffers from the sort? | two virtual names out of order, two real ones of every kind, one in common; one outside change |
| `readdir_one` | does listing show everything once, and end? | every listing of up to two names, one change, one failing readdir(3) |
| `open` | do flags, filters and checks hold, and do operations return? | a table with read-only, read-write, filtered, hidden-filtering, symlink-permitting parts over one real directory; disks with every kind at three places; one change at any point; one handle at a time (each operation has its own) |
| `passdb` | who is let in, and how far from the window? | three creations: one over another that failed or not, and a third; slices of two and three seconds, windows of none, less than a slice, one slice and more, one whose offsets overflow an int and one that wraps around (`UintSize` 16 stands for 2^32, so that `INT_MAX` is 7); times from -1 to 6, so that both neighbours of slice zero and slices on both sides of the window exist; two passphrases, one of which looks like the other with a code |
| `base32` | does the decoder write the right bits, and only there? | every string of up to four characters alone, behind four and behind seven others: every length from 0 to 11, every place of the end, the padding and a wrong character; buffers too small, exact and large |
| `session` | is everybody served and answered, in order? | two clients, one of which waits for each answer; one answered and one unanswered type of request, two requests in one session: enough for one to overtake the other |
| `readdir_two_listings`, `open_failed_stat`, `open_limit` | violations, see below | |

The deadlock check is off in `inodes` and `open`, where the process may die of
an invalid pointer (`VisitDies`, `OpendirDies`), which ends the behaviour, in
`base32`, which is one call, and in `session`, where the server stops when it
is out of memory.

What the properties of `passdb` and `session` say in particular:

- `CodeInWindowAccepted` and `AcceptedIsFresh` measure in seconds what the code
  counts in slices: rounding the window up reaches every code at most the window
  away, and adds less than one slice. The first excludes windows so long that the
  rounding wraps (`passdb.c:156`) or that their last offset, in seconds, is beyond
  `INT_MAX` (`passdb.c:166`, `passdb.c:197`); such windows are in the run, and
  `AcceptedIsFresh` holds for them too, since an offset that overflows is never
  farther from zero than the true one. The overflow is undefined in C: at each
  product a build may wrap around or, if the compiler has widened the
  multiplication, be exact (`Shifts`). A window of `UINT_MAX` slices of one second
  is left out, because the loop over it would not end.
- `ChecksTellNothing` says with which codes a loop may go on and stop: it goes on
  after a code that can differ and stops at one that can fit, where the two
  exclude each other unless the offset overflows.
- `AcceptedWasSet` is about entries with a key derivation function. An entry
  without one accepts everything, also after a creation that failed.
- `PatientIsAnswered` leaves out directory requests, whose answers are compiled
  out (`main.c:89`), and clients that send ahead; `EveryoneGetsATurn` leaves out
  those behind a client that never leaves. Both exceptions are needed.
- `ImplementsService` compares the server with `FirstServed`: a packet counts as
  pending from the moment it is sent until the dispatcher or `sftp_server_init`
  has taken it, wherever it is kept meanwhile.

Changes by other processes are bounded by one per behaviour in the passing
runs: each window between two system calls of one operation is hit, in every
operation, but not two windows of one operation in the same behaviour.

A real name may be a file whose type readdir(3) leaves out (`"untyped"`).

Fairness. `VfsReaddir`: a call once begun runs (`WF(InCall)`: one thread, no
blocking on anybody else), and a client that lists a directory goes on reading
until the end or an error, as `vfs_shell_ls` does (`vfsdebug.c:182`). `VfsOpen`:
a call once begun runs. The changes of other processes are never fair.
`Session`: the server is one thread that runs whenever it can
(`WF(ServerStep)`); which of several outcomes of a step happens is open. Running
out of memory (`OutOfMemory`) is never fair, so that no property holds
only because a blocked server would some day give up, and nothing is asked of
clients, who may stay silent for ever.

### What the violations show

Each contradicts a sentence of the code; the quotations are in `PROJECT.json`.

- A listing in progress on one handle loses a virtual directory when another
  handle's `vfs_readdir` sorts the shared listing (`vfs.c:715`). What remains
  true is `ListingWalkedOnce`.
- `vfs_open` goes on after a failed stat when reading, too (`vfs.c:549`).
- The handle limit is never met, since nothing counts handles (`vfs.c:384`).

Seen while modelling, without a run of their own:

- `vfs_readdir` also passes over entries whose type the file system does not
  report, though "No need to stat if there's a file node which we do not support
  at all" (`vfs.c:710`) speaks of unsupported ones: on such file systems no real
  entry is listed. `DiskListedOnce` says so.
- `vfs_opendir` says "but is a virtual directory" (`vfs.c:524`) and succeeds
  whenever opendir(3) fails, whether or not there is an inode.
- Packets that a client sends ahead may be in the channel's inbox when the event
  loop begins to poll without a timeout (`main.c:156`): they wait until the client
  sends something else. A subsystem request sent ahead of the answer to the
  channel request may be lost for good (`main.c:230`).
- OPENDIR and READDIR are never answered (`main.c:100`, `main.c:116`), and no
  message is freed. `start_server` returns 1, which is true, if it cannot listen
  (`main.c:273`).
- `rfc6238_generate_now` passes the time where `rfc6238_generate_at` passes the
  number of the slice (`rfc6238.c:92`); nothing calls it.
- A window within one slice of 2^32 seconds wraps around to almost nothing
  (`passdb.c:156`). From 2^31 seconds on the offsets overflow an int
  (`passdb.c:166`), so that codes inside such a window may not be accepted. A failed `passdb_create_entry` over an older entry has
  already replaced its function and parameters, so that the old passphrase may no
  longer work, and with `PASSDB_KDF_NONE` leaves an entry that accepts every
  passphrase.
- The configuration keeps pointers into the JSON tree it releases
  (`jsonconfig.c:155`).
- `/a///` would create two inodes for `/a` (`vfs.c:204`): `pathcmp` drops one
  slash, `path_split` another, and `truncate_trailing_slash` all of them. The
  theorem `PathsStayUnique` has its assumption from here. A path of nothing but
  slashes makes `const_basename` return an invalid pointer (`vfs.c:168`).
- A target `/` is truncated to the empty string (`vfs.c:155`), and the
  mountpoint's own path is mapped to it; `inodes` has no such target.
- Listings show symlinks where `vfs_open_node` hides them (`vfs.c:725`).
- `DISALLOW_CREATE_FILE` and its like have no effect (`vfs.c:565`).

## Proofs

The theorems hold for every value of the constants, under the assumptions that
the modules name and TLC evaluates in every run:

- `NamesAssumption`, `RankAssumption`: names are none of the special tokens, and
  strcmp is a total order of them; `NullAssumption`, `NullIsNoRecord`,
  `NullIsNoErrno`, `NullIsNoError`: the null pointer is none of the values it is
  compared with.
- `RequestsAssumption`: requested paths are non-empty token sequences.
  `LookupPathsAssumption`: those looked up are token sequences, and the absolute
  ones are canonical, since `vfs_lookup` has one caller, `vfs_open_node`, which sanitizes
  first.
- `TableAssumption`: `VfsOpen` starts from a table of different paths without
  trailing slashes, which is what `VfsInodesProofs` proves of the tables that
  `vfs_add_inode` builds, and no target has two names without a slash between
  them (`IsPath`), which as a string would be one name. `OpenAssumption`: requests
  are token sequences, and disks map places to kinds.
- `ListingsAssumption`: a listing has no name twice, one inode per path.
  `PassdbAssumption`: a slice is at least a second, and nobody sets the passphrase
  that stands for a wrong one. `ReaddirAssumption`, `SessionAssumption`: types of the
  constants. `PathBounds`, `InodeBounds`, `CountBound`: the bounds are numbers.
- `Base32Assumption`: no NUL inside a string; `Running`, which stands for no
  result yet, is neither true nor false.

Hypotheses of single theorems, all needed:

- `SparseRequests` (no request has three slashes in a row, `vfs.c:204`):
  `PathsStayUnique` and what rests on it, `LookupsSurviveSorting`,
  `LookupsAskTheNearest`, `MappingStaysBelow`, `ListingsStayTheTree` and
  `GrantsAreHonoured`.
- `NoRootTargets` (no target is all slashes): `MappingStaysBelow`. Such a target is
  truncated to the empty string (`vfs.c:155`), and what is mapped through it need
  not be absolute.
- `CanonicalRequests` (an absolute request is the path of a place, with or without
  one slash at its end): `ListingsStayTheTree`, `GrantsAreHonoured`. `vfs_add_inode`
  does not sanitize: `/a//b` or `/a/../b` is stored as it is spelled, and no lookup
  of a sanitized path finds it. In `inodes`, TLC checks both properties also with a
  request of slashes only, at which the process dies.
- One handle: `OverridingShows`; the run `readdir_two_listings` shows that two are
  too many.

`TypeInvariance` and `CreatingStaysLocal` hold for any requests.

| Module | Proves about | Theorems |
|---|---|---|
| `FoldProofs` | the folds of the community modules | lemmas only |
| `DataProofs` | string lists, paths and lookups as data | lemmas only |
| `StringListProofs` | `StringList`, `PathRequests` | `FlagIsHonest`, `ImplementsTheBag`; `SanitizingIsWalking`, `SplittingVisitsAncestors`, `HiddenPathsHaveHiddenNames`, `TruncationLosesNothing` |
| `VfsInodesProofs` | `VfsInodes` | `TypeInvariance`, `PathsStayUnique`, `LookupsSurviveSorting`, `LookupsAskTheNearest`, `CreatingStaysLocal`, `MappingStaysBelow`, `ListingsStayTheTree`, `GrantsAreHonoured` |
| `VfsOpenProofs` | `VfsOpen` | `TypesAreKept`, `HandlesHaveHolders`, `CwdNeverOverflows`, `FiltersAreKept`, `ReadOnlyIsKept`, `ErrorsAreHarmless`, `CursorIsImplemented`, `CheckedStaysOpened` |
| `VfsReaddirProofs` | `VfsReaddir` | `EachIsWalkedOnce`, `OverriddenAreHidden`, `EachIsListedOnce`, `OverridingShows` |
| `PassdbProofs` | `Passdb`, `Totp`; `Base32` | `OnlySetPassphrases`, `OnlyFreshCodes`, `WindowIsCovered`, `TimingTellsNothing`; `DecoderIsRight`, `DecoderStaysInside` |
| `SessionProofs` | `Session` | `TypeIsKept`, `HandlesAreOwn`, `ServesAsPromised` |

**Folds.** The code's loops are written as folds (`FoldLeft`, `MapThenFoldSet`),
which the library defines by recursive functions on sets of indices. `FoldExists`
shows that a function with the recursion's equation exists (by induction on the
number of indices, with the set of good numbers in place of an operator), and
`FoldRun` that it takes the values of a *run*: the accumulator before the first
element, after the first, and so on. From there on, a proof about a fold is a
proof about the elements of a run, one step at a time.

**Paths.** A run of `SanitizeToken` over a path keeps one fact: what has been
written is the canonical path of the walk so far (`SanitizeWalks`). Hence a
sanitized path is `Render` of a place, `PlaceOf` gets the place back from it
(`RenderIs`), and its slashes are at the odd positions, so that `path_split` cuts it
at each ancestor (`path_split` names its k-th callback by `Nth`, the place with k
cuts at or before it). The invariant of `PathRequests` is that the working directory is the
stored path of a place (`TypingOK`); its theorems stand beside those of the string
list, whose names for its own initial states and steps differ.
`Components`, the names that a path of any spelling has, is a recursive function
that takes one token at a time; its run (`TakeNameRun`) gives what the proofs
about the real disk and about mapped paths need, such as the names of two paths
put together (`ComponentsJoin`).

**Lookups.** `vfs_lookup` folds `vfs_lookup_splitter` over the callbacks of
`path_split`. `LookedUp` says what it has collected at depth d: the flags and the
mountpoint of the nearest ancestors down to d; the last callback sets the inode.
`LookupStep` keeps that, and `LookupIs` states it for the whole path, in a table
in which no two inodes have the same path: then `vfs_find_inode` finds *the*
inode of a place.

**String list.** The conjunction of `TypeOK` and `SortedFlagHonest` is inductive
as it stands. `ImplementsTheBag` is the refinement of `NameBag`: an insert adds
one to one count; a sort keeps every count, because `qsort` is an injection of
the places into themselves and so meets every place; a search answers right
because it only ever searches an ordered list.

**Inode table.** `TypeInvariance` is proved through `EveryStepOK`: every step
leaves the paths of the table alone, extends it by one inode for a path that was
not found, or rearranges it. `PathsStayUnique` needs a strengthening,
`StoredWithoutSlash`: the table holds truncated paths only. Then `pathcmp`, which
drops one slash, compares a cut with a stored path exactly as the cut will be
stored, provided the cut ends in at most one slash: this is where
`SparseRequests` is used. `LookupsSurviveSorting` follows: at most one position
matches a path, so `vfs_find_inode` does not depend on the order, and `vfs_lookup`
depends on the order only through it. `LookupsAskTheNearest` adds that the
pending answer was right when it was given, and that the table has not changed
since (`ResultOK`). All of it covers failed allocations and inodes added after
the freeze.

`CreatingStaysLocal`: what a lookup collects comes from inodes whose paths
match a cut of the path (`MatchIsAbove`), so that a new one elsewhere changes
nothing (`StepSaysTheSame`); this needs neither unique paths nor a whole tree.
`MappingStaysBelow` needs that every target is absolute (`TargetsAbsolute`), and
that the mountpoint found is an ancestor, so that the mapped path is the target
and then the names below the mountpoint (`MapIs`).

The tree is the invariant `TreeInv`, which holds as long as no allocation has
failed: the table holds every inode; each stands at a place of its own, its
parent at the place above, and a listing has each child once and nothing else
(`Tree`); a call in progress has come k directories deep, where `previous` stands,
and nothing stands at the place it asks for (`AddingBelow`); and each
answered request has the inode it asked for (`Honoured`). The tree alone is not
inductive: a callback of `path_split` adds the inode of one directory and lists it
in `previous`, so the invariant must know where the call is. `VisitDepth` says that
the j-th callback is about the k-th directory, and `TreeGrows` that a new
inode which its parent lists keeps the tree, since nothing stands below a place
at which nothing stands.

**Path operations.** The invariant `IInv` of `VfsOpen` says, beside the types, that
the working directory is the stored path of a visible place and fits its buffer;
that every handle is on a visible place and has the flags the nearest ancestors
give it (`HandlesOK`); that the handle of the operation in progress leads where
walking one client's request from the working directory leads (`CallOK`); and that a
handle that has passed the checks for writing is not read-only (`WritersOK`). The
properties alone are not inductive: `READ_ONLY` is looked up in `vfs_open_node`,
asked after the symlink walk, and used once more by each write through a handle that
may be much older. Every way an operation ends is `Finish` or `Deliver`, so
`FinishKeeps` and `DeliverKeeps` carry all the error paths. `CursorIsImplemented` is
the refinement of `DirCursor`: only `vfs_chdir` moves the working directory, and
by one walk. `ErrorsAreHarmless` is the action property of all operations.

`CheckedStaysOpened` needs what the operation knows of the disk as long as nobody
else has changed it (`Knows`, `raced`): during the symlink walk, that there is no
link among the names lstat has seen; after it, that no link can be reached
(`Shielded`: the walk ends early only where something is absent, and nothing can
be opened behind that); and before fopen, that stat found a regular file or nothing.

**Listing.** The invariant of `VfsReaddir` relates, for each handle, what it has
been shown with its position in the shared listing: if nobody has sorted the listing
under it (`disturbed`), each name before the position was shown as often as it is
there (`WalkedOnce`); an entry nobody has changed is still owed by the stream (`pending`), in
the hands of the call, or was shown as often as it should be (`DiskOK`); and an entry that was shown is not in the
listing (`ShowsOf`), which a sort keeps because it keeps the names.
The counts are cardinalities of sets of places, which an entry more changes by
one (`OneMoreEntry`).

**Password database.** `AcceptedWasSet` needs that the entry's digest, if it has a
function, is that of a passphrase some creation confirmed, also when a creation
has failed after replacing the function. `AcceptedIsFresh` and
`CodeInWindowAccepted` come down to the arithmetic of rounding a window up to slices,
with the slice number of negative times rounded towards zero as in C. `AsIntIs`
bounds an int that has wrapped: the first needs that it stays in the window
(`ShiftsStay`), the second that nothing wraps where its condition holds
(`ShiftsAreSlices`), and that the loop has compared every offset it has passed. `ChecksTellNothing` needs
that the number of codes left to compute is a function of the entry and not of the
passphrase.

**Base32.** Before it returns, the decoder has read whole groups of the alphabet's
characters and has written five bytes for each (`WholeGroups`). Hence a group
begins before the NUL or at it and ends inside the string (`GroupIs`); its n
characters complete the first 5n/8 bytes, and those that fit are the first of
these (`FittingIs`). A byte is the sum of its bits' weights, and each of its bits
is one of the character it comes from (`Byte0` to `Byte4`, `Source`); `BitsGrow`
counts the bits through the groups before. The proofs stand beside those of
`Passdb`, whose names for its own initial states and steps differ.

**Session.** `IInv` has four parts. `TypesOK`; `QueueOK`: nobody is
queued twice or queued and served at once, and what the thread waits for
fits the client it serves; `SocketOK`: a socket holds messages only of a
client that is queued or served, each sent by it and once, and before the keys are
there nothing but the key exchange or a disconnect;
`ServedOK`: what the handle claims is in the log of what was granted to the
client served (`OwnOf`), and a channel that can close was granted. `HandleIsOwn` is not
inductive without `SocketOK`: a poll hands all that the socket holds to the
callbacks, so what may arrive there must be bounded first. A poll is a fold of
`Receive` over the messages, and its run keeps `OwnOf` at every message
(`OutcomeRun`). `ServesAsPromised` maps the packets in the inbox and the socket, together, to
those pending in `FirstServed`, and the log to what was answered: a poll that moves
packets from the one to the other is a stutter, and each action maps to one of
`FirstServed` (`StepMaps`).

Some of the code's chains of cases are IF chains here because the arms of a TLA+
CASE that are true at the same time may be chosen in any order.

Every invariant and every action property that a passing run checks, and each
refinement, is the statement of a theorem. Not proved, only model-checked, is
liveness (`ListingFinishes`, `CallReturns`, `LeaversAreLetGo`, `PatientIsAnswered`,
`EveryoneGetsATurn`), since fairness and ENABLED are out of the prover's reach.

## Not modelled, and why

- The contents of files, so what an `fclose` that fails loses (`vfs.c:759`), and
  the fields of `vfs_stat`, among them user numbers cut to 16 bits
  (`vfs.c:594`): nothing in the program depends on either.
- `*handle_ptr` after a failed `vfs_open` points to a freed handle
  (`vfs.c:552`); callers do not look at it.
- A listing that could not be allocated is met by `vfs_add_inode` (it dies) but
  not by `vfs_readdir`.
- The lengths of C strings: buffers are sized from the strings they hold.
- The key derivations and HMACs of OpenSSL, libssh, json-c: external. A slice of
  zero seconds, which `rfc6238_new` lets pass, divides by zero: `PassdbAssumption`
  excludes it.
- The configuration parser copies values and checks their types in one pass;
  it has no behaviour of its own, and only its test calls it.
- The shell makes the calls modelled in `VfsOpen` and `VfsReaddir` one after the
  other; the rest of it is console input, and its find, mod, rm, mkdir and
  rmdir are not written yet. Logging is output.

## Plan

1. Done: `Paths`, `StringLists`, `InodeTable`, `VfsInodes`, `VfsOpen`,
   `VfsReaddir` with their runs; the proofs above.
2. Done: reading and I/O errors in `VfsOpen`; `Session` with `FirstServed`;
   `Totp` and `Passdb`; `Base32`.
3. Compose: `VfsReaddir` with the handles of `VfsOpen`, so that a listing opened
   through any path is the listing of its place.
4. Done: the proofs above, of all that is checked and is not liveness.
