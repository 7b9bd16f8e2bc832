---------------------------- MODULE SessionProofs ----------------------------
(***************************************************************************)
(* Proofs about the server, for any clients, any requests and any number   *)
(* of them.                                                                *)
(***************************************************************************)
EXTENDS Session, FoldProofs

-----------------------------------------------------------------------------
(***************************************************************************)
(* The inductive invariant.                                                *)
(***************************************************************************)
Places == {"accept", "stopped", "kex", "auth", "poll", "init", "message", "check"}

Logs == Seq(Messages \X BOOLEAN)

TypesOK ==
  /\ at \in Places
  /\ current \in Clients \cup {NULL}
  /\ handle = NULL \/ handle \in Handles
  /\ backlog \in Seq(Clients)
  /\ socket \in [Clients -> Seq(Messages)]
  /\ sent \in [Clients -> SUBSET Messages]
  /\ log \in Logs

(* Nobody is queued twice, or queued and served.                           *)
QueueOK ==
  /\ \A i, j \in 1 .. Len(backlog) : backlog[i] = backlog[j] => i = j
  /\ \A i \in 1 .. Len(backlog) : backlog[i] # current
  /\ current = NULL <=> at \in {"accept", "stopped"}
  /\ current = NULL <=> handle = NULL
  /\ current = NULL => log = <<>>

(* Nothing waits in a socket that was not sent, and each message once; who *)
(* is not served, or not past the key exchange, has not sent more.         *)
SocketOK ==
  \A c \in Clients :
    /\ sent[c] # {} => c = current \/ \E i \in 1 .. Len(backlog) : backlog[i] = c
    /\ \A i \in 1 .. Len(socket[c]) : socket[c][i] \in sent[c]
    /\ \A i, j \in 1 .. Len(socket[c]) : socket[c][i] = socket[c][j] => i = j
    /\ ~(c = current /\ Contains(log, <<"kex", TRUE>>)) => sent[c] \subseteq {"kex", "disconnect"}

ChannelGranted(l) == Contains(l, <<"channel", TRUE>>) \/ Contains(l, <<"channel again", TRUE>>)

(* What handle h says, the answers l say.                                  *)
OwnOf(h, l) ==
  /\ h.authenticated => Contains(l, <<"password", TRUE>>)
  /\ h.channel # NULL <=> ChannelGranted(l)
  /\ ~(Contains(l, <<"channel", TRUE>>) /\ Contains(l, <<"channel again", TRUE>>))
  /\ h.sftp_requested => Contains(l, <<"subsystem sftp", TRUE>>)
  /\ h.sftp => Contains(l, <<"INIT", TRUE>>)

ServedOK ==
  current # NULL =>
    /\ OwnOf(handle, log)
    /\ "close" \in sent[current] => ChannelGranted(log)
    /\ at = "kex" => log = <<>> /\ handle.inbox = <<>>
    /\ at # "kex" =>
         "kex" \in sent[current] /\ \A i \in 1 .. Len(socket[current]) : socket[current][i] # "kex"
    /\ at \in {"poll", "init", "message", "check"} => handle.channel # NULL

IInv == TypesOK /\ QueueOK /\ SocketOK /\ ServedOK

-----------------------------------------------------------------------------
(***************************************************************************)
(* The packets among some messages.                                        *)
(***************************************************************************)
LEMMA OnlyPacketsRun ==
  ASSUME NEW s \in Seq(Messages)
  PROVE  \E run \in [0 .. Len(s) -> Seq(Packets)] :
           /\ run[0] = <<>>
           /\ \A k \in 1 .. Len(s) :
                run[k] = IF s[k] \in Packets THEN Append(run[k - 1], s[k]) ELSE run[k - 1]
           /\ OnlyPackets(s) = run[Len(s)]
<1> DEFINE n == Len(s)
           S == Seq(Packets)
           Step(p, k) == IF s[k] \in Packets THEN Append(p, s[k]) ELSE p
           G == [q \in S \X (1 .. n) |-> Step(q[1], q[2])]
           Folds(f) == f = [t \in SUBSET (1 .. n) |->
                              IF t = {} THEN <<>> ELSE Step(f[t \ {Max(t)}], Max(t))]
           iter == CHOOSE f : Folds(f)
<1>1. n \in Nat /\ DOMAIN s = 1 .. n
  OBVIOUS
<1>2. OnlyPackets(s) = iter[1 .. n]
  BY <1>1 DEF OnlyPackets, FoldLeft, MapThenFoldSet
<1>3. G \in [S \X (1 .. n) -> S] /\ <<>> \in S
  OBVIOUS
<1>4. Folds(iter)
  <2>1. PICK f \in [SUBSET (1 .. n) -> S] : FoldsSets(f, n, <<>>, G)
    BY <1>1, <1>3, FoldExists
  <2>2. ASSUME NEW t \in SUBSET (1 .. n), t # {}
        PROVE  f[t \ {Max(t)}] \in S /\ Max(t) \in 1 .. n
    BY <1>1, <2>2, MaxIsIn
  <2>3. ASSUME NEW t \in SUBSET (1 .. n)
        PROVE  f[t] = IF t = {} THEN <<>> ELSE Step(f[t \ {Max(t)}], Max(t))
    <3>1. CASE t = {}
      BY <2>1, <3>1 DEF FoldsSets
    <3>2. CASE t # {}
      <4>1. f[t] = G[f[t \ {Max(t)}], Max(t)]
        BY <2>1, <3>2, Zenon DEF FoldsSets
      <4>2. G[f[t \ {Max(t)}], Max(t)] = Step(f[t \ {Max(t)}], Max(t))
        BY <2>2, <3>2
      <4> QED
        BY <3>2, <4>1, <4>2, Zenon
    <3> QED
      BY <3>1, <3>2
  <2>4. f = [t \in SUBSET (1 .. n) |-> f[t]]
    BY <2>1
  <2>5. Folds(f)
    BY <2>3, <2>4, Zenon
  <2> HIDE DEF Folds
  <2> QED
    BY <2>5, Zenon
<1> HIDE DEF iter
<1> DEFINE run == [k \in 0 .. n |-> iter[1 .. k]]
<1>5. \A t \in SUBSET (1 .. n) : iter[t] = IF t = {} THEN <<>> ELSE Step(iter[t \ {Max(t)}], Max(t))
  BY <1>4
<1>6. run[0] = <<>>
  <2>1. 1 .. 0 = {} /\ {} \in SUBSET (1 .. n) /\ 0 \in 0 .. n
    BY <1>1
  <2>2. iter[{}] = <<>>
    BY <1>5, <2>1
  <2> QED
    BY <2>1, <2>2
<1>7. ASSUME NEW k \in 1 .. n PROVE run[k] = Step(run[k - 1], k)
  <2>1. k \in 0 .. n /\ k - 1 \in 0 .. n
    BY <1>1
  <2>2. run[k] = iter[1 .. k] /\ run[k - 1] = iter[1 .. (k - 1)]
    BY <2>1
  <2> HIDE DEF run, Step
  <2>3. /\ 1 .. k \in SUBSET (1 .. n) /\ 1 .. k # {}
        /\ Max(1 .. k) = k /\ (1 .. k) \ {k} = 1 .. (k - 1)
    BY <1>1, LastPlace
  <2>4. iter[1 .. k] = Step(iter[(1 .. k) \ {Max(1 .. k)}], Max(1 .. k))
    BY <1>5, <2>3, Zenon
  <2> QED
    BY <2>2, <2>3, <2>4, Zenon
<1>8. run[n] = OnlyPackets(s)
  BY <1>1, <1>2
<1> HIDE DEF run
<1> DEFINE T == {k \in 0 .. n : run[k] \in S}
<1>9. 0 \in T
  <2>1. <<>> \in S /\ 0 \in 0 .. n
    BY <1>1
  <2> HIDE DEF S
  <2> QED
    BY <1>6, <2>1
<1>10. ASSUME NEW k \in 1 .. n, k - 1 \in T PROVE k \in T
  <2>1. Step(run[k - 1], k) \in S
    BY <1>10
  <2> HIDE DEF Step, S
  <2> QED
    BY <1>1, <1>7, <2>1
<1>11. 0 .. n \subseteq T
  <2> HIDE DEF T
  <2> QED
    BY <1>1, <1>9, <1>10, InductionUpTo
<1>12. run \in [0 .. n -> S]
  <2>1. \A k \in 0 .. n : run[k] \in S
    BY <1>11
  <2>2. run = [k \in 0 .. n |-> run[k]]
    BY DEF run
  <2> QED
    BY <2>1, <2>2
<1> QED
  BY <1>6, <1>7, <1>8, <1>12

(* A message more is a packet more if it is one.                           *)
LEMMA OnlyPacketsGrow ==
  ASSUME NEW s \in Seq(Messages), NEW m \in Messages
  PROVE  /\ OnlyPackets(s) \in Seq(Packets)
         /\ OnlyPackets(Append(s, m))
              = IF m \in Packets THEN Append(OnlyPackets(s), m) ELSE OnlyPackets(s)
<1> DEFINE n == Len(s)
           t == Append(s, m)
<1>1. /\ n \in Nat /\ t \in Seq(Messages) /\ Len(t) = n + 1 /\ t[n + 1] = m
      /\ \A k \in 1 .. n : t[k] = s[k]
  OBVIOUS
<1>2. PICK f \in [0 .. n -> Seq(Packets)] :
        /\ f[0] = <<>>
        /\ \A k \in 1 .. n : f[k] = IF s[k] \in Packets THEN Append(f[k - 1], s[k]) ELSE f[k - 1]
        /\ OnlyPackets(s) = f[n]
  BY OnlyPacketsRun
<1> HIDE DEF t
<1>3. PICK g \in [0 .. Len(t) -> Seq(Packets)] :
        /\ g[0] = <<>>
        /\ \A k \in 1 .. Len(t) :
             g[k] = IF t[k] \in Packets THEN Append(g[k - 1], t[k]) ELSE g[k - 1]
        /\ OnlyPackets(t) = g[Len(t)]
  BY <1>1, OnlyPacketsRun
<1> DEFINE T == {k \in 0 .. n : g[k] = f[k]}
<1>4. 0 \in T
  BY <1>1, <1>2, <1>3
<1>5. ASSUME NEW k \in 1 .. n, k - 1 \in T PROVE k \in T
  <2>1. /\ f[k] = IF s[k] \in Packets THEN Append(f[k - 1], s[k]) ELSE f[k - 1]
        /\ g[k] = IF t[k] \in Packets THEN Append(g[k - 1], t[k]) ELSE g[k - 1]
        /\ t[k] = s[k] /\ g[k - 1] = f[k - 1]
    BY <1>1, <1>2, <1>3, <1>5
  <2> QED
    BY <1>1, <2>1
<1>6. 0 .. n \subseteq T
  <2> HIDE DEF T
  <2> QED
    BY <1>1, <1>4, <1>5, InductionUpTo
<1>7. g[n] = f[n]
  BY <1>1, <1>6
<1>8. g[n + 1] = IF m \in Packets THEN Append(g[n], m) ELSE g[n]
  <2>1. n + 1 \in 1 .. Len(t) /\ (n + 1) - 1 = n
    BY <1>1
  <2> QED
    BY <1>1, <1>3, <2>1
<1>9. OnlyPackets(s) \in Seq(Packets)
  BY <1>1, <1>2
<1> QED
  BY <1>1, <1>2, <1>3, <1>7, <1>8, <1>9 DEF t

(* No messages, no packets.                                                *)
LEMMA NoPackets == OnlyPackets(<<>>) = <<>>
<1>1. <<>> \in Seq(Messages) /\ Len(<<>>) = 0
  OBVIOUS
<1>2. PICK f \in [0 .. 0 -> Seq(Packets)] : f[0] = <<>> /\ OnlyPackets(<<>>) = f[0]
  BY <1>1, OnlyPacketsRun
<1> QED
  BY <1>2

(* Messages that are no packets do not count.                              *)
LEMMA OthersAreNoPackets ==
  ASSUME NEW s \in Seq(Messages), NEW t \in Seq(Messages),
         \A i \in 1 .. Len(t) : t[i] \notin Packets
  PROVE  OnlyPackets(s \o t) = OnlyPackets(s)
<1> DEFINE n == Len(t)
           Part(k) == s \o SubSeq(t, 1, k)
           T == {k \in 0 .. n : OnlyPackets(Part(k)) = OnlyPackets(s)}
<1>1. n \in Nat /\ Part(0) = s /\ Part(n) = s \o t
  OBVIOUS
<1>2. 0 \in T
  <2>1. 0 \in 0 .. n
    BY <1>1
  <2> HIDE DEF Part
  <2> QED
    BY <1>1, <2>1
<1>3. ASSUME NEW k \in 1 .. n, k - 1 \in T PROVE k \in T
  <2>1. Part(k) = Append(Part(k - 1), t[k]) /\ Part(k - 1) \in Seq(Messages) /\ t[k] \in Messages
    OBVIOUS
  <2>2. k \in 0 .. n /\ t[k] \notin Packets /\ OnlyPackets(Part(k - 1)) = OnlyPackets(s)
    BY <1>1, <1>3
  <2> HIDE DEF Part
  <2>3. OnlyPackets(Part(k)) = OnlyPackets(Part(k - 1))
    BY <2>1, <2>2, OnlyPacketsGrow
  <2> QED
    BY <2>2, <2>3
<1>4. 0 .. n \subseteq T
  <2> HIDE DEF T
  <2> QED
    BY <1>1, <1>2, <1>3, InductionUpTo
<1>5. n \in T
  BY <1>1, <1>4
<1> QED
  BY <1>1, <1>5

-----------------------------------------------------------------------------
(***************************************************************************)
(* What is read in a poll.                                                 *)
(***************************************************************************)
LEMMA LogGrows ==
  ASSUME NEW l \in Logs, NEW m \in Messages, NEW g \in BOOLEAN
  PROVE  /\ Append(l, <<m, g>>) \in Logs
         /\ \A x : Contains(Append(l, <<m, g>>), x) <=> Contains(l, x) \/ x = <<m, g>>
<1>1. /\ Append(l, <<m, g>>) \in Logs /\ Len(l) \in Nat
      /\ Len(Append(l, <<m, g>>)) = Len(l) + 1
      /\ Append(l, <<m, g>>)[Len(l) + 1] = <<m, g>>
      /\ \A i \in 1 .. Len(l) : Append(l, <<m, g>>)[i] = l[i]
  BY DEF Logs
<1>2. 1 .. Len(l) + 1 = (1 .. Len(l)) \cup {Len(l) + 1}
  BY <1>1
<1>3. \A x : Contains(Append(l, <<m, g>>), x) <=> Contains(l, x) \/ x = <<m, g>>
  BY <1>1, <1>2 DEF Contains
<1> QED
  BY <1>1, <1>3

States == [handle : Handles, log : Logs]

(* An answer is appended to the log and replaces the handle.               *)
LEMMA AnswerIs ==
  ASSUME NEW r \in States, NEW h \in Handles, NEW m \in Messages, NEW g \in BOOLEAN
  PROVE  /\ Answer([r EXCEPT !.handle = h], m, g) = [handle |-> h, log |-> Append(r.log, <<m, g>>)]
         /\ [handle |-> h, log |-> Append(r.log, <<m, g>>)] \in States
<1>1. r.log \in Logs /\ Append(r.log, <<m, g>>) \in Logs
  BY LogGrows DEF States
<1>2. Answer([r EXCEPT !.handle = h], m, g) = [handle |-> h, log |-> Append(r.log, <<m, g>>)]
  <2>1. [r EXCEPT !.handle = h] = [handle |-> h, log |-> r.log]
    BY DEF States
  <2> DEFINE s == [handle |-> h, log |-> r.log]
             new == Append(r.log, <<m, g>>)
  <2>2. Answer(s, m, g) = [s EXCEPT !.log = Append(s.log, <<m, g>>)]
    BY Zenon DEF Answer
  <2>3. s.log = r.log
    OBVIOUS
  <2>4. Answer(s, m, g) = [s EXCEPT !.log = new]
    BY <2>2, <2>3, Zenon
  <2> HIDE DEF new
  <2>5. [s EXCEPT !.log = new] = [handle |-> h, log |-> new]
    OBVIOUS
  <2> QED
    BY <2>1, <2>4, <2>5, Zenon DEF new
<1>3. [handle |-> h, log |-> Append(r.log, <<m, g>>)] \in States
  BY <1>1 DEF States
<1> QED
  BY <1>2, <1>3

(* Who was granted what grows with each answer.                            *)
LEMMA SaidMore ==
  ASSUME NEW r \in States, NEW l \in Logs, NEW m \in Messages, NEW g \in BOOLEAN
  PROVE  \A x : Contains(l \o Append(r.log, <<m, g>>), x) <=> Contains(l \o r.log, x) \/ x = <<m, g>>
<1>1. r.log \in Logs /\ l \o r.log \in Logs
  BY DEF States, Logs
<1>2. l \o Append(r.log, <<m, g>>) = Append(l \o r.log, <<m, g>>)
  BY <1>1 DEF Logs
<1>3. \A x : Contains(Append(l \o r.log, <<m, g>>), x) <=> Contains(l \o r.log, x) \/ x = <<m, g>>
  BY <1>1, LogGrows
<1> QED
  BY <1>2, <1>3, Zenon

(* What a callback keeps: it answers no packets, and what it sets in the   *)
(* handle it says so.                                                      *)
Kept(r, q, m, l) ==
  /\ q \in States
  /\ OwnOf(q.handle, l \o q.log)
  /\ r.handle.channel # NULL => q.handle.channel # NULL
  /\ q.handle.inbox = IF m \in Packets THEN Append(r.handle.inbox, m) ELSE r.handle.inbox
  /\ q.log = r.log \/ \E p \in Messages \ Packets, g \in BOOLEAN : q.log = Append(r.log, <<p, g>>)

(* A handle that says no more than the old one, but what is answered.      *)
LEMMA AnswerKeeps ==
  ASSUME NEW r \in States, NEW l \in Logs, NEW h \in Handles,
         NEW m \in Messages \ Packets, NEW g \in BOOLEAN,
         r.handle.channel # NULL => h.channel # NULL, h.inbox = r.handle.inbox,
         \A k : (\A x : Contains(k, x) <=> Contains(l \o r.log, x) \/ x = <<m, g>>) => OwnOf(h, k)
  PROVE  Kept(r, Answer([r EXCEPT !.handle = h], m, g), m, l)
<1> DEFINE q == [handle |-> h, log |-> Append(r.log, <<m, g>>)]
<1>1. Answer([r EXCEPT !.handle = h], m, g) = q /\ q \in States
  BY AnswerIs
<1>2. \A x : Contains(l \o Append(r.log, <<m, g>>), x) <=> Contains(l \o r.log, x) \/ x = <<m, g>>
  BY SaidMore
<1>3. OwnOf(h, l \o Append(r.log, <<m, g>>))
  BY <1>2, Zenon
<1>4. Kept(r, q, m, l)
  BY <1>1, <1>3 DEF Kept
<1> HIDE DEF q
<1> QED
  BY <1>1, <1>4

(* One callback of libssh keeps the handle its client's own: what it       *)
(* grants is what the client it serves has asked for.                      *)
LEMMA ReceiveKeeps ==
  ASSUME NEW r \in States, NEW m \in Messages \ {"kex"}, NEW a \in BOOLEAN, NEW l \in Logs,
         OwnOf(r.handle, l \o r.log), m = "close" => ChannelGranted(l \o r.log)
  PROVE  Kept(r, Receive(r, m, a), m, l)
<1>1. PICK h \in Handles : h = r.handle /\ r = [r EXCEPT !.handle = h]
  BY DEF States
<1>2. Packets \cap {"kex", "password", "channel", "channel again", "subsystem sftp",
                    "subsystem other", "close", "disconnect"} = {}
  BY SessionAssumption DEF Packets
<1>3. OwnOf(h, l \o r.log)
  BY <1>1
<1>4. CASE m = "password"
  <2> DEFINE new == [h EXCEPT !.authenticated = TRUE]
  <2>1. new \in Handles
    BY DEF Handles
  <2>2. /\ new.channel = h.channel /\ new.sftp_requested = h.sftp_requested /\ new.sftp = h.sftp
        /\ new.inbox = h.inbox
    BY DEF Handles
  <2>3. Receive(r, m, a) = Answer([r EXCEPT !.handle = new], m, TRUE)
    BY <1>1, <1>4 DEF Receive, auth_password
  <2> HIDE DEF new
  <2>4. \A k : (\A x : Contains(k, x) <=> Contains(l \o r.log, x) \/ x = <<m, TRUE>>) => OwnOf(new, k)
    BY <1>3, <1>4, <2>2 DEF OwnOf, ChannelGranted
  <2>5. Kept(r, Answer([r EXCEPT !.handle = new], m, TRUE), m, l)
    BY <1>1, <1>2, <1>4, <2>1, <2>2, <2>4, AnswerKeeps
  <2> QED
    BY <2>3, <2>5
<1>5. CASE m \in {"channel", "channel again"} /\ h.channel = NULL /\ a
  <2> DEFINE new == [h EXCEPT !.channel = "open"]
  <2>1. new \in Handles
    BY DEF Handles
  <2>2. /\ new.channel = "open" /\ new.sftp_requested = h.sftp_requested /\ new.sftp = h.sftp
        /\ new.authenticated = h.authenticated /\ new.inbox = h.inbox
    BY DEF Handles
  <2>3. Receive(r, m, a) = Answer([r EXCEPT !.handle = new], m, TRUE)
    <3>1. Receive(r, m, a) = channel_open(r, m, a)
      BY <1>5 DEF Receive
    <3>2. channel_open(r, m, a) = Answer([r EXCEPT !.handle.channel = "open"], m, TRUE)
      BY <1>1, <1>5 DEF channel_open
    <3> QED
      BY <1>1, <3>1, <3>2
  <2> HIDE DEF new
  <2>4. new.channel # NULL
    BY <2>2, NullAssumption
  <2>5. ~ChannelGranted(l \o r.log)
    BY <1>3, <1>5 DEF OwnOf
  <2>6. \A k : (\A x : Contains(k, x) <=> Contains(l \o r.log, x) \/ x = <<m, TRUE>>) => OwnOf(new, k)
    BY <1>3, <1>5, <2>2, <2>4, <2>5 DEF OwnOf, ChannelGranted
  <2>7. Kept(r, Answer([r EXCEPT !.handle = new], m, TRUE), m, l)
    BY <1>1, <1>2, <1>5, <2>1, <2>2, <2>4, <2>6, AnswerKeeps
  <2> QED
    BY <2>3, <2>7
<1>6. ASSUME m \in {"channel", "channel again", "subsystem sftp", "subsystem other"}
      PROVE  Kept(r, Answer(r, m, FALSE), m, l)
  <2>1. \A k : (\A x : Contains(k, x) <=> Contains(l \o r.log, x) \/ x = <<m, FALSE>>) => OwnOf(h, k)
    BY <1>3 DEF OwnOf, ChannelGranted
  <2>2. Kept(r, Answer([r EXCEPT !.handle = h], m, FALSE), m, l)
    BY <1>1, <1>2, <1>6, <2>1, AnswerKeeps
  <2> QED
    BY <1>1, <2>2
<1>7. CASE m \in {"channel", "channel again"} /\ ~(h.channel = NULL /\ a)
  <2>1. Receive(r, m, a) = channel_open(r, m, a)
    BY <1>7 DEF Receive
  <2>2. channel_open(r, m, a) = Answer(r, m, FALSE)
    BY <1>1, <1>7 DEF channel_open
  <2> QED
    BY <1>6, <1>7, <2>1, <2>2
<1>8. CASE m = "subsystem sftp" /\ h.callbacks
  <2> DEFINE new == [h EXCEPT !.sftp_requested = TRUE]
  <2>1. new \in Handles
    BY DEF Handles
  <2>2. /\ new.channel = h.channel /\ new.authenticated = h.authenticated /\ new.sftp = h.sftp
        /\ new.inbox = h.inbox
    BY DEF Handles
  <2>3. Receive(r, m, a) = Answer([r EXCEPT !.handle = new], m, TRUE)
    <3>1. Receive(r, m, a) = subsystem_request(r, m)
      BY <1>8 DEF Receive
    <3>2. subsystem_request(r, m) = Answer([r EXCEPT !.handle.sftp_requested = TRUE], m, TRUE)
      BY <1>1, <1>8 DEF subsystem_request
    <3> QED
      BY <1>1, <3>1, <3>2
  <2> HIDE DEF new
  <2>4. \A k : (\A x : Contains(k, x) <=> Contains(l \o r.log, x) \/ x = <<m, TRUE>>) => OwnOf(new, k)
    BY <1>3, <1>8, <2>2 DEF OwnOf, ChannelGranted
  <2>5. Kept(r, Answer([r EXCEPT !.handle = new], m, TRUE), m, l)
    BY <1>1, <1>2, <1>8, <2>1, <2>2, <2>4, AnswerKeeps
  <2> QED
    BY <2>3, <2>5
<1>9. CASE m = "subsystem other" /\ h.callbacks
  <2>1. Receive(r, m, a) = subsystem_request(r, m)
    BY <1>9 DEF Receive
  <2>2. subsystem_request(r, m) = Answer(r, m, FALSE)
    BY <1>1, <1>9 DEF subsystem_request
  <2> QED
    BY <1>6, <1>9, <2>1, <2>2
<1>10. CASE m \in {"subsystem sftp", "subsystem other"} /\ ~h.callbacks
  <2>1. Receive(r, m, a) = subsystem_request(r, m)
    BY <1>10 DEF Receive
  <2>2. subsystem_request(r, m) = r
    BY <1>1, <1>10 DEF subsystem_request
  <2> QED
    BY <1>1, <1>2, <1>3, <1>10, <2>1, <2>2 DEF Kept
<1>11. ASSUME NEW new \in Handles, OwnOf(new, l \o r.log), h.channel # NULL => new.channel # NULL,
              new.inbox = IF m \in Packets THEN Append(h.inbox, m) ELSE h.inbox
       PROVE  Kept(r, [r EXCEPT !.handle = new], m, l)
  <2> DEFINE q == [r EXCEPT !.handle = new]
  <2>1. q \in States /\ q.handle = new /\ q.log = r.log
    BY DEF States
  <2> HIDE DEF q
  <2>2. Kept(r, q, m, l)
    BY <1>1, <1>11, <2>1 DEF Kept
  <2> QED
    BY <2>2 DEF q
<1>12. CASE m = "close"
  <2> DEFINE new == [h EXCEPT !.channel = "closed"]
  <2>1. new \in Handles
    BY DEF Handles
  <2>2. /\ new.channel = "closed" /\ new.sftp_requested = h.sftp_requested /\ new.sftp = h.sftp
        /\ new.authenticated = h.authenticated /\ new.inbox = h.inbox
    BY DEF Handles
  <2>3. Receive(r, m, a) = [r EXCEPT !.handle = new]
    BY <1>1, <1>12 DEF Receive
  <2> HIDE DEF new
  <2>4. new.channel # NULL
    BY <2>2, NullAssumption
  <2>5. OwnOf(new, l \o r.log)
    BY <1>3, <1>12, <2>2, <2>4 DEF OwnOf
  <2> QED
    BY <1>2, <1>11, <1>12, <2>1, <2>2, <2>3, <2>4, <2>5
<1>13. CASE m = "disconnect"
  <2> DEFINE new == [h EXCEPT !.alive = FALSE]
  <2>1. new \in Handles
    BY DEF Handles
  <2>2. /\ new.channel = h.channel /\ new.sftp_requested = h.sftp_requested /\ new.sftp = h.sftp
        /\ new.authenticated = h.authenticated /\ new.inbox = h.inbox
    BY DEF Handles
  <2>3. Receive(r, m, a) = [r EXCEPT !.handle = new]
    BY <1>1, <1>13 DEF Receive
  <2> HIDE DEF new
  <2>4. OwnOf(new, l \o r.log)
    BY <1>3, <2>2 DEF OwnOf
  <2> QED
    BY <1>2, <1>11, <1>13, <2>1, <2>2, <2>3, <2>4
<1>14. CASE m \in Packets
  <2> DEFINE new == [h EXCEPT !.inbox = Append(@, m)]
  <2>1. new \in Handles
    BY <1>14 DEF Handles
  <2>2. /\ new.channel = h.channel /\ new.sftp_requested = h.sftp_requested /\ new.sftp = h.sftp
        /\ new.authenticated = h.authenticated /\ new.inbox = Append(h.inbox, m)
    BY DEF Handles
  <2>3. Receive(r, m, a) = [r EXCEPT !.handle = new]
    <3>1. Receive(r, m, a) = [r EXCEPT !.handle.inbox = Append(@, m)]
      BY <1>2, <1>14 DEF Receive
    <3> QED
      BY <1>1, <3>1
  <2> HIDE DEF new
  <2>4. OwnOf(new, l \o r.log)
    BY <1>3, <2>2 DEF OwnOf
  <2> QED
    BY <1>11, <1>14, <2>1, <2>2, <2>3, <2>4
<1> QED
  BY <1>4, <1>5, <1>7, <1>8, <1>9, <1>10, <1>12, <1>13, <1>14 DEF Messages

(* Appending to the second part appends to the whole.                      *)
LEMMA OneMore ==
  ASSUME NEW x \in Seq(Packets), NEW y \in Seq(Packets), NEW e \in Packets
  PROVE  Append(x \o y, e) = x \o Append(y, e)
OBVIOUS

(* What a log holds stays in it.                                           *)
LEMMA GrantedStays ==
  ASSUME NEW l \in Logs, NEW k \in Logs
  PROVE  \A x : Contains(l, x) => Contains(l \o k, x)
<1>1. Len(l \o k) = Len(l) + Len(k) /\ \A i \in 1 .. Len(l) : (l \o k)[i] = l[i]
  BY DEF Logs
<1>2. Len(l) \in Nat /\ Len(k) \in Nat
  BY DEF Logs
<1> QED
  BY <1>1, <1>2 DEF Contains

(* The outcome of a poll comes from one callback after the other.          *)
Outcome(h, t, a) ==
  FoldLeft(LAMBDA s, m : Receive(s, m, a), [handle |-> h, log |-> <<>>], t)

(* The messages libssh dispatches in one poll are received one by one.     *)
LEMMA OutcomeRun ==
  ASSUME NEW h \in Handles, NEW t \in Seq(Messages \ {"kex"}), NEW a \in BOOLEAN, NEW l \in Logs,
         OwnOf(h, l), (\E i \in 1 .. Len(t) : t[i] = "close") => ChannelGranted(l)
  PROVE  \E run \in [0 .. Len(t) -> States] :
           /\ run[0] = [handle |-> h, log |-> <<>>]
           /\ \A k \in 1 .. Len(t) : Kept(run[k - 1], run[k], t[k], l)
           /\ run[Len(t)] = Outcome(h, t, a)
<1> DEFINE n == Len(t)
           S == {r \in States : OwnOf(r.handle, l \o r.log)}
           b == [handle |-> h, log |-> <<>>]
           Step(r, k) == Receive(r, t[k], a)
           G == [q \in S \X (1 .. n) |-> Step(q[1], q[2])]
           Folds(f) == f = [s \in SUBSET (1 .. n) |->
                              IF s = {} THEN b ELSE Step(f[s \ {Max(s)}], Max(s))]
           iter == CHOOSE f : Folds(f)
<1>1. n \in Nat /\ DOMAIN t = 1 .. n
  OBVIOUS
<1>2. Outcome(h, t, a) = iter[1 .. n]
  BY <1>1 DEF Outcome, FoldLeft, MapThenFoldSet
<1>3. ASSUME NEW r \in S, NEW k \in 1 .. n
      PROVE  Kept(r, Step(r, k), t[k], l) /\ Step(r, k) \in S
  <2>1. r \in States /\ OwnOf(r.handle, l \o r.log) /\ r.log \in Logs
    BY DEF States
  <2>2. t[k] \in Messages \ {"kex"}
    OBVIOUS
  <2>3. t[k] = "close" => ChannelGranted(l \o r.log)
    BY <2>1, GrantedStays DEF ChannelGranted
  <2>4. Kept(r, Receive(r, t[k], a), t[k], l)
    BY <2>1, <2>2, <2>3, ReceiveKeeps
  <2> QED
    BY <2>4 DEF Kept
<1>4. b \in S
  <2>1. <<>> \in Logs /\ l \o <<>> = l
    BY DEF Logs
  <2>2. b \in States /\ b.handle = h /\ b.log = <<>>
    BY <2>1 DEF States
  <2> HIDE DEF b
  <2> QED
    BY <2>1, <2>2
<1> HIDE DEF Step, S, b
<1>5. G \in [S \X (1 .. n) -> S]
  BY <1>3
<1>6. Folds(iter)
  <2>1. PICK f \in [SUBSET (1 .. n) -> S] : FoldsSets(f, n, b, G)
    BY <1>1, <1>4, <1>5, FoldExists
  <2>2. ASSUME NEW s \in SUBSET (1 .. n), s # {}
        PROVE  f[s \ {Max(s)}] \in S /\ Max(s) \in 1 .. n
    BY <1>1, <2>2, MaxIsIn
  <2>3. ASSUME NEW s \in SUBSET (1 .. n)
        PROVE  f[s] = IF s = {} THEN b ELSE Step(f[s \ {Max(s)}], Max(s))
    <3>1. CASE s = {}
      BY <2>1, <3>1 DEF FoldsSets
    <3>2. CASE s # {}
      <4>1. f[s] = G[f[s \ {Max(s)}], Max(s)]
        BY <2>1, <3>2, Zenon DEF FoldsSets
      <4>2. G[f[s \ {Max(s)}], Max(s)] = Step(f[s \ {Max(s)}], Max(s))
        BY <2>2, <3>2
      <4> QED
        BY <3>2, <4>1, <4>2, Zenon
    <3> QED
      BY <3>1, <3>2
  <2>4. f = [s \in SUBSET (1 .. n) |-> f[s]]
    BY <2>1
  <2>5. Folds(f)
    BY <2>3, <2>4, Zenon
  <2> HIDE DEF Folds
  <2> QED
    BY <2>5, Zenon
<1> HIDE DEF iter
<1> DEFINE run == [k \in 0 .. n |-> iter[1 .. k]]
<1>7. \A s \in SUBSET (1 .. n) : iter[s] = IF s = {} THEN b ELSE Step(iter[s \ {Max(s)}], Max(s))
  BY <1>6
<1>8. run[0] = b
  <2>1. 1 .. 0 = {} /\ {} \in SUBSET (1 .. n) /\ 0 \in 0 .. n
    BY <1>1
  <2>2. iter[{}] = b
    BY <1>7, <2>1
  <2> QED
    BY <2>1, <2>2
<1>9. ASSUME NEW k \in 1 .. n PROVE run[k] = Step(run[k - 1], k)
  <2>1. k \in 0 .. n /\ k - 1 \in 0 .. n
    BY <1>1
  <2>2. run[k] = iter[1 .. k] /\ run[k - 1] = iter[1 .. (k - 1)]
    BY <2>1
  <2> HIDE DEF run
  <2>3. /\ 1 .. k \in SUBSET (1 .. n) /\ 1 .. k # {}
        /\ Max(1 .. k) = k /\ (1 .. k) \ {k} = 1 .. (k - 1)
    BY <1>1, LastPlace
  <2>4. iter[1 .. k] = Step(iter[(1 .. k) \ {Max(1 .. k)}], Max(1 .. k))
    BY <1>7, <2>3, Zenon
  <2> QED
    BY <2>2, <2>3, <2>4, Zenon
<1>10. run[n] = Outcome(h, t, a)
  BY <1>1, <1>2
<1>11. run = [k \in 0 .. n |-> run[k]]
  OBVIOUS
<1> HIDE DEF run
<1> DEFINE T == {k \in 0 .. n : run[k] \in S}
<1>12. 0 \in T
  BY <1>1, <1>4, <1>8
<1>13. ASSUME NEW k \in 1 .. n, k - 1 \in T PROVE k \in T
  BY <1>1, <1>3, <1>9, <1>13
<1>14. 0 .. n \subseteq T
  <2> HIDE DEF T
  <2> QED
    BY <1>1, <1>12, <1>13, InductionUpTo
<1>15. \A k \in 0 .. n : run[k] \in S
  BY <1>14
<1>16. \A k \in 1 .. n : Kept(run[k - 1], run[k], t[k], l)
  <2> SUFFICES ASSUME NEW k \in 1 .. n PROVE Kept(run[k - 1], run[k], t[k], l)
    OBVIOUS
  <2>1. k - 1 \in 0 .. n
    BY <1>1
  <2>2. Kept(run[k - 1], Step(run[k - 1], k), t[k], l)
    BY <1>3, <1>15, <2>1
  <2> QED
    BY <1>9, <2>2, Zenon
<1>17. run \in [0 .. n -> States]
  <2>1. \A k \in 0 .. n : run[k] \in States
    BY <1>15 DEF S
  <2> QED
    BY <1>11, <2>1
<1> QED
  BY <1>8, <1>10, <1>16, <1>17 DEF b

(* No packet is answered in a poll, what the handle says is answered, no   *)
(* channel is lost, and the packets are in the inbox.                      *)
LEMMA OutcomeKeeps ==
  ASSUME NEW h \in Handles, NEW t \in Seq(Messages \ {"kex"}), NEW a \in BOOLEAN, NEW l \in Logs,
         OwnOf(h, l), (\E i \in 1 .. Len(t) : t[i] = "close") => ChannelGranted(l)
  PROVE  /\ Outcome(h, t, a) \in States
         /\ OwnOf(Outcome(h, t, a).handle, l \o Outcome(h, t, a).log)
         /\ h.channel # NULL => Outcome(h, t, a).handle.channel # NULL
         /\ Outcome(h, t, a).handle.inbox = h.inbox \o OnlyPackets(t)
         /\ \A i \in 1 .. Len(Outcome(h, t, a).log) : Outcome(h, t, a).log[i][1] \notin Packets
<1> DEFINE n == Len(t)
<1>1. PICK run \in [0 .. n -> States] :
        /\ run[0] = [handle |-> h, log |-> <<>>]
        /\ \A k \in 1 .. n : Kept(run[k - 1], run[k], t[k], l)
        /\ run[n] = Outcome(h, t, a)
  BY OutcomeRun
<1>2. t \in Seq(Messages) /\ n \in Nat
  OBVIOUS
<1>3. PICK packets \in [0 .. n -> Seq(Packets)] :
        /\ packets[0] = <<>>
        /\ \A k \in 1 .. n : packets[k] = IF t[k] \in Packets THEN Append(packets[k - 1], t[k])
                                          ELSE packets[k - 1]
        /\ OnlyPackets(t) = packets[n]
  BY <1>2, OnlyPacketsRun
<1> DEFINE Good(r, k) ==
             /\ OwnOf(r.handle, l \o r.log)
             /\ h.channel # NULL => r.handle.channel # NULL
             /\ r.handle.inbox = h.inbox \o packets[k]
             /\ \A i \in 1 .. Len(r.log) : r.log[i][1] \notin Packets
           T == {k \in 0 .. n : Good(run[k], k)}
<1>4. 0 \in T
  <2>1. run[0].handle = h /\ run[0].log = <<>>
    BY <1>1
  <2>2. l \o <<>> = l /\ h.inbox \o <<>> = h.inbox /\ Len(<<>>) = 0
    BY DEF Logs, Handles
  <2>3. OwnOf(run[0].handle, l \o run[0].log)
    BY <2>1, <2>2
  <2>4. run[0].handle.inbox = h.inbox \o packets[0]
    BY <1>3, <2>1, <2>2
  <2>5. \A i \in 1 .. Len(run[0].log) : run[0].log[i][1] \notin Packets
    BY <2>1, <2>2
  <2>6. Good(run[0], 0) /\ 0 \in 0 .. n
    BY <1>2, <2>1, <2>3, <2>4, <2>5
  <2> HIDE DEF Good
  <2> QED
    BY <2>6
<1>5. ASSUME NEW k \in 1 .. n, k - 1 \in T PROVE k \in T
  <2>1. k \in 0 .. n /\ k - 1 \in 0 .. n
    BY <1>2
  <2>2. PICK r \in States, q \in States : r = run[k - 1] /\ q = run[k]
    BY <2>1
  <2>3. Kept(r, q, t[k], l) /\ Good(r, k - 1)
    BY <1>1, <1>5, <2>2
  <2>4. PICK p \in Seq(Packets) : p = packets[k - 1]
    BY <2>1
  <2>5. q.handle.inbox = h.inbox \o packets[k]
    <3>1. r.handle.inbox = h.inbox \o p
      BY <2>3, <2>4
    <3>2. h.inbox \in Seq(Packets)
      BY DEF Handles
    <3>3. CASE t[k] \in Packets
      <4>1. packets[k] = Append(p, t[k]) /\ q.handle.inbox = Append(h.inbox \o p, t[k])
        BY <1>3, <2>3, <2>4, <3>1, <3>3 DEF Kept
      <4>2. Append(h.inbox \o p, t[k]) = h.inbox \o Append(p, t[k])
        BY <2>4, <3>2, <3>3, OneMore
      <4> QED
        BY <4>1, <4>2
    <3>4. CASE t[k] \notin Packets
      BY <1>3, <2>3, <2>4, <3>1, <3>4 DEF Kept
    <3> QED
      BY <3>3, <3>4
  <2>6. \A i \in 1 .. Len(q.log) : q.log[i][1] \notin Packets
    <3>1. CASE q.log = r.log
      BY <2>3, <3>1
    <3>2. ASSUME NEW e \in Messages \ Packets, NEW g \in BOOLEAN, q.log = Append(r.log, <<e, g>>)
          PROVE  \A i \in 1 .. Len(q.log) : q.log[i][1] \notin Packets
      <4>1. PICK old \in Logs : old = r.log
        BY <2>2 DEF States
      <4>2. /\ Len(old) \in Nat /\ Len(q.log) = Len(old) + 1 /\ q.log[Len(old) + 1] = <<e, g>>
            /\ \A i \in 1 .. Len(old) : q.log[i] = old[i]
        BY <3>2, <4>1 DEF Logs
      <4>3. \A i \in 1 .. Len(old) : old[i][1] \notin Packets
        BY <2>3, <4>1
      <4> QED
        BY <4>2, <4>3
    <3> QED
      BY <2>3, <3>1, <3>2 DEF Kept
  <2>7. Good(q, k)
    BY <2>3, <2>5, <2>6 DEF Kept
  <2> QED
    BY <2>1, <2>2, <2>7
<1>6. 0 .. n \subseteq T
  <2> HIDE DEF T
  <2> QED
    BY <1>2, <1>4, <1>5, InductionUpTo
<1>7. n \in T /\ n \in 0 .. n
  BY <1>2, <1>6
<1>8. Good(Outcome(h, t, a), n)
  BY <1>1, <1>7
<1>9. Outcome(h, t, a) \in States
  BY <1>1, <1>7
<1> QED
  BY <1>3, <1>8, <1>9

-----------------------------------------------------------------------------
(***************************************************************************)
(* Each step keeps the invariant.                                          *)
(***************************************************************************)
LEMMA IInvInit == Init => IInv
<1> SUFFICES ASSUME Init PROVE IInv
  OBVIOUS
<1>1. TypesOK
  BY DEF Init, TypesOK, Places, Logs
<1>2. QueueOK
  BY DEF Init, QueueOK
<1>3. SocketOK
  BY DEF Init, SocketOK
<1>4. ServedOK
  BY DEF Init, ServedOK
<1> QED
  BY <1>1, <1>2, <1>3, <1>4 DEF IInv

(* What is left of a queue when its first is gone.                         *)
LEMMA TheOthers ==
  ASSUME NEW q \in Seq(Clients), q # <<>>
  PROVE  /\ Head(q) \in Clients /\ Tail(q) \in Seq(Clients)
         /\ Len(q) \in Nat /\ Len(Tail(q)) = Len(q) - 1 /\ Head(q) = q[1]
         /\ \A i \in 1 .. Len(Tail(q)) : i + 1 \in 1 .. Len(q) /\ Tail(q)[i] = q[i + 1]
         /\ \A i \in 1 .. Len(q) : q[i] = Head(q) \/ \E j \in 1 .. Len(Tail(q)) : Tail(q)[j] = q[i]
<1>1. /\ Head(q) \in Clients /\ Tail(q) \in Seq(Clients)
      /\ Len(q) \in Nat /\ Len(Tail(q)) = Len(q) - 1 /\ Head(q) = q[1]
      /\ \A i \in 1 .. Len(Tail(q)) : i + 1 \in 1 .. Len(q) /\ Tail(q)[i] = q[i + 1]
  OBVIOUS
<1>2. ASSUME NEW i \in 1 .. Len(q), i # 1
      PROVE  i - 1 \in 1 .. Len(Tail(q)) /\ Tail(q)[i - 1] = q[i]
  BY <1>1, <1>2
<1> QED
  BY <1>1, <1>2

(* The end of a session keeps the invariant: the handle and the log are    *)
(* dropped together.                                                       *)
LEMMA LeaveKeeps ==
  ASSUME IInv, current # NULL, Leave
  PROVE  IInv'
<1> USE DEF IInv, Leave, Disconnected
<1>1. current \in Clients /\ NULL \notin Clients
  BY NullAssumption DEF TypesOK
<1>2. /\ socket' = [socket EXCEPT ![current] = <<>>] /\ sent' = [sent EXCEPT ![current] = {}]
      /\ sent \in [Clients -> SUBSET Messages] /\ socket \in [Clients -> Seq(Messages)]
  BY DEF TypesOK
<1>3. TypesOK'
  <2>1. <<>> \in Seq(Messages) /\ <<>> \in Logs
    BY DEF Logs
  <2> QED
    BY <1>2, <2>1 DEF TypesOK, Places
<1>4. QueueOK'
  BY <1>1 DEF QueueOK, TypesOK
<1>5. SocketOK'
  <2> SUFFICES ASSUME NEW c \in Clients
               PROVE  /\ sent'[c] # {} => c = current' \/ \E i \in 1 .. Len(backlog') : backlog'[i] = c
                      /\ \A i \in 1 .. Len(socket'[c]) : socket'[c][i] \in sent'[c]
                      /\ \A i, j \in 1 .. Len(socket'[c]) : socket'[c][i] = socket'[c][j] => i = j
                      /\ sent'[c] \subseteq {"kex", "disconnect"}
    BY DEF SocketOK
  <2>1. CASE c = current
    BY <1>2, <2>1
  <2>2. CASE c # current
    BY <1>2, <2>2 DEF SocketOK
  <2> QED
    BY <2>1, <2>2
<1>6. ServedOK'
  BY DEF ServedOK
<1> QED
  BY <1>3, <1>4, <1>5, <1>6

(* The handle of a new session has been granted nothing.                   *)
LEMMA FreshIs == Fresh \in Handles /\ OwnOf(Fresh, <<>>)
<1>1. Fresh \in Handles
  <2>1. <<>> \in Seq(Packets)
    OBVIOUS
  <2> QED
    BY <2>1 DEF Fresh, Handles
<1>2. OwnOf(Fresh, <<>>)
  BY DEF OwnOf, Fresh, ChannelGranted, Contains
<1> QED
  BY <1>1, <1>2

(* Accepting the next client of the queue keeps the invariant.             *)
LEMMA AcceptKeeps ==
  ASSUME IInv, Accept
  PROVE  IInv'
<1> USE DEF IInv, Accept
<1>1. backlog \in Seq(Clients) /\ backlog # <<>> /\ current = NULL /\ log = <<>>
  BY DEF TypesOK, QueueOK
<1>2. Head(backlog) \in Clients /\ NULL \notin Clients
  BY <1>1, TheOthers, NullAssumption
<1>3. Fresh \in Handles /\ Fresh # NULL
  BY FreshIs, NullAssumption
<1>4. TypesOK'
  BY <1>1, <1>2, <1>3, TheOthers DEF TypesOK, Places
<1>5. QueueOK'
  <2>1. \A i, j \in 1 .. Len(backlog') : backlog'[i] = backlog'[j] => i = j
    <3> SUFFICES ASSUME NEW i \in 1 .. Len(Tail(backlog)), NEW j \in 1 .. Len(Tail(backlog)),
                        Tail(backlog)[i] = Tail(backlog)[j]
                 PROVE  i = j
      OBVIOUS
    <3>1. i + 1 \in 1 .. Len(backlog) /\ j + 1 \in 1 .. Len(backlog) /\ backlog[i + 1] = backlog[j + 1]
      BY <1>1, TheOthers
    <3>2. i + 1 = j + 1
      BY <3>1 DEF QueueOK
    <3> QED
      BY <3>2
  <2>2. \A i \in 1 .. Len(backlog') : backlog'[i] # current'
    <3> SUFFICES ASSUME NEW i \in 1 .. Len(Tail(backlog)) PROVE Tail(backlog)[i] # Head(backlog)
      OBVIOUS
    <3>1. /\ i + 1 \in 1 .. Len(backlog) /\ 1 \in 1 .. Len(backlog) /\ Tail(backlog)[i] = backlog[i + 1]
          /\ Head(backlog) = backlog[1]
      BY <1>1, TheOthers
    <3>2. i + 1 # 1
      OBVIOUS
    <3> QED
      BY <3>1, <3>2 DEF QueueOK
  <2> QED
    BY <1>1, <1>2, <1>3, <2>1, <2>2 DEF QueueOK
<1>6. SocketOK'
  <2> SUFFICES ASSUME NEW c \in Clients
               PROVE  /\ sent[c] # {} =>
                           c = Head(backlog) \/ \E i \in 1 .. Len(Tail(backlog)) : Tail(backlog)[i] = c
                      /\ \A i \in 1 .. Len(socket[c]) : socket[c][i] \in sent[c]
                      /\ \A i, j \in 1 .. Len(socket[c]) : socket[c][i] = socket[c][j] => i = j
                      /\ sent[c] \subseteq {"kex", "disconnect"}
    BY DEF SocketOK
  <2>1. c # current
    BY <1>1, <1>2
  <2>2. sent[c] # {} => \E i \in 1 .. Len(backlog) : backlog[i] = c
    BY <2>1 DEF SocketOK
  <2>3. sent[c] # {} => c = Head(backlog) \/ \E i \in 1 .. Len(Tail(backlog)) : Tail(backlog)[i] = c
    BY <1>1, <2>2, TheOthers
  <2> QED
    BY <2>1, <2>3 DEF SocketOK
<1>7. ServedOK'
  <2>1. Head(backlog) # current
    BY <1>1, <1>2
  <2>2. "close" \notin sent[Head(backlog)]
    BY <1>2, <2>1 DEF SocketOK
  <2> QED
    BY <1>1, <2>2, FreshIs DEF ServedOK, Fresh
<1> QED
  BY <1>4, <1>5, <1>6, <1>7

(* A failed accept keeps the invariant.                                    *)
LEMMA AcceptFailsKeeps ==
  ASSUME IInv, AcceptFails
  PROVE  IInv'
<1> USE DEF IInv, AcceptFails, Disconnected
<1>1. backlog \in Seq(Clients) /\ backlog # <<>> /\ current = NULL /\ log = <<>>
  BY DEF TypesOK, QueueOK
<1>2. Head(backlog) \in Clients /\ NULL \notin Clients
  BY <1>1, TheOthers, NullAssumption
<1>3. /\ socket' = [socket EXCEPT ![Head(backlog)] = <<>>]
      /\ sent' = [sent EXCEPT ![Head(backlog)] = {}]
      /\ sent \in [Clients -> SUBSET Messages] /\ socket \in [Clients -> Seq(Messages)]
  BY DEF TypesOK
<1>4. TypesOK'
  <2>1. <<>> \in Seq(Messages) /\ <<>> \in Logs
    BY DEF Logs
  <2> QED
    BY <1>1, <1>2, <1>3, <2>1, TheOthers DEF TypesOK, Places
<1>5. QueueOK'
  <2>1. \A i, j \in 1 .. Len(backlog') : backlog'[i] = backlog'[j] => i = j
    <3> SUFFICES ASSUME NEW i \in 1 .. Len(Tail(backlog)), NEW j \in 1 .. Len(Tail(backlog)),
                        Tail(backlog)[i] = Tail(backlog)[j]
                 PROVE  i = j
      OBVIOUS
    <3>1. i + 1 \in 1 .. Len(backlog) /\ j + 1 \in 1 .. Len(backlog) /\ backlog[i + 1] = backlog[j + 1]
      BY <1>1, TheOthers
    <3>2. i + 1 = j + 1
      BY <3>1 DEF QueueOK
    <3> QED
      BY <3>2
  <2>2. \A i \in 1 .. Len(backlog') : backlog'[i] # current'
    BY <1>1, TheOthers DEF QueueOK
  <2> QED
    BY <1>1, <1>2, <2>1, <2>2 DEF QueueOK
<1>6. SocketOK'
  <2> SUFFICES ASSUME NEW c \in Clients
               PROVE  /\ sent'[c] # {} => \E i \in 1 .. Len(Tail(backlog)) : Tail(backlog)[i] = c
                      /\ \A i \in 1 .. Len(socket'[c]) : socket'[c][i] \in sent'[c]
                      /\ \A i, j \in 1 .. Len(socket'[c]) : socket'[c][i] = socket'[c][j] => i = j
                      /\ sent'[c] \subseteq {"kex", "disconnect"}
    BY DEF SocketOK
  <2>1. CASE c = Head(backlog)
    BY <1>3, <2>1
  <2>2. CASE c # Head(backlog)
    <3>1. c # current /\ sent'[c] = sent[c] /\ socket'[c] = socket[c]
      BY <1>1, <1>2, <1>3, <2>2
    <3>2. sent[c] # {} => \E i \in 1 .. Len(backlog) : backlog[i] = c
      BY <3>1 DEF SocketOK
    <3>3. sent[c] # {} => \E i \in 1 .. Len(Tail(backlog)) : Tail(backlog)[i] = c
      BY <1>1, <2>2, <3>2, TheOthers
    <3> QED
      BY <3>1, <3>3 DEF SocketOK
  <2> QED
    BY <2>1, <2>2
<1>7. ServedOK'
  BY <1>1 DEF ServedOK
<1> QED
  BY <1>4, <1>5, <1>6, <1>7

(* A client more in the queue.                                             *)
LEMMA ConnectKeeps ==
  ASSUME IInv, NEW c \in Clients, Connect(c)
  PROVE  IInv'
<1> USE DEF IInv, Connect
<1>1. /\ backlog \in Seq(Clients) /\ Len(backlog) \in Nat
      /\ backlog' = Append(backlog, c) /\ backlog' \in Seq(Clients)
      /\ Len(backlog') = Len(backlog) + 1 /\ backlog'[Len(backlog) + 1] = c
      /\ \A i \in 1 .. Len(backlog) : backlog'[i] = backlog[i]
  BY DEF TypesOK
<1>2. \A i \in 1 .. Len(backlog) : backlog[i] # c
  BY DEF Waiting, Contains
<1>3. c # current
  OBVIOUS
<1>4. TypesOK'
  BY <1>1 DEF TypesOK, Places
<1>5. QueueOK'
  <2>1. \A i, j \in 1 .. Len(backlog') : backlog'[i] = backlog'[j] => i = j
    BY <1>1, <1>2 DEF QueueOK
  <2>2. \A i \in 1 .. Len(backlog') : backlog'[i] # current'
    BY <1>1, <1>3 DEF QueueOK
  <2> QED
    BY <2>1, <2>2 DEF QueueOK
<1>6. SocketOK'
  <2>1. \A d \in Clients : (\E i \in 1 .. Len(backlog) : backlog[i] = d)
                             => \E i \in 1 .. Len(backlog') : backlog'[i] = d
    <3>1. 1 .. Len(backlog) \subseteq 1 .. Len(backlog')
      BY <1>1
    <3> QED
      BY <1>1, <3>1
  <2> SUFFICES ASSUME NEW d \in Clients
               PROVE  /\ sent[d] # {} => d = current \/ \E i \in 1 .. Len(backlog') : backlog'[i] = d
                      /\ \A i \in 1 .. Len(socket[d]) : socket[d][i] \in sent[d]
                      /\ \A i, j \in 1 .. Len(socket[d]) : socket[d][i] = socket[d][j] => i = j
                      /\ ~(d = current /\ Contains(log, <<"kex", TRUE>>)) =>
                           sent[d] \subseteq {"kex", "disconnect"}
    BY Zenon DEF SocketOK
  <2> QED
    BY <2>1 DEF SocketOK
<1>7. ServedOK'
  BY DEF ServedOK
<1> QED
  BY <1>4, <1>5, <1>6, <1>7

(* A client that sends keeps the invariant.                                *)
LEMMA SendKeeps ==
  ASSUME IInv, NEW c \in Clients, NEW m \in Messages, Send(c, m)
  PROVE  IInv'
<1> USE DEF IInv, Send
<1>1. /\ socket \in [Clients -> Seq(Messages)] /\ sent \in [Clients -> SUBSET Messages]
      /\ socket' = [socket EXCEPT ![c] = Append(@, m)]
      /\ sent' = [sent EXCEPT ![c] = @ \cup {m}]
      /\ UNCHANGED <<at, current, handle, backlog, log>>
  BY DEF TypesOK
<1>2. /\ socket'[c] = Append(socket[c], m) /\ sent'[c] = sent[c] \cup {m}
      /\ \A d \in Clients \ {c} : socket'[d] = socket[d] /\ sent'[d] = sent[d]
  BY <1>1
<1>3. /\ socket[c] \in Seq(Messages) /\ Len(socket[c]) \in Nat
      /\ Len(socket'[c]) = Len(socket[c]) + 1 /\ socket'[c][Len(socket[c]) + 1] = m
      /\ \A i \in 1 .. Len(socket[c]) : socket'[c][i] = socket[c][i]
  BY <1>1, <1>2
<1>4. /\ m \notin sent[c]
      /\ c = current \/ \E i \in 1 .. Len(backlog) : backlog[i] = c
      /\ m \notin {"kex", "disconnect"} => c = current /\ Contains(log, <<"kex", TRUE>>)
      /\ m = "close" => c = current /\ ChannelGranted(log)
  BY DEF MaySend, Waiting, Contains, Granted, HasChannel, ChannelGranted
<1>5. TypesOK'
  <2>1. Append(socket[c], m) \in Seq(Messages) /\ sent[c] \cup {m} \in SUBSET Messages
    BY <1>1, <1>3
  <2> QED
    BY <1>1, <2>1 DEF TypesOK, Places
<1>6. QueueOK'
  BY <1>1 DEF QueueOK
<1>7. SocketOK'
  <2>0. current' = current /\ backlog' = backlog /\ log' = log
    BY <1>1
  <2> HIDE DEF IInv, Send
  <2> SUFFICES ASSUME NEW d \in Clients
               PROVE  /\ sent'[d] # {} => d = current \/ \E i \in 1 .. Len(backlog) : backlog[i] = d
                      /\ \A i \in 1 .. Len(socket'[d]) : socket'[d][i] \in sent'[d]
                      /\ \A i, j \in 1 .. Len(socket'[d]) : socket'[d][i] = socket'[d][j] => i = j
                      /\ ~(d = current /\ Contains(log, <<"kex", TRUE>>)) =>
                           sent'[d] \subseteq {"kex", "disconnect"}
    BY <2>0 DEF SocketOK
  <2> USE DEF IInv
  <2>1. CASE d # c
    BY <1>2, <2>1 DEF SocketOK
  <2>2. CASE d = c
    <3>1. \A i \in 1 .. Len(socket'[c]) : socket'[c][i] \in sent'[c]
      BY <1>2, <1>3 DEF SocketOK
    <3>2. \A i, j \in 1 .. Len(socket'[c]) : socket'[c][i] = socket'[c][j] => i = j
      <4>1. \A i \in 1 .. Len(socket[c]) : socket[c][i] # m
        BY <1>4 DEF SocketOK
      <4>2. \A i, j \in 1 .. Len(socket[c]) : socket[c][i] = socket[c][j] => i = j
        BY DEF SocketOK
      <4> DEFINE n == Len(socket[c])
                 old == socket[c]
                 new == socket'[c]
      <4>3. n \in Nat /\ 1 .. Len(new) = 1 .. n + 1 /\ new[n + 1] = m
            /\ \A i \in 1 .. n : new[i] = old[i] /\ old[i] # m
        BY <1>3, <4>1
      <4>4. \A i, j \in 1 .. n : old[i] = old[j] => i = j
        BY <4>2
      <4> HIDE DEF n, old, new, IInv
      <4>5. \A i, j \in 1 .. n + 1 : new[i] = new[j] => i = j
        BY <4>3, <4>4
      <4> QED
        BY <4>3, <4>5 DEF new
    <3>3. ~(c = current /\ Contains(log, <<"kex", TRUE>>)) => sent'[c] \subseteq {"kex", "disconnect"}
      BY <1>2, <1>4 DEF SocketOK
    <3> QED
      BY <1>4, <2>2, <3>1, <3>2, <3>3
  <2> QED
    BY <2>1, <2>2
<1>8. ServedOK'
  <2> SUFFICES ASSUME current # NULL
               PROVE  /\ OwnOf(handle, log)
                      /\ "close" \in sent'[current] => ChannelGranted(log)
                      /\ at = "kex" => log = <<>> /\ handle.inbox = <<>>
                      /\ at # "kex" =>
                           /\ "kex" \in sent'[current]
                           /\ \A i \in 1 .. Len(socket'[current]) : socket'[current][i] # "kex"
                      /\ at \in {"poll", "init", "message", "check"} => handle.channel # NULL
    BY <1>1 DEF ServedOK
  <2>1. current \in Clients
    BY DEF TypesOK
  <2>2. CASE c # current
    BY <1>2, <2>1, <2>2 DEF ServedOK
  <2>3. CASE c = current
    <3>1. at # "kex" => m # "kex"
      BY <1>4, <2>3 DEF ServedOK
    <3>2. at # "kex" => \A i \in 1 .. Len(socket'[c]) : socket'[c][i] # "kex"
      BY <1>3, <2>3, <3>1 DEF ServedOK
    <3> QED
      BY <1>2, <1>4, <2>3, <3>2 DEF ServedOK
  <2> QED
    BY <2>2, <2>3
<1> QED
  BY <1>5, <1>6, <1>7, <1>8

(* What a poll reads, and what comes of it.                                *)
LEMMA PolledIs ==
  ASSUME IInv, current # NULL, at # "kex", NEW s \in Polled
  PROVE  /\ s \in States /\ OwnOf(s.handle, log \o s.log)
         /\ handle.channel # NULL => s.handle.channel # NULL
         /\ s.handle.inbox = handle.inbox \o OnlyPackets(socket[current])
         /\ \A i \in 1 .. Len(s.log) : s.log[i][1] \notin Packets
<1> DEFINE t == socket[current]
<1>1. current \in Clients /\ handle \in Handles /\ log \in Logs /\ t \in Seq(Messages)
  BY DEF IInv, TypesOK, QueueOK
<1>2. /\ OwnOf(handle, log) /\ \A i \in 1 .. Len(t) : t[i] # "kex"
      /\ "close" \in sent[current] => ChannelGranted(log)
  BY DEF IInv, ServedOK
<1>3. (\E i \in 1 .. Len(t) : t[i] = "close") => ChannelGranted(log)
  BY <1>1, <1>2 DEF IInv, SocketOK
<1>4. PICK a \in BOOLEAN : s = Outcome(handle, t, a)
  BY DEF Polled, Outcome
<1>5. t \in Seq(Messages \ {"kex"})
  <2> HIDE DEF t
  <2>1. \A i \in 1 .. Len(t) : t[i] \in Messages \ {"kex"}
    BY <1>1, <1>2
  <2> QED
    BY <1>1, <2>1
<1> HIDE DEF t
<1> QED
  BY <1>1, <1>2, <1>3, <1>4, <1>5, OutcomeKeeps DEF t

Serving == {"auth", "poll", "init", "message", "check"}

(* A poll that delivers what the socket holds keeps the invariant.         *)
LEMMA ReadKeeps ==
  ASSUME IInv, current # NULL, at # "kex", NEW s \in Polled, Read(s),
         NEW h \in Handles, handle' = h, OwnOf(h, log \o s.log),
         at' \in Serving, at' # "auth" => h.channel # NULL
  PROVE  IInv'
<1>1. /\ socket' = [socket EXCEPT ![current] = <<>>] /\ log' = log \o s.log
      /\ current' = current /\ backlog' = backlog /\ sent' = sent
  BY DEF Read
<1>2. s \in States /\ s.log \in Logs
  BY PolledIs DEF States
<1>3. current \in Clients /\ log \in Logs /\ socket \in [Clients -> Seq(Messages)] /\ handle # NULL
  BY DEF IInv, TypesOK, QueueOK
<1>4. \A x : Contains(log, x) => Contains(log', x)
  BY <1>1, <1>2, <1>3, GrantedStays
<1>5. TypesOK'
  <2>1. log' \in Logs /\ socket' \in [Clients -> Seq(Messages)]
    BY <1>1, <1>2, <1>3 DEF Logs
  <2> QED
    BY <1>1, <2>1 DEF IInv, TypesOK, Serving, Places
<1>6. QueueOK'
  <2>1. handle' # NULL
    BY NullAssumption
  <2>2. at \notin {"accept", "stopped"} /\ at' \notin {"accept", "stopped"}
    BY DEF IInv, QueueOK, Serving
  <2> QED
    BY <1>1, <2>1, <2>2 DEF IInv, QueueOK
<1>7. SocketOK'
  <2> SUFFICES ASSUME NEW d \in Clients
               PROVE  /\ sent[d] # {} => d = current \/ \E i \in 1 .. Len(backlog) : backlog[i] = d
                      /\ \A i \in 1 .. Len(socket'[d]) : socket'[d][i] \in sent[d]
                      /\ \A i, j \in 1 .. Len(socket'[d]) : socket'[d][i] = socket'[d][j] => i = j
                      /\ ~(d = current /\ Contains(log', <<"kex", TRUE>>)) =>
                           sent[d] \subseteq {"kex", "disconnect"}
    BY <1>1 DEF SocketOK
  <2>1. socket'[d] = <<>> \/ socket'[d] = socket[d]
    BY <1>1, <1>3
  <2>2. /\ sent[d] # {} => d = current \/ \E i \in 1 .. Len(backlog) : backlog[i] = d
        /\ \A i \in 1 .. Len(socket[d]) : socket[d][i] \in sent[d]
        /\ \A i, j \in 1 .. Len(socket[d]) : socket[d][i] = socket[d][j] => i = j
        /\ ~(d = current /\ Contains(log, <<"kex", TRUE>>)) => sent[d] \subseteq {"kex", "disconnect"}
    BY DEF IInv, SocketOK
  <2> QED
    BY <1>4, <2>1, <2>2
<1>8. ServedOK'
  <2>1. socket'[current] = <<>>
    BY <1>1, <1>3
  <2>2. "close" \in sent[current] => ChannelGranted(log \o s.log)
    BY <1>1, <1>4 DEF IInv, ServedOK, ChannelGranted
  <2>3. "kex" \in sent[current]
    BY DEF IInv, ServedOK
  <2>4. at' # "kex" /\ (at' \in {"poll", "init", "message", "check"} => h.channel # NULL)
    BY DEF Serving
  <2> QED
    BY <1>1, <2>1, <2>2, <2>3, <2>4 DEF ServedOK
<1> QED
  BY <1>5, <1>6, <1>7, <1>8 DEF IInv

(* A step on which nothing is read.                                        *)
LEMMA QuietKeeps ==
  ASSUME IInv, current # NULL, at # "kex", UNCHANGED <<current, backlog, socket, sent>>,
         NEW h \in Handles, handle' = h, NEW k \in Logs, log' = log \o k, OwnOf(h, log \o k),
         at' \in Serving, at' # "auth" => h.channel # NULL
  PROVE  IInv'
<1>1. /\ socket' = socket /\ log' = log \o k
      /\ current' = current /\ backlog' = backlog /\ sent' = sent
  OBVIOUS
<1>2. current \in Clients /\ log \in Logs /\ handle # NULL
  BY DEF IInv, TypesOK, QueueOK
<1>3. \A x : Contains(log, x) => Contains(log', x)
  BY <1>1, <1>2, GrantedStays
<1>4. TypesOK'
  <2>1. log' \in Logs
    BY <1>1, <1>2 DEF Logs
  <2> QED
    BY <1>1, <2>1 DEF IInv, TypesOK, Serving, Places
<1>5. QueueOK'
  <2>1. handle' # NULL
    BY NullAssumption
  <2>2. at \notin {"accept", "stopped"} /\ at' \notin {"accept", "stopped"}
    BY DEF IInv, QueueOK, Serving
  <2> QED
    BY <1>1, <2>1, <2>2 DEF IInv, QueueOK
<1>6. SocketOK'
  <2> SUFFICES ASSUME NEW d \in Clients
               PROVE  /\ sent[d] # {} => d = current \/ \E i \in 1 .. Len(backlog) : backlog[i] = d
                      /\ \A i \in 1 .. Len(socket[d]) : socket[d][i] \in sent[d]
                      /\ \A i, j \in 1 .. Len(socket[d]) : socket[d][i] = socket[d][j] => i = j
                      /\ ~(d = current /\ Contains(log', <<"kex", TRUE>>)) =>
                           sent[d] \subseteq {"kex", "disconnect"}
    BY <1>1 DEF SocketOK
  <2> QED
    BY <1>3 DEF IInv, SocketOK
<1>7. ServedOK'
  <2>1. "close" \in sent[current] => ChannelGranted(log \o k)
    BY <1>1, <1>3 DEF IInv, ServedOK, ChannelGranted
  <2>2. "kex" \in sent[current] /\ \A i \in 1 .. Len(socket[current]) : socket[current][i] # "kex"
    BY DEF IInv, ServedOK
  <2>3. at' # "kex" /\ (at' \in {"poll", "init", "message", "check"} => h.channel # NULL)
    BY DEF Serving
  <2> QED
    BY <1>1, <2>1, <2>2, <2>3 DEF ServedOK
<1> QED
  BY <1>4, <1>5, <1>6, <1>7 DEF IInv

(* The key exchange keeps the invariant.                                   *)
LEMMA KeyExchangeKeeps ==
  ASSUME IInv, KeyExchange
  PROVE  IInv'
<1> USE DEF IInv
<1>1. at = "kex" /\ current # NULL /\ current \in Clients /\ socket[current] # <<>>
  BY DEF KeyExchange, TypesOK, QueueOK
<1>2. CASE Leave
  BY <1>1, <1>2, LeaveKeeps
<1>3. ASSUME Head(socket[current]) = "kex", at' = "auth",
             socket' = [socket EXCEPT ![current] = Tail(@)],
             log' = Append(log, <<"kex", TRUE>>),
             UNCHANGED <<current, handle, backlog, sent>>
      PROVE  IInv'
  <2> DEFINE t == socket[current]
  <2>1. log = <<>> /\ log' \in Logs /\ OwnOf(handle, <<>>) /\ handle.inbox = <<>>
    <3>1. log = <<>> /\ OwnOf(handle, <<>>) /\ handle.inbox = <<>>
      BY <1>1 DEF ServedOK
    <3>2. <<"kex", TRUE>> \in Messages \X BOOLEAN
      BY DEF Messages
    <3> QED
      BY <1>3, <3>1, <3>2 DEF Logs
  <2>2. /\ \A x : ~Contains(<<>>, x)
        /\ \A x : Contains(log', x) <=> x = <<"kex", TRUE>>
    <3>1. \A x : ~Contains(<<>>, x)
      BY DEF Contains
    <3>2. <<>> \in Logs /\ "kex" \in Messages
      BY DEF Logs, Messages
    <3>3. \A x : Contains(Append(<<>>, <<"kex", TRUE>>), x) <=> Contains(<<>>, x) \/ x = <<"kex", TRUE>>
      BY <3>2, LogGrows
    <3>4. log' = Append(<<>>, <<"kex", TRUE>>)
      BY <1>3, <2>1
    <3> QED
      BY <3>1, <3>3, <3>4
  <2>3. t \in Seq(Messages) /\ t # <<>> /\ Head(t) = "kex" /\ socket \in [Clients -> Seq(Messages)]
    BY <1>1, <1>3 DEF TypesOK
  <2>4. /\ Tail(t) \in Seq(Messages) /\ Len(Tail(t)) = Len(t) - 1 /\ t[1] = "kex" /\ Len(t) \in Nat
        /\ 1 \in 1 .. Len(t)
        /\ \A i \in 1 .. Len(Tail(t)) : i + 1 \in 1 .. Len(t) /\ i + 1 # 1 /\ Tail(t)[i] = t[i + 1]
    BY <2>3
  <2>5. socket' = [socket EXCEPT ![current] = Tail(t)]
    BY <1>3
  <2>6. /\ \A i \in 1 .. Len(t) : t[i] \in sent[current]
        /\ \A i, j \in 1 .. Len(t) : t[i] = t[j] => i = j
    BY <1>1 DEF SocketOK
  <2> HIDE DEF t
  <2>7. /\ \A i \in 1 .. Len(Tail(t)) : Tail(t)[i] \in sent[current] /\ Tail(t)[i] # "kex"
        /\ "kex" \in sent[current]
    BY <2>4, <2>6
  <2>8. \A i, j \in 1 .. Len(Tail(t)) : Tail(t)[i] = Tail(t)[j] => i = j
    <3> SUFFICES ASSUME NEW i \in 1 .. Len(Tail(t)), NEW j \in 1 .. Len(Tail(t)), Tail(t)[i] = Tail(t)[j]
                 PROVE  i = j
      OBVIOUS
    <3>1. i + 1 = j + 1
      BY <2>4, <2>6
    <3> QED
      BY <3>1
  <2>9. TypesOK'
    BY <1>3, <2>1, <2>3, <2>4, <2>5 DEF TypesOK, Places
  <2>10. QueueOK'
    BY <1>1, <1>3 DEF QueueOK
  <2>11. SocketOK'
    <3>1. current' = current /\ backlog' = backlog /\ sent' = sent
      BY <1>3
    <3> SUFFICES ASSUME NEW d \in Clients
                 PROVE  /\ sent[d] # {} => d = current \/ \E i \in 1 .. Len(backlog) : backlog[i] = d
                        /\ \A i \in 1 .. Len(socket'[d]) : socket'[d][i] \in sent[d]
                        /\ \A i, j \in 1 .. Len(socket'[d]) : socket'[d][i] = socket'[d][j] => i = j
                        /\ ~(d = current /\ Contains(log', <<"kex", TRUE>>)) =>
                             sent[d] \subseteq {"kex", "disconnect"}
      BY <3>1 DEF SocketOK
    <3>2. CASE d # current
      <4>1. socket'[d] = socket[d]
        BY <2>3, <2>5, <3>2
      <4> QED
        BY <3>2, <4>1 DEF SocketOK
    <3>3. CASE d = current
      <4>1. socket'[d] = Tail(t)
        BY <1>1, <2>3, <2>5, <3>3
      <4>2. Contains(log', <<"kex", TRUE>>)
        BY <2>2
      <4> HIDE DEF IInv
      <4> QED
        BY <2>7, <2>8, <3>3, <4>1, <4>2
    <3> QED
      BY <3>2, <3>3
  <2>12. ServedOK'
    <3>1. OwnOf(handle, log')
      BY <2>1, <2>2 DEF OwnOf, ChannelGranted
    <3>2. "close" \notin sent[current]
      BY <1>1, <2>1 DEF SocketOK, Contains
    <3>3. socket'[current] = Tail(t)
      BY <1>1, <2>3, <2>5
    <3>4. current' = current /\ sent' = sent /\ handle' = handle /\ at' = "auth"
      BY <1>3
    <3> HIDE DEF IInv
    <3> QED
      BY <2>7, <3>1, <3>2, <3>3, <3>4 DEF ServedOK
  <2> QED
    BY <2>9, <2>10, <2>11, <2>12
<1> QED
  BY <1>1, <1>2, <1>3 DEF KeyExchange

(* The steps that read.                                                    *)
LEMMA AuthPollKeeps ==
  ASSUME IInv, AuthPoll
  PROVE  IInv'
<1>1. at = "auth" /\ current # NULL
  BY DEF IInv, AuthPoll, QueueOK
<1>2. CASE Leave
  BY <1>1, <1>2, LeaveKeeps
<1>3. ASSUME NEW s \in Polled, Read(s), handle' = s.handle, UNCHANGED at
      PROVE  IInv'
  <2>1. s \in States /\ OwnOf(s.handle, log \o s.log)
    BY <1>1, PolledIs
  <2>2. PICK h \in Handles : h = s.handle
    BY <2>1 DEF States
  <2>3. at' \in Serving /\ (at' # "auth" => h.channel # NULL)
    BY <1>1, <1>3 DEF Serving
  <2>4. handle' = h /\ OwnOf(h, log \o s.log)
    BY <1>3, <2>1, <2>2
  <2> QED
    BY <1>1, <1>3, <2>3, <2>4, ReadKeeps
<1> QED
  BY <1>2, <1>3 DEF AuthPoll

(* A round of the session's event loop keeps the invariant.                *)
LEMMA EventPollKeeps ==
  ASSUME IInv, EventPoll
  PROVE  IInv'
<1>1. at = "poll" /\ current # NULL /\ handle.channel # NULL /\ handle \in Handles /\ OwnOf(handle, log)
  BY DEF IInv, EventPoll, TypesOK, QueueOK, ServedOK
<1>2. ASSUME NEW h \in Handles, NEW k, OwnOf(h, k), h.channel # NULL
      PROVE  /\ [h EXCEPT !.channel = "closed"] \in Handles
             /\ OwnOf([h EXCEPT !.channel = "closed"], k)
             /\ [h EXCEPT !.channel = "closed"].channel # NULL
  <2> DEFINE new == [h EXCEPT !.channel = "closed"]
  <2>1. /\ new \in Handles /\ new.channel = "closed" /\ new.sftp_requested = h.sftp_requested
        /\ new.sftp = h.sftp /\ new.authenticated = h.authenticated
    BY DEF Handles
  <2> HIDE DEF new
  <2>2. new.channel # NULL
    BY <2>1, NullAssumption
  <2>3. OwnOf(new, k)
    BY <1>2, <2>1, <2>2 DEF OwnOf
  <2> QED
    BY <2>1, <2>2, <2>3 DEF new
<1>3. ASSUME NEW h, Polls(h) PROVE handle' = h /\ at' \in Serving
  BY <1>3 DEF Polls, AfterPoll, Serving
<1>4. CASE Polls([handle EXCEPT !.channel = "closed"]) /\ NothingRead
  <2>1. PICK h \in Handles : h = [handle EXCEPT !.channel = "closed"]
    BY <1>1, <1>2
  <2>2. handle' = h /\ at' \in Serving /\ h.channel # NULL /\ OwnOf(h, log)
    BY <1>1, <1>2, <1>3, <1>4, <2>1
  <2>3. <<>> \in Logs /\ log \o <<>> = log
    BY DEF IInv, TypesOK, Logs
  <2>4. log' = log \o <<>> /\ UNCHANGED <<current, backlog, socket, sent>>
    BY <1>4, <2>3 DEF NothingRead
  <2> QED
    BY <1>1, <2>2, <2>3, <2>4, QuietKeeps
<1>5. ASSUME NEW s \in Polled, Read(s),
             Polls(s.handle) \/ Polls([s.handle EXCEPT !.channel = "closed"])
      PROVE  IInv'
  <2>1. s \in States /\ OwnOf(s.handle, log \o s.log) /\ s.handle.channel # NULL
    BY <1>1, PolledIs
  <2>2. PICK g \in Handles : g = s.handle
    BY <2>1 DEF States
  <2>3. PICK h \in Handles : Polls(h) /\ OwnOf(h, log \o s.log) /\ h.channel # NULL
    BY <1>2, <1>5, <2>1, <2>2
  <2>4. handle' = h /\ at' \in Serving
    BY <1>3, <2>3
  <2> QED
    BY <1>1, <1>5, <2>3, <2>4, ReadKeeps
<1> QED
  BY <1>4, <1>5 DEF EventPoll

(* Waiting for more of an SFTP message keeps the invariant.                *)
LEMMA ReadMoreKeeps ==
  ASSUME IInv, ReadMore
  PROVE  IInv'
<1>1. at \in {"init", "message"} /\ current # NULL /\ handle.channel # NULL
  BY DEF IInv, ReadMore, QueueOK, ServedOK
<1>2. CASE Leave
  BY <1>1, <1>2, LeaveKeeps
<1>3. ASSUME NEW s \in Polled, Read(s), handle' = s.handle, UNCHANGED at
      PROVE  IInv'
  <2>1. s \in States /\ OwnOf(s.handle, log \o s.log) /\ s.handle.channel # NULL
    BY <1>1, PolledIs
  <2>2. PICK h \in Handles : h = s.handle
    BY <2>1 DEF States
  <2>3. at' \in Serving /\ (at' # "auth" => h.channel # NULL) /\ at # "kex"
    BY <1>1, <1>3, <2>1, <2>2 DEF Serving
  <2>4. handle' = h /\ OwnOf(h, log \o s.log)
    BY <1>3, <2>1, <2>2
  <2> QED
    BY <1>1, <1>3, <2>3, <2>4, ReadKeeps
<1> QED
  BY <1>2, <1>3 DEF ReadMore

(* The steps that do not.                                                  *)
LEMMA SetChannelCallbacksKeeps ==
  ASSUME IInv, SetChannelCallbacks
  PROVE  IInv'
<1>1. /\ at = "auth" /\ current # NULL /\ handle.channel # NULL /\ handle \in Handles
      /\ OwnOf(handle, log) /\ log \in Logs
  BY DEF IInv, SetChannelCallbacks, LoggedIn, TypesOK, QueueOK, ServedOK
<1> DEFINE h == [handle EXCEPT !.callbacks = TRUE]
<1>2. /\ h \in Handles /\ h.channel = handle.channel /\ h.sftp_requested = handle.sftp_requested
      /\ h.sftp = handle.sftp /\ h.authenticated = handle.authenticated
  BY <1>1 DEF Handles
<1>3. handle' = h /\ at' = "poll" /\ NothingRead
  BY DEF SetChannelCallbacks
<1> HIDE DEF h
<1>4. <<>> \in Logs /\ log \o <<>> = log
  BY <1>1 DEF Logs
<1>5. OwnOf(h, log \o <<>>) /\ h.channel # NULL
  BY <1>1, <1>2, <1>4 DEF OwnOf
<1>6. log' = log \o <<>> /\ UNCHANGED <<current, backlog, socket, sent>> /\ at' \in Serving
  BY <1>3, <1>4 DEF NothingRead, Serving
<1> QED
  BY <1>1, <1>2, <1>3, <1>4, <1>5, <1>6, QuietKeeps

(* The check after an SFTP message keeps the invariant.                    *)
LEMMA CheckKeeps ==
  ASSUME IInv, Check
  PROVE  IInv'
<1>1. /\ at = "check" /\ current # NULL /\ handle.channel # NULL /\ handle \in Handles
      /\ OwnOf(handle, log) /\ log \in Logs
  BY DEF IInv, Check, TypesOK, QueueOK, ServedOK
<1>2. CASE Leave
  BY <1>1, <1>2, LeaveKeeps
<1>3. CASE at' = "poll" /\ UNCHANGED handle /\ NothingRead
  <2>1. PICK h \in Handles : h = handle
    BY <1>1
  <2>2. <<>> \in Logs /\ log \o <<>> = log
    BY <1>1 DEF Logs
  <2>3. /\ handle' = h /\ OwnOf(h, log \o <<>>) /\ h.channel # NULL /\ at' \in Serving
        /\ log' = log \o <<>> /\ UNCHANGED <<current, backlog, socket, sent>>
    BY <1>1, <1>3, <2>1, <2>2 DEF NothingRead, Serving
  <2> QED
    BY <1>1, <2>2, <2>3, QuietKeeps
<1> QED
  BY <1>2, <1>3 DEF Check

(* A packet is taken from the inbox and answered, or not.                  *)
LEMMA TakeKeeps ==
  ASSUME IInv, current # NULL, at # "kex", handle.channel # NULL,
         NEW h \in Handles, h.inbox # <<>>, NEW k \in Logs, OwnOf(h, log \o k), h.channel # NULL,
         Take(k, h)
  PROVE  IInv'
<1> DEFINE new == [h EXCEPT !.inbox = Tail(@)]
<1>1. Tail(h.inbox) \in Seq(Packets)
  BY DEF Handles
<1>2. /\ new \in Handles /\ new.channel = h.channel /\ new.sftp_requested = h.sftp_requested
      /\ new.sftp = h.sftp /\ new.authenticated = h.authenticated
  BY <1>1 DEF Handles
<1>3. /\ handle' = new /\ log' = log \o k /\ at' \in Serving
      /\ UNCHANGED <<current, backlog, socket, sent>>
  BY DEF Take, Serving
<1> HIDE DEF new
<1>4. OwnOf(new, log \o k) /\ new.channel # NULL
  BY <1>2 DEF OwnOf
<1> QED
  BY <1>2, <1>3, <1>4, QuietKeeps

(* A log of one answer.                                                    *)
LEMMA OneAnswer ==
  ASSUME NEW l \in Logs, NEW m \in Messages, NEW g \in BOOLEAN
  PROVE  /\ << <<m, g>> >> \in Logs
         /\ \A x : Contains(l \o << <<m, g>> >>, x) <=> Contains(l, x) \/ x = <<m, g>>
<1>1. << <<m, g>> >> \in Logs /\ l \o << <<m, g>> >> = Append(l, <<m, g>>)
  BY DEF Logs
<1>2. \A x : Contains(Append(l, <<m, g>>), x) <=> Contains(l, x) \/ x = <<m, g>>
  BY LogGrows
<1> QED
  BY <1>1, <1>2, Zenon

(* Answering the client's INIT keeps the invariant.                        *)
LEMMA SftpInitKeeps ==
  ASSUME IInv, SftpInit
  PROVE  IInv'
<1>1. /\ at = "init" /\ current # NULL /\ handle.channel # NULL /\ handle \in Handles
      /\ OwnOf(handle, log) /\ log \in Logs
  BY DEF IInv, SftpInit, TypesOK, QueueOK, ServedOK
<1> DEFINE h == [handle EXCEPT !.sftp = TRUE]
           k == << <<"INIT", TRUE>> >>
<1>2. /\ h \in Handles /\ h.channel = handle.channel /\ h.sftp_requested = handle.sftp_requested
      /\ h.inbox = handle.inbox /\ h.authenticated = handle.authenticated
  BY <1>1 DEF Handles
<1>3. Take(k, h) /\ handle.inbox # <<>>
  BY DEF SftpInit
<1> HIDE DEF h
<1>4. "INIT" \in Messages
  BY DEF Messages, Packets
<1>5. k \in Logs /\ \A x : Contains(log \o k, x) <=> Contains(log, x) \/ x = <<"INIT", TRUE>>
  BY <1>1, <1>4, OneAnswer
<1> HIDE DEF k
<1>6. OwnOf(h, log \o k)
  BY <1>1, <1>2, <1>5 DEF OwnOf, ChannelGranted
<1> QED
  BY <1>1, <1>2, <1>3, <1>5, <1>6, TakeKeeps

(* process_client_message keeps the invariant.                             *)
LEMMA ProcessKeeps ==
  ASSUME IInv, process_client_message
  PROVE  IInv'
<1>1. /\ at = "message" /\ current # NULL /\ handle.channel # NULL
      /\ OwnOf(handle, log) /\ log \in Logs
  BY DEF IInv, process_client_message, TypesOK, QueueOK, ServedOK
<1>2. PICK h \in Handles : h = handle
  BY <1>1 DEF IInv, TypesOK, QueueOK
<1>3. h.inbox # <<>> /\ Take(Answers(Head(h.inbox)), h)
  BY <1>2 DEF process_client_message
<1>4. PICK m \in Packets : m = Head(h.inbox)
  BY <1>3 DEF Handles
<1>5. m \in Messages /\ m \notin {"kex", "password", "channel", "channel again", "subsystem sftp"}
  BY SessionAssumption DEF Messages, Packets
<1>6. PICK k \in Logs : k = Answers(m) /\ OwnOf(h, log \o k)
  <2>1. CASE m \in Unanswered
    <3>1. Answers(m) = <<>> /\ <<>> \in Logs /\ log \o <<>> = log
      BY <1>1, <2>1 DEF Answers, Logs
    <3> QED
      BY <1>1, <1>2, <3>1
  <2>2. CASE m \notin Unanswered
    <3> DEFINE g == m # "unknown"
               k == << <<m, g>> >>
    <3>1. Answers(m) = k
      BY <2>2 DEF Answers
    <3>2. k \in Logs /\ \A x : Contains(log \o k, x) <=> Contains(log, x) \/ x = <<m, g>>
      BY <1>1, <1>5, OneAnswer
    <3> HIDE DEF k
    <3>3. OwnOf(h, log \o k)
      BY <1>1, <1>2, <1>5, <3>2 DEF OwnOf, ChannelGranted
    <3> QED
      BY <3>1, <3>2, <3>3
  <2> QED
    BY <2>1, <2>2
<1>7. Take(k, h)
  BY <1>3, <1>4, <1>6
<1> QED
  BY <1>1, <1>2, <1>3, <1>6, <1>7, TakeKeeps

(* Every step keeps the invariant.                                         *)
LEMMA IInvNext == IInv /\ [Next]_vars => IInv'
<1> SUFFICES ASSUME IInv, [Next]_vars PROVE IInv'
  OBVIOUS
<1>1. CASE OutOfSessions
  <2>1. TypesOK' /\ QueueOK'
    BY <1>1 DEF OutOfSessions, IInv, TypesOK, QueueOK, Places
  <2>2. SocketOK'
    BY <1>1 DEF OutOfSessions, IInv, SocketOK
  <2>3. ServedOK'
    BY <1>1 DEF OutOfSessions, IInv, QueueOK, ServedOK
  <2> QED
    BY <2>1, <2>2, <2>3 DEF IInv
<1>2. CASE Accept
  BY <1>2, AcceptKeeps
<1>3. CASE AcceptFails
  BY <1>3, AcceptFailsKeeps
<1>4. CASE KeyExchange
  BY <1>4, KeyExchangeKeeps
<1>5. CASE AuthPoll
  BY <1>5, AuthPollKeeps
<1>6. CASE SetChannelCallbacks
  BY <1>6, SetChannelCallbacksKeeps
<1>7. CASE EventPoll
  BY <1>7, EventPollKeeps
<1>8. CASE Check
  BY <1>8, CheckKeeps
<1>9. CASE ReadMore
  BY <1>9, ReadMoreKeeps
<1>10. CASE SftpFails
  BY <1>10, LeaveKeeps DEF SftpFails, IInv, QueueOK
<1>16. CASE OutOfServers
  BY <1>16, LeaveKeeps DEF OutOfServers, IInv, QueueOK
<1>11. CASE SftpInit
  BY <1>11, SftpInitKeeps
<1>12. CASE process_client_message
  BY <1>12, ProcessKeeps
<1>13. ASSUME NEW c \in Clients, Connect(c) PROVE IInv'
  BY <1>13, ConnectKeeps
<1>14. ASSUME NEW c \in Clients, NEW m \in Messages, Send(c, m) PROVE IInv'
  BY <1>14, SendKeeps
<1>15. CASE UNCHANGED vars
  <2>1. TypesOK' /\ QueueOK'
    BY <1>15 DEF vars, IInv, TypesOK, QueueOK
  <2>2. SocketOK'
    BY <1>15 DEF vars, IInv, SocketOK
  <2>3. ServedOK'
    BY <1>15 DEF vars, IInv, ServedOK
  <2> QED
    BY <2>1, <2>2, <2>3 DEF IInv
<1> QED
  BY <1>1, <1>2, <1>3, <1>4, <1>5, <1>6, <1>7, <1>8, <1>9, <1>10, <1>11, <1>12, <1>13, <1>14, <1>15, <1>16
     DEF Next, ServerStep, OutOfMemory

-----------------------------------------------------------------------------
(* What the server and its clients hold is what it is meant to be: only a  *)
(* client that is queued or served has messages under way.                 *)
THEOREM Invariance == Spec => []IInv
<1>1. IInv /\ [Next]_vars => IInv'
  BY IInvNext
<1> QED
  BY IInvInit, <1>1, PTL DEF Spec

(* Handle, queue and sockets are well formed: there is a handle exactly    *)
(* while a client is served, and a client that has sent waits in the queue *)
(* exactly if it is not the one served, whatever the clients send and in   *)
(* what order.                                                             *)
THEOREM TypeIsKept == Spec => []TypeOK
<1>1. IInv => TypeOK
  <2> SUFFICES ASSUME IInv PROVE TypeOK
    OBVIOUS
  <2>1. at \in Places /\ (current = NULL <=> at \in {"accept", "stopped"}) /\ (current = NULL <=> handle = NULL)
        /\ (current # NULL => handle \in Handles) /\ backlog \in Seq(Clients)
    BY DEF IInv, TypesOK, QueueOK
  <2>2. ASSUME NEW c \in Clients
        PROVE  /\ socket[c] \in Seq(Messages) /\ sent[c] \subseteq Messages
               /\ sent[c] # {} => (Waiting(c) <=> c # current)
    <3>1. socket[c] \in Seq(Messages) /\ sent[c] \subseteq Messages
      BY DEF IInv, TypesOK
    <3>2. sent[c] # {} => (Waiting(c) <=> c # current)
      BY DEF IInv, SocketOK, QueueOK, Waiting, Contains
    <3> QED
      BY <3>1, <3>2
  <2> QED
    BY <2>1, <2>2 DEF TypeOK, Places
<1> QED
  BY Invariance, <1>1, PTL

(* No flag in a session's handle is another client's, or was set by a      *)
(* refused request, and no client gets a second channel.                   *)
THEOREM HandlesAreOwn == Spec => []HandleIsOwn
<1>1. IInv => HandleIsOwn
  BY DEF IInv, ServedOK, OwnOf, ChannelGranted, HandleIsOwn, Granted, HasChannel
<1> QED
  BY Invariance, <1>1, PTL

-----------------------------------------------------------------------------
(***************************************************************************)
(* The server serves as FirstServed says.                                  *)
(***************************************************************************)
Pending == [c \in Clients |-> PacketsOf(c)]

Subjects(l) == [i \in 1 .. Len(l) |-> l[i][1]]

Said == OnlyPackets(Subjects(log))

(* What the log's answers were about.                                      *)
LEMMA SubjectsOf ==
  ASSUME NEW l \in Logs, NEW k \in Logs
  PROVE  /\ Subjects(l) \in Seq(Messages)
         /\ Subjects(l \o k) = Subjects(l) \o Subjects(k)
<1>1. l \in Seq(Messages \X BOOLEAN) /\ k \in Seq(Messages \X BOOLEAN)
  BY DEF Logs
<1>2. /\ Len(l) \in Nat /\ Len(k) \in Nat /\ Len(l \o k) = Len(l) + Len(k)
      /\ \A i \in 1 .. Len(l) : (l \o k)[i] = l[i] /\ l[i][1] \in Messages
      /\ \A i \in 1 .. Len(k) : (l \o k)[Len(l) + i] = k[i] /\ k[i][1] \in Messages
  BY <1>1
<1>3. /\ Subjects(l) \in Seq(Messages) /\ Len(Subjects(l)) = Len(l)
      /\ Subjects(k) \in Seq(Messages) /\ Len(Subjects(k)) = Len(k)
  BY <1>2 DEF Subjects
<1>4. Subjects(l \o k) = Subjects(l) \o Subjects(k)
  <2> DEFINE a == Subjects(l \o k)
             b == Subjects(l) \o Subjects(k)
  <2>1. DOMAIN a = 1 .. (Len(l) + Len(k)) /\ DOMAIN b = 1 .. (Len(l) + Len(k))
    BY <1>2, <1>3 DEF Subjects
  <2>2. ASSUME NEW i \in 1 .. (Len(l) + Len(k)) PROVE a[i] = b[i]
    <3>1. a[i] = (l \o k)[i][1]
      BY <1>2 DEF Subjects
    <3>2. CASE i \in 1 .. Len(l)
      <4>1. b[i] = Subjects(l)[i] /\ Subjects(l)[i] = l[i][1]
        BY <1>2, <1>3, <3>2 DEF Subjects
      <4> QED
        BY <1>2, <3>1, <3>2, <4>1
    <3>3. CASE i \notin 1 .. Len(l)
      <4>1. PICK j \in 1 .. Len(k) : i = Len(l) + j
        <5>1. i - Len(l) \in 1 .. Len(k) /\ i = Len(l) + (i - Len(l))
          BY <1>2, <3>3
        <5> QED
          BY <5>1
      <4>2. b[i] = Subjects(k)[j] /\ Subjects(k)[j] = k[j][1]
        <5>1. b[i] = Subjects(k)[j]
          BY <1>2, <1>3, <4>1
        <5>2. Subjects(k)[j] = k[j][1]
          BY DEF Subjects
        <5> QED
          BY <5>1, <5>2
      <4> QED
        BY <1>2, <3>1, <4>1, <4>2
    <3> QED
      BY <3>2, <3>3
  <2>3. a = [i \in DOMAIN a |-> a[i]] /\ b = [i \in DOMAIN b |-> b[i]]
    BY <1>3 DEF Subjects
  <2> HIDE DEF a, b
  <2>4. a = b
    BY <2>1, <2>2, <2>3
  <2> QED
    BY <2>4 DEF a, b
<1> QED
  BY <1>3, <1>4

(* An empty log is about no packets.                                       *)
LEMMA NothingSaid == OnlyPackets(Subjects(<<>>)) = <<>>
<1>1. Subjects(<<>>) = <<>>
  BY DEF Subjects
<1> QED
  BY <1>1, NoPackets

(* Answers to no packets change nothing; the answer to a packet does.      *)
LEMMA SaidNoPackets ==
  ASSUME NEW l \in Logs, NEW k \in Logs, \A i \in 1 .. Len(k) : k[i][1] \notin Packets
  PROVE  OnlyPackets(Subjects(l \o k)) = OnlyPackets(Subjects(l))
<1>1. /\ Subjects(l) \in Seq(Messages) /\ Subjects(k) \in Seq(Messages)
      /\ Subjects(l \o k) = Subjects(l) \o Subjects(k)
  BY SubjectsOf
<1>2. \A i \in 1 .. Len(Subjects(k)) : Subjects(k)[i] \notin Packets
  BY DEF Subjects, Logs
<1> QED
  BY <1>1, <1>2, OthersAreNoPackets

(* The answer to a packet is one more.                                     *)
LEMMA SaidPacket ==
  ASSUME NEW l \in Logs, NEW m \in Packets, NEW g \in BOOLEAN
  PROVE  OnlyPackets(Subjects(l \o << <<m, g>> >>)) = Append(OnlyPackets(Subjects(l)), m)
<1> DEFINE k == << <<m, g>> >>
<1>1. m \in Messages
  BY DEF Messages
<1>2. k \in Logs /\ Subjects(k) = <<m>>
  BY <1>1 DEF Logs, Subjects
<1> HIDE DEF k
<1>3. Subjects(l) \in Seq(Messages) /\ Subjects(l \o k) = Subjects(l) \o <<m>>
  BY <1>2, SubjectsOf
<1>4. Subjects(l) \o <<m>> = Append(Subjects(l), m)
  BY <1>1, <1>3
<1>5. OnlyPackets(Append(Subjects(l), m)) = Append(OnlyPackets(Subjects(l)), m)
  BY <1>1, <1>3, OnlyPacketsGrow
<1> QED
  BY <1>3, <1>4, <1>5 DEF k

(* A step that only moves the packets of the client that is served from    *)
(* its socket to its inbox is none of the service.                         *)
LEMMA Moves ==
  ASSUME current \in Clients, UNCHANGED <<current, backlog>>,
         handle'.inbox \o OnlyPackets(socket'[current]) = handle.inbox \o OnlyPackets(socket[current]),
         \A d \in Clients \ {current} : socket'[d] = socket[d],
         OnlyPackets(Subjects(log')) = OnlyPackets(Subjects(log))
  PROVE  UNCHANGED Service!vars
<1>1. Pending' = Pending
  <2>1. ASSUME NEW d \in Clients
        PROVE  (IF d = current THEN handle'.inbox ELSE <<>>) \o OnlyPackets(socket'[d])
                 = (IF d = current THEN handle.inbox ELSE <<>>) \o OnlyPackets(socket[d])
    BY <2>1
  <2> QED
    BY <2>1 DEF Pending, PacketsOf
<1>2. Said' = Said
  BY DEF Said
<1> QED
  BY <1>1, <1>2 DEF Service!vars, Pending, Said, Subjects

(* Reading a socket moves packets to the inbox, which FirstServed does not *)
(* tell apart.                                                             *)
LEMMA ReadMaps ==
  ASSUME IInv, current # NULL, at # "kex", NEW s \in Polled, Read(s),
         handle'.inbox = s.handle.inbox
  PROVE  UNCHANGED Service!vars
<1>1. /\ current \in Clients /\ socket \in [Clients -> Seq(Messages)] /\ log \in Logs
      /\ handle \in Handles
  BY DEF IInv, TypesOK, QueueOK
<1>2. /\ s \in States /\ s.handle.inbox = handle.inbox \o OnlyPackets(socket[current])
      /\ \A i \in 1 .. Len(s.log) : s.log[i][1] \notin Packets
  BY PolledIs
<1>3. /\ socket'[current] = <<>> /\ \A d \in Clients \ {current} : socket'[d] = socket[d]
      /\ log' = log \o s.log /\ UNCHANGED <<current, backlog>>
  BY <1>1 DEF Read
<1>4. handle'.inbox \o <<>> = handle'.inbox
  <2>1. s.handle.inbox \in Seq(Packets)
    BY <1>2 DEF States, Handles
  <2>2. \A q \in Seq(Packets) : q \o <<>> = q
    OBVIOUS
  <2> QED
    BY <2>1, <2>2
<1>5. handle'.inbox \o OnlyPackets(socket'[current]) = handle.inbox \o OnlyPackets(socket[current])
  BY <1>2, <1>3, <1>4, NoPackets
<1>6. OnlyPackets(Subjects(log')) = OnlyPackets(Subjects(log))
  <2>1. PICK k \in Logs : k = s.log
    BY <1>2 DEF States
  <2> QED
    BY <1>1, <1>2, <1>3, <2>1, SaidNoPackets
<1> QED
  BY <1>1, <1>3, <1>5, <1>6, Moves

(* A step that touches neither the inbox nor the sockets is a stutter.     *)
LEMMA QuietMaps ==
  ASSUME IInv, current # NULL, handle'.inbox = handle.inbox,
         UNCHANGED <<current, backlog, socket, log>>
  PROVE  UNCHANGED Service!vars
<1>1. current \in Clients
  BY DEF IInv, TypesOK
<1> QED
  BY <1>1, Moves

(* The end of a session dismisses the client.                              *)
LEMMA LeaveMaps ==
  ASSUME IInv, current # NULL, Leave
  PROVE  Service!Dismiss
<1>1. current \in Clients /\ NULL \notin Clients /\ socket \in [Clients -> Seq(Messages)]
  BY NullAssumption DEF IInv, TypesOK
<1>2. current' = NULL /\ backlog' = backlog /\ log' = <<>> /\ socket' = [socket EXCEPT ![current] = <<>>]
  BY DEF Leave, Disconnected
<1>3. Pending' = [Pending EXCEPT ![current] = <<>>]
  <2>1. ASSUME NEW d \in Clients
        PROVE  (IF d = current' THEN handle'.inbox ELSE <<>>) \o OnlyPackets(socket'[d])
                 = IF d = current THEN <<>> ELSE PacketsOf(d)
    <3>1. d # current'
      BY <1>1, <1>2
    <3>2. CASE d = current
      <4>1. socket'[d] = <<>>
        BY <1>1, <1>2, <3>2
      <4> QED
        BY <3>1, <3>2, <4>1, NoPackets
    <3>3. CASE d # current
      <4>1. socket'[d] = socket[d]
        BY <1>1, <1>2, <3>3
      <4> QED
        BY <3>1, <3>3, <4>1 DEF PacketsOf
    <3> QED
      BY <3>2, <3>3
  <2>2. Pending' = [d \in Clients |-> IF d = current THEN <<>> ELSE PacketsOf(d)]
    BY <2>1 DEF Pending, PacketsOf
  <2> QED
    BY <2>2 DEF Pending
<1>4. Said' = <<>>
  BY <1>2, NothingSaid DEF Said
<1> QED
  BY <1>2, <1>3, <1>4 DEF Service!Dismiss, Pending, Said, Subjects

(* Accepting a client admits it.                                           *)
LEMMA AcceptMaps ==
  ASSUME IInv, Accept
  PROVE  Service!Serve
<1>1. /\ current = NULL /\ backlog # <<>> /\ current' = Head(backlog) /\ backlog' = Tail(backlog)
      /\ handle' = Fresh /\ socket' = socket /\ log' = log /\ NULL \notin Clients
  BY NullAssumption DEF IInv, QueueOK, Accept
<1>2. Fresh.inbox = <<>>
  BY DEF Fresh
<1>3. Pending' = Pending
  <2>1. ASSUME NEW d \in Clients
        PROVE  (IF d = current' THEN handle'.inbox ELSE <<>>) \o OnlyPackets(socket'[d]) = PacketsOf(d)
    BY <1>1, <1>2 DEF PacketsOf
  <2> QED
    BY <2>1 DEF Pending, PacketsOf
<1>4. Said' = Said
  BY <1>1 DEF Said
<1> QED
  BY <1>1, <1>3, <1>4 DEF Service!Serve, Pending, Said, Subjects

(* A failed accept turns the client away.                                  *)
LEMMA AcceptFailsMaps ==
  ASSUME IInv, AcceptFails
  PROVE  Service!TurnAway
<1>1. /\ current = NULL /\ backlog # <<>> /\ backlog' = Tail(backlog) /\ current' = current
      /\ socket' = [socket EXCEPT ![Head(backlog)] = <<>>] /\ log' = <<>> /\ log = <<>>
      /\ NULL \notin Clients /\ socket \in [Clients -> Seq(Messages)] /\ backlog \in Seq(Clients)
  BY NullAssumption DEF IInv, QueueOK, TypesOK, AcceptFails, Disconnected
<1>2. Head(backlog) \in Clients
  BY <1>1
<1>3. Pending' = [Pending EXCEPT ![Head(backlog)] = <<>>]
  <2>1. ASSUME NEW d \in Clients
        PROVE  (IF d = current' THEN handle'.inbox ELSE <<>>) \o OnlyPackets(socket'[d])
                 = IF d = Head(backlog) THEN <<>> ELSE PacketsOf(d)
    <3>1. d # current' /\ d # current
      BY <1>1
    <3>2. CASE d = Head(backlog)
      <4>1. socket'[d] = <<>>
        BY <1>1, <1>2, <3>2
      <4> QED
        BY <3>1, <3>2, <4>1, NoPackets
    <3>3. CASE d # Head(backlog)
      <4>1. socket'[d] = socket[d]
        BY <1>1, <1>2, <3>3
      <4> QED
        BY <3>1, <3>3, <4>1 DEF PacketsOf
    <3> QED
      BY <3>2, <3>3
  <2>2. Pending' = [d \in Clients |-> IF d = Head(backlog) THEN <<>> ELSE PacketsOf(d)]
    BY <2>1 DEF Pending, PacketsOf
  <2> QED
    BY <2>2 DEF Pending
<1>4. Said' = Said
  BY <1>1 DEF Said
<1> QED
  BY <1>1, <1>3, <1>4 DEF Service!TurnAway, Pending, Said, Subjects

(* Before the key exchange there are no packets.                           *)
LEMMA KeyExchangeMaps ==
  ASSUME IInv, KeyExchange
  PROVE  [Service!Next]_Service!vars
<1>1. at = "kex" /\ current # NULL /\ current \in Clients /\ NULL \notin Clients
  BY NullAssumption DEF IInv, KeyExchange, TypesOK, QueueOK
<1>2. CASE Leave
  BY <1>1, <1>2, LeaveMaps DEF Service!Next
<1>3. ASSUME socket[current] # <<>>, socket' = [socket EXCEPT ![current] = Tail(@)],
             log' = Append(log, <<"kex", TRUE>>),
             UNCHANGED <<current, handle, backlog, sent>>
      PROVE  UNCHANGED Service!vars
  <2> DEFINE t == socket[current]
  <2>1. t \in Seq(Messages) /\ log = <<>> /\ socket \in [Clients -> Seq(Messages)]
    BY <1>1 DEF IInv, TypesOK, ServedOK
  <2>2. \A i \in 1 .. Len(t) : t[i] \in {"kex", "disconnect"}
    <3>1. ~Contains(log, <<"kex", TRUE>>)
      BY <2>1 DEF Contains
    <3> QED
      BY <1>1, <3>1 DEF IInv, SocketOK
  <2>3. socket'[current] = Tail(t) /\ \A d \in Clients \ {current} : socket'[d] = socket[d]
    BY <1>1, <1>3, <2>1
  <2>4. "kex" \notin Packets /\ "disconnect" \notin Packets /\ "kex" \in Messages
    BY SessionAssumption DEF Packets, Messages
  <2>5. t # <<>>
    BY <1>3
  <2> HIDE DEF t
  <2>6. /\ Tail(t) \in Seq(Messages)
        /\ \A i \in 1 .. Len(t) : t[i] \notin Packets
        /\ \A i \in 1 .. Len(Tail(t)) : Tail(t)[i] \notin Packets
    <3>1. /\ Tail(t) \in Seq(Messages) /\ Len(Tail(t)) = Len(t) - 1 /\ Len(t) \in Nat
          /\ \A i \in 1 .. Len(Tail(t)) : i + 1 \in 1 .. Len(t) /\ Tail(t)[i] = t[i + 1]
      BY <2>1, <2>5
    <3> QED
      BY <2>2, <2>4, <3>1
  <2>7. ASSUME NEW q \in Seq(Messages), \A i \in 1 .. Len(q) : q[i] \notin Packets
        PROVE  OnlyPackets(q) = <<>>
    <3>1. <<>> \o q = q /\ <<>> \in Seq(Messages)
      OBVIOUS
    <3>2. OnlyPackets(<<>> \o q) = OnlyPackets(<<>>)
      BY <2>7, <3>1, OthersAreNoPackets
    <3> QED
      BY <3>1, <3>2, NoPackets
  <2>8. OnlyPackets(t) = <<>> /\ OnlyPackets(Tail(t)) = <<>>
    BY <2>1, <2>6, <2>7
  <2>9. OnlyPackets(Subjects(log')) = OnlyPackets(Subjects(log))
    <3> DEFINE k == << <<"kex", TRUE>> >>
    <3>1. log' = log \o k /\ k \in Logs /\ log \in Logs
      <4>1. <<>> \in Logs /\ k \in Logs
        <5>1. <<>> \in Logs
          BY DEF Logs
        <5>2. k \in Logs
          BY <2>4, <5>1, OneAnswer
        <5> QED
          BY <5>1, <5>2
      <4>2. Append(<<>>, <<"kex", TRUE>>) = k
        OBVIOUS
      <4> HIDE DEF k
      <4>3. <<>> \o k = k
        BY <4>1 DEF Logs
      <4> QED
        BY <1>3, <2>1, <4>1, <4>2, <4>3
    <3>2. \A i \in 1 .. Len(k) : k[i][1] \notin Packets
      BY <2>4
    <3> HIDE DEF k
    <3> QED
      BY <3>1, <3>2, SaidNoPackets
  <2>10. handle'.inbox \o OnlyPackets(socket'[current]) = handle.inbox \o OnlyPackets(socket[current])
    BY <1>3, <2>3, <2>8 DEF t
  <2> QED
    BY <1>1, <1>3, <2>3, <2>9, <2>10, Moves
<1> QED
  BY <1>2, <1>3 DEF KeyExchange

(* A packet is dealt with.                                                 *)
LEMMA FirstOfBoth ==
  ASSUME NEW x \in Seq(Packets), NEW y \in Seq(Packets), x # <<>>
  PROVE  x \o y # <<>> /\ Head(x \o y) = Head(x) /\ Tail(x \o y) = Tail(x) \o y
<1>1. Len(x) \in Nat /\ Len(x) # 0 /\ Len(x \o y) = Len(x) + Len(y) /\ Len(y) \in Nat
  OBVIOUS
<1>2. x \o y # <<>> /\ Head(x \o y) = Head(x)
  BY <1>1
<1>3. Tail(x \o y) = Tail(x) \o y
  <2> DEFINE a == Tail(x \o y)
             b == Tail(x) \o y
             n == (Len(x) - 1) + Len(y)
  <2>1. /\ a \in Seq(Packets) /\ Len(a) = n /\ b \in Seq(Packets) /\ Len(b) = n
        /\ Len(Tail(x)) = Len(x) - 1
    BY <1>1, <1>2
  <2>2. ASSUME NEW i \in 1 .. n PROVE a[i] = b[i]
    <3>1. a[i] = (x \o y)[i + 1] /\ i + 1 \in 1 .. Len(x \o y)
      BY <1>1, <1>2
    <3>2. CASE i \in 1 .. Len(x) - 1
      <4>1. b[i] = Tail(x)[i] /\ Tail(x)[i] = x[i + 1]
        BY <1>1, <2>1, <3>2
      <4>2. (x \o y)[i + 1] = x[i + 1]
        BY <1>1, <3>2
      <4> QED
        BY <3>1, <4>1, <4>2
    <3>3. CASE i \notin 1 .. Len(x) - 1
      <4>1. b[i] = y[i - (Len(x) - 1)]
        BY <1>1, <2>1, <3>3
      <4>2. (x \o y)[i + 1] = y[(i + 1) - Len(x)]
        BY <1>1, <3>3
      <4> QED
        BY <1>1, <3>1, <4>1, <4>2
    <3> QED
      BY <3>2, <3>3
  <2> HIDE DEF a, b
  <2> QED
    BY <1>1, <2>1, <2>2 DEF a, b
<1> QED
  BY <1>2, <1>3

(* Taking a packet from the inbox deals with one.                          *)
LEMMA TakeMaps ==
  ASSUME IInv, current # NULL, NEW h \in Handles, h.inbox = handle.inbox, h.inbox # <<>>,
         NEW k, Take(k, h),
         IF Head(h.inbox) \in Unanswered THEN k = <<>>
         ELSE \E g \in BOOLEAN : k = << <<Head(h.inbox), g>> >>
  PROVE  Service!DealWithOne
<1> DEFINE m == Head(h.inbox)
           q == OnlyPackets(socket[current])
<1>1. current \in Clients /\ log \in Logs /\ socket \in [Clients -> Seq(Messages)]
  BY DEF IInv, TypesOK
<1>2. h.inbox \in Seq(Packets) /\ m \in Packets /\ q \in Seq(Packets)
  <2>1. socket[current] \in Seq(Messages)
    BY <1>1
  <2>2. "kex" \in Messages
    BY DEF Messages
  <2>3. q \in Seq(Packets)
    BY <2>1, <2>2, OnlyPacketsGrow
  <2> HIDE DEF q
  <2>4. h.inbox \in Seq(Packets)
    BY DEF Handles
  <2>5. m \in Packets
    BY <2>4
  <2> QED
    BY <2>3, <2>4, <2>5
<1>3. /\ current' = current /\ backlog' = backlog /\ socket' = socket /\ log' = log \o k
      /\ handle'.inbox = Tail(h.inbox)
  <2>1. handle' = [h EXCEPT !.inbox = Tail(h.inbox)]
    BY DEF Take
  <2> QED
    BY <2>1 DEF Take, Handles
<1>4. /\ Pending[current] = h.inbox \o q /\ h.inbox \o q # <<>>
      /\ Head(h.inbox \o q) = m /\ Tail(h.inbox \o q) = Tail(h.inbox) \o q
  <2>1. Pending[current] = h.inbox \o q
    BY <1>1 DEF Pending, PacketsOf
  <2> HIDE DEF q
  <2>2. \A x \in Seq(Packets) : x # <<>> =>
          /\ x \o q # <<>> /\ Head(x \o q) = Head(x) /\ Tail(x \o q) = Tail(x) \o q
    BY <1>2, FirstOfBoth
  <2> QED
    BY <1>2, <2>1, <2>2
<1> HIDE DEF q
<1>5. Pending' = [Pending EXCEPT ![current] = Tail(h.inbox \o q)]
  <2>1. ASSUME NEW d \in Clients
        PROVE  (IF d = current' THEN handle'.inbox ELSE <<>>) \o OnlyPackets(socket'[d])
                 = IF d = current THEN Tail(h.inbox \o q) ELSE PacketsOf(d)
    BY <1>3, <1>4 DEF PacketsOf, q
  <2>2. Pending' = [d \in Clients |-> IF d = current THEN Tail(h.inbox \o q) ELSE PacketsOf(d)]
    BY <2>1 DEF Pending, PacketsOf
  <2> QED
    BY <2>2 DEF Pending
<1>6. Said' = IF m \in Packets \ Unanswered THEN Append(Said, m) ELSE Said
  <2>1. CASE m \in Unanswered
    <3>1. k = <<>> /\ log \o <<>> = log
      BY <1>1, <2>1 DEF Logs
    <3> QED
      BY <1>3, <2>1, <3>1 DEF Said
  <2>2. CASE m \notin Unanswered
    <3>1. PICK g \in BOOLEAN : k = << <<m, g>> >>
      BY <2>2
    <3>2. OnlyPackets(Subjects(log \o << <<m, g>> >>)) = Append(OnlyPackets(Subjects(log)), m)
      BY <1>1, <1>2, SaidPacket
    <3> QED
      BY <1>2, <1>3, <2>2, <3>1, <3>2 DEF Said
  <2> QED
    BY <2>1, <2>2
<1>7. /\ Pending[current] # <<>> /\ Head(Pending[current]) = m
      /\ Pending' = [Pending EXCEPT ![current] = Tail(Pending[current])]
  BY <1>4, <1>5
<1> HIDE DEF m
<1> QED
  BY <1>3, <1>6, <1>7 DEF Service!DealWithOne, Pending, Said, Subjects

(* A message sent is one the client has asked, or a stutter.               *)
LEMMA SendMaps ==
  ASSUME IInv, NEW c \in Clients, NEW m \in Messages, Send(c, m)
  PROVE  [Service!Next]_Service!vars
<1>1. /\ socket \in [Clients -> Seq(Messages)] /\ socket' = [socket EXCEPT ![c] = Append(@, m)]
      /\ current' = current /\ handle' = handle /\ backlog' = backlog /\ log' = log
      /\ c = current \/ \E i \in 1 .. Len(backlog) : backlog[i] = c
  BY DEF IInv, TypesOK, Send, MaySend, Waiting, Contains
<1>2. /\ socket[c] \in Seq(Messages) /\ socket'[c] = Append(socket[c], m)
      /\ \A d \in Clients \ {c} : socket'[d] = socket[d]
  BY <1>1
<1>3. /\ OnlyPackets(socket[c]) \in Seq(Packets)
      /\ OnlyPackets(socket'[c]) = IF m \in Packets THEN Append(OnlyPackets(socket[c]), m)
                                   ELSE OnlyPackets(socket[c])
  BY <1>2, OnlyPacketsGrow
<1>4. Said' = Said
  BY <1>1 DEF Said
<1> DEFINE inbox == IF c = current THEN handle.inbox ELSE <<>>
<1>5. PICK i \in Seq(Packets), q \in Seq(Packets) : i = inbox /\ q = OnlyPackets(socket[c])
  <2>1. c = current => handle \in Handles
    BY NullAssumption DEF IInv, TypesOK, QueueOK
  <2>2. inbox \in Seq(Packets)
    BY <2>1 DEF Handles
  <2> QED
    BY <1>3, <2>2
<1>6. PacketsOf(c) = i \o q
  BY <1>5 DEF PacketsOf
<1>7. CASE m \in Packets
  <2>1. i \o Append(q, m) = Append(i \o q, m)
    BY <1>5, <1>7, OneMore
  <2>2. Pending' = [Pending EXCEPT ![c] = Append(@, m)]
    <3>1. ASSUME NEW d \in Clients
          PROVE  (IF d = current' THEN handle'.inbox ELSE <<>>) \o OnlyPackets(socket'[d])
                   = IF d = c THEN Append(i \o q, m) ELSE PacketsOf(d)
      <4>1. CASE d = c
        <5>1. OnlyPackets(socket'[d]) = Append(q, m)
          BY <1>3, <1>5, <1>7, <4>1
        <5>2. (IF d = current' THEN handle'.inbox ELSE <<>>) = i
          BY <1>1, <1>5, <4>1
        <5> QED
          BY <2>1, <4>1, <5>1, <5>2
      <4>2. CASE d # c
        BY <1>1, <1>2, <4>2 DEF PacketsOf
      <4> QED
        BY <4>1, <4>2
    <3>2. Pending' = [d \in Clients |-> IF d = c THEN Append(i \o q, m) ELSE PacketsOf(d)]
      BY <3>1 DEF Pending, PacketsOf
    <3>3. Pending[c] = i \o q
      BY <1>6 DEF Pending
    <3>4. Pending' = [Pending EXCEPT ![c] = Append(i \o q, m)]
      BY <3>2 DEF Pending
    <3> QED
      BY <3>3, <3>4
  <2>3. Service!Ask(c, m)
    BY <1>1, <1>4, <2>2 DEF Service!Ask, Service!Here, Pending, Said, Subjects
  <2> QED
    BY <1>7, <2>3 DEF Service!Next
<1>8. CASE m \notin Packets
  <2>1. Pending' = Pending
    <3>1. ASSUME NEW d \in Clients
          PROVE  (IF d = current' THEN handle'.inbox ELSE <<>>) \o OnlyPackets(socket'[d]) = PacketsOf(d)
      BY <1>1, <1>2, <1>3, <1>8 DEF PacketsOf
    <3> QED
      BY <3>1 DEF Pending, PacketsOf
  <2> QED
    BY <1>1, <1>4, <2>1 DEF Service!vars, Pending, Said, Subjects
<1> QED
  BY <1>7, <1>8

(* A client that connects joins the queue.                                 *)
LEMMA ConnectMaps ==
  ASSUME NEW c \in Clients, Connect(c)
  PROVE  Service!Connect(c)
<1>1. Pending' = Pending /\ Said' = Said
  BY DEF Connect, Pending, PacketsOf, Said
<1> QED
  BY <1>1 DEF Service!Connect, Service!Here, Connect, Waiting, Contains, Pending, Said, Subjects

(* The first states are FirstServed's.                                     *)
LEMMA InitMaps == Init => Service!Init
<1> SUFFICES ASSUME Init PROVE Service!Init
  OBVIOUS
<1>1. backlog = <<>> /\ current = NULL
  BY DEF Init
<1>2. Pending = [c \in Clients |-> <<>>]
  <2>1. ASSUME NEW c \in Clients PROVE PacketsOf(c) = <<>>
    <3>1. c # current /\ socket[c] = <<>>
      BY NullAssumption DEF Init
    <3> QED
      BY <3>1, NoPackets DEF PacketsOf
  <2> QED
    BY <2>1 DEF Pending
<1>3. Said = <<>>
  BY NothingSaid DEF Said, Init
<1> QED
  BY <1>1, <1>2, <1>3 DEF Service!Init, Pending, Said, Subjects

(* Every step is one of FirstServed, or a stutter.                         *)
LEMMA StepMaps == IInv /\ [Next]_vars => [Service!Next]_Service!vars
<1> SUFFICES ASSUME IInv, [Next]_vars PROVE [Service!Next]_Service!vars
  OBVIOUS
<1> USE DEF Service!Next
<1>1. CASE UNCHANGED vars
  <2>1. Pending' = Pending /\ Said' = Said /\ current' = current /\ backlog' = backlog
    BY <1>1 DEF vars, Pending, PacketsOf, Said
  <2> QED
    BY <2>1 DEF Service!vars, Pending, Said, Subjects
<1>2. CASE OutOfSessions
  <2>1. Pending' = Pending /\ Said' = Said /\ current' = current /\ backlog' = backlog
    BY <1>2 DEF OutOfSessions, Pending, PacketsOf, Said
  <2> QED
    BY <2>1 DEF Service!vars, Pending, Said, Subjects
<1>3. CASE Accept
  BY <1>3, AcceptMaps
<1>4. CASE AcceptFails
  BY <1>4, AcceptFailsMaps
<1>5. CASE KeyExchange
  BY <1>5, KeyExchangeMaps
<1>6. CASE AuthPoll
  <2>1. at = "auth" /\ current # NULL
    BY <1>6 DEF IInv, AuthPoll, QueueOK
  <2>2. CASE Leave
    BY <2>1, <2>2, LeaveMaps
  <2>3. ASSUME NEW s \in Polled, Read(s), handle' = s.handle
        PROVE  UNCHANGED Service!vars
    BY <2>1, <2>3, ReadMaps
  <2> QED
    BY <1>6, <2>2, <2>3 DEF AuthPoll
<1>7. CASE SetChannelCallbacks
  <2>1. current # NULL /\ handle \in Handles
    BY <1>7 DEF IInv, SetChannelCallbacks, TypesOK, QueueOK
  <2>2. handle'.inbox = handle.inbox /\ UNCHANGED <<current, backlog, socket, log>>
    BY <1>7, <2>1 DEF SetChannelCallbacks, NothingRead, Handles
  <2> QED
    BY <2>1, <2>2, QuietMaps
<1>8. CASE EventPoll
  <2>1. at = "poll" /\ current # NULL /\ handle \in Handles
    BY <1>8 DEF IInv, EventPoll, TypesOK, QueueOK
  <2>2. \A h \in Handles : [h EXCEPT !.channel = "closed"].inbox = h.inbox
    BY DEF Handles
  <2>3. CASE Polls([handle EXCEPT !.channel = "closed"]) /\ NothingRead
    <3>1. handle'.inbox = handle.inbox /\ UNCHANGED <<current, backlog, socket, log>>
      BY <2>1, <2>2, <2>3 DEF Polls, NothingRead
    <3> QED
      BY <2>1, <3>1, QuietMaps
  <2>4. ASSUME NEW s \in Polled, Read(s),
               Polls(s.handle) \/ Polls([s.handle EXCEPT !.channel = "closed"])
        PROVE  UNCHANGED Service!vars
    <3>1. s.handle \in Handles
      BY <2>1, PolledIs DEF States
    <3>2. handle'.inbox = s.handle.inbox
      BY <2>2, <2>4, <3>1 DEF Polls
    <3> QED
      BY <2>1, <2>4, <3>2, ReadMaps
  <2> QED
    BY <1>8, <2>3, <2>4 DEF EventPoll
<1>9. CASE Check
  <2>1. current # NULL
    BY <1>9 DEF IInv, Check, QueueOK
  <2>2. CASE Leave
    BY <2>1, <2>2, LeaveMaps
  <2>3. CASE UNCHANGED handle /\ NothingRead
    BY <2>1, <2>3, QuietMaps DEF NothingRead
  <2> QED
    BY <1>9, <2>2, <2>3 DEF Check
<1>10. CASE ReadMore
  <2>1. at # "kex" /\ current # NULL
    BY <1>10 DEF IInv, ReadMore, QueueOK
  <2>2. CASE Leave
    BY <2>1, <2>2, LeaveMaps
  <2>3. ASSUME NEW s \in Polled, Read(s), handle' = s.handle
        PROVE  UNCHANGED Service!vars
    BY <2>1, <2>3, ReadMaps
  <2> QED
    BY <1>10, <2>2, <2>3 DEF ReadMore
<1>11. CASE SftpFails
  BY <1>11, LeaveMaps DEF SftpFails, IInv, QueueOK
<1>16. CASE OutOfServers
  BY <1>16, LeaveMaps DEF OutOfServers, IInv, QueueOK
<1>12. CASE SftpInit
  <2>1. current # NULL /\ handle \in Handles
    BY <1>12 DEF IInv, SftpInit, TypesOK, QueueOK
  <2> DEFINE h == [handle EXCEPT !.sftp = TRUE]
  <2>2. h \in Handles /\ h.inbox = handle.inbox
    BY <2>1 DEF Handles
  <2>3. /\ Take(<< <<"INIT", TRUE>> >>, h) /\ handle.inbox # <<>>
        /\ Head(handle.inbox) = "INIT" /\ "INIT" \notin Unanswered
        /\ \E g \in BOOLEAN : << <<"INIT", TRUE>> >> = << <<"INIT", g>> >>
    BY <1>12 DEF SftpInit, Unanswered
  <2> HIDE DEF h
  <2>4. Service!DealWithOne
    BY <2>1, <2>2, <2>3, TakeMaps
  <2> QED
    BY <2>4
<1>13. CASE process_client_message
  <2>1. PICK h \in Handles : h = handle /\ current # NULL
    BY <1>13 DEF IInv, process_client_message, TypesOK, QueueOK
  <2>2. Take(Answers(Head(h.inbox)), h) /\ h.inbox # <<>>
    BY <1>13, <2>1 DEF process_client_message
  <2>3. IF Head(h.inbox) \in Unanswered THEN Answers(Head(h.inbox)) = <<>>
        ELSE \E g \in BOOLEAN : Answers(Head(h.inbox)) = << <<Head(h.inbox), g>> >>
    BY DEF Answers
  <2>4. Service!DealWithOne
    BY <2>1, <2>2, <2>3, TakeMaps
  <2> QED
    BY <2>4
<1>14. ASSUME NEW c \in Clients, Connect(c) PROVE [Service!Next]_Service!vars
  BY <1>14, ConnectMaps
<1>15. ASSUME NEW c \in Clients, NEW m \in Messages, Send(c, m) PROVE [Service!Next]_Service!vars
  BY <1>15, SendMaps
<1> HIDE DEF Service!Next
<1> QED
  BY <1>1, <1>2, <1>3, <1>4, <1>5, <1>6, <1>7, <1>8, <1>9, <1>10, <1>11, <1>12, <1>13, <1>14, <1>15, <1>16
     DEF Next, ServerStep, OutOfMemory

(* The server implements FirstServed: each client in its turn, the         *)
(* packets of the one it serves in their order, each answered once.        *)
THEOREM ServesAsPromised == Spec => ImplementsService
<1>1. IInv /\ [Next]_vars => [Service!Next]_Service!vars
  BY StepMaps
<1> QED
  BY InitMaps, <1>1, Invariance, PTL DEF Spec, ImplementsService, Service!Spec
=============================================================================
