-------------------------------- MODULE Session --------------------------------
(***************************************************************************)
(* The server of main.c: it accepts one client after the other and leads   *)
(* each through key exchange, authentication and the event loop, with the  *)
(* callbacks libssh makes from inside a poll.                              *)
(*                                                                         *)
(* A poll deals with all that has come in on the socket: session messages  *)
(* go to the callbacks at once, SFTP packets to the channel's inbox, from  *)
(* which sftp_server_init and sftp_get_client_message take them.           *)
(***************************************************************************)
EXTENDS Integers, Sequences, SequencesExt

CONSTANTS
  Clients,
  Patient,      \* the clients that wait for the answer before they go on
  Requests,     \* types of SFTP requests clients make
  MaxRequests,  \* bound: SFTP requests of one client
  NULL

ASSUME SessionAssumption ==
  /\ Patient \subseteq Clients /\ MaxRequests \in Nat
  /\ Requests \subseteq {"REALPATH", "OPENDIR", "READDIR", "CLOSE", "LSTAT", "unknown"}

Packets == Requests \cup {"INIT"}

(* struct ssh_handle_t, with what libssh keeps of the session.             *)
Handles ==
  [authenticated : BOOLEAN, sftp_requested : BOOLEAN, channel : {NULL, "open", "closed"},
   callbacks : BOOLEAN, sftp : BOOLEAN, alive : BOOLEAN, inbox : Seq(Packets)]

ASSUME NullAssumption ==
  NULL \notin Clients /\ NULL \notin {"open", "closed"} /\ NULL \notin Handles

VARIABLES
  at,       \* where the server's thread is
  current,  \* the client being served, or NULL
  handle,   \* its struct ssh_handle_t and libssh's session below it, or NULL
  backlog,  \* the clients that wait to be accepted
  socket,   \* what each client has sent and the server has not read
  sent,     \* history: the messages each client has sent on its connection
  log       \* history: what current was answered, <<message, granted>>

vars == <<at, current, handle, backlog, socket, sent, log>>

Messages == {"kex", "password", "channel", "channel again", "subsystem sftp", "subsystem other",
             "close", "disconnect"} \cup Packets

Unanswered == {"OPENDIR", "READDIR"}

Init ==
  /\ at = "accept" /\ current = NULL /\ handle = NULL /\ backlog = <<>>
  /\ socket = [c \in Clients |-> <<>>] /\ sent = [c \in Clients |-> {}] /\ log = <<>>

-----------------------------------------------------------------------------
(***************************************************************************)
(* The callbacks, on s: the handle and the answers given in this poll.     *)
(***************************************************************************)
Answer(s, m, granted) == [s EXCEPT !.log = Append(@, <<m, granted>>)]

auth_password(s) == Answer([s EXCEPT !.handle.authenticated = TRUE], "password", TRUE)

(* ssh_channel_new may return no channel.                                  *)
channel_open(s, m, allocated) ==
  IF s.handle.channel = NULL /\ allocated
  THEN Answer([s EXCEPT !.handle.channel = "open"], m, TRUE) ELSE Answer(s, m, FALSE)

subsystem_request_Mut(s, m) ==
  IF ~s.handle.callbacks THEN s
  ELSE Answer([s EXCEPT !.handle.sftp_requested = TRUE], m, m = "subsystem sftp")

(* Before handle_session has set the channel's callbacks libssh keeps the  *)
(* request for a ssh_message_get that nobody calls.                        *)
subsystem_request(s, m) ==
  IF ~s.handle.callbacks THEN s
  ELSE IF m = "subsystem sftp"
       THEN Answer([s EXCEPT !.handle.sftp_requested = TRUE], m, TRUE)
       ELSE Answer(s, m, FALSE)

Receive(s, m, allocated) ==
  CASE m = "password"   -> auth_password(s)
    [] m \in {"channel", "channel again"} -> channel_open(s, m, allocated)
    [] m \in {"subsystem sftp", "subsystem other"} -> subsystem_request(s, m)
    [] m = "close"      -> [s EXCEPT !.handle.channel = "closed"]
    [] m = "disconnect" -> [s EXCEPT !.handle.alive = FALSE]
    [] OTHER            -> [s EXCEPT !.handle.inbox = Append(@, m)]

(* The outcomes of reading all there is.                                   *)
Polled ==
  {FoldLeft(LAMBDA s, m : Receive(s, m, allocated),
            [handle |-> handle, log |-> <<>>], socket[current]) : allocated \in BOOLEAN}

Read(s) ==
  /\ socket' = [socket EXCEPT ![current] = <<>>]
  /\ log' = log \o s.log
  /\ UNCHANGED <<current, backlog, sent>>

NothingRead == UNCHANGED <<current, backlog, socket, sent, log>>

IsOpen(h) == h.channel = "open" /\ h.alive

-----------------------------------------------------------------------------
(***************************************************************************)
(* start_server and the ends of a session.                                 *)
(***************************************************************************)
Fresh ==
  [authenticated |-> FALSE, sftp_requested |-> FALSE, channel |-> NULL, callbacks |-> FALSE,
   sftp |-> FALSE, alive |-> TRUE, inbox |-> <<>>]

(* ssh_new or ssh_event_new fails.                                         *)
OutOfSessions ==
  /\ at = "accept"
  /\ at' = "stopped"
  /\ UNCHANGED <<current, handle, backlog, socket, sent, log>>

Accept ==
  /\ at = "accept" /\ backlog # <<>>
  /\ at' = "kex" /\ current' = Head(backlog) /\ backlog' = Tail(backlog)
  /\ handle' = Fresh
  /\ UNCHANGED <<socket, sent, log>>

(* The connection of c is gone, with all that was sent on it.              *)
Disconnected(c) ==
  /\ socket' = [socket EXCEPT ![c] = <<>>]
  /\ sent' = [sent EXCEPT ![c] = {}]
  /\ log' = <<>>

AcceptFails ==
  /\ at = "accept" /\ backlog # <<>>
  /\ backlog' = Tail(backlog)
  /\ Disconnected(Head(backlog))
  /\ UNCHANGED <<at, current, handle>>

Leave_Mut ==
  /\ at' = "accept" /\ current' = NULL
  /\ Disconnected(current)
  /\ UNCHANGED <<handle, backlog>>

(* handle_session returns; ssh_disconnect and ssh_free.                    *)
Leave ==
  /\ at' = "accept" /\ current' = NULL /\ handle' = NULL
  /\ Disconnected(current)
  /\ UNCHANGED backlog

-----------------------------------------------------------------------------
(***************************************************************************)
(* handle_session.                                                         *)
(***************************************************************************)
KeyExchange ==
  /\ at = "kex" /\ socket[current] # <<>>
  /\ \/ Leave
     \/ /\ Head(socket[current]) = "kex"
        /\ at' = "auth"
        /\ socket' = [socket EXCEPT ![current] = Tail(@)]
        /\ log' = Append(log, <<"kex", TRUE>>)
        /\ UNCHANGED <<current, handle, backlog, sent>>

LoggedIn == handle.authenticated /\ handle.channel # NULL

(* The poll of a session that is dead returns an error, and the poll that  *)
(* sees it die may.  A poll that times out changes nothing.                *)
AuthPoll ==
  /\ at = "auth" /\ ~LoggedIn
  /\ \/ ~handle.alive /\ Leave
     \/ /\ handle.alive /\ socket[current] # <<>>
        /\ \E s \in Polled :
             \/ Read(s) /\ handle' = s.handle /\ UNCHANGED at
             \/ ~s.handle.alive /\ Leave

SetChannelCallbacks_Mut ==
  /\ at = "auth" /\ LoggedIn
  /\ at' = "poll"
  /\ UNCHANGED handle
  /\ NothingRead

SetChannelCallbacks ==
  /\ at = "auth" /\ LoggedIn
  /\ at' = "poll"
  /\ handle' = [handle EXCEPT !.callbacks = TRUE]
  /\ NothingRead

(***************************************************************************)
(* handle_session_event_loop.  Its poll has no timeout.                    *)
(***************************************************************************)
AfterPoll(h) ==
  CASE h.sftp_requested /\ ~h.sftp -> "init"
    [] h.sftp                      -> "message"
    [] OTHER                       -> "check"

Polls(h) == handle' = h /\ at' = AfterPoll(h)

EventPoll_Mut ==
  /\ at = "poll"
  /\ handle.alive /\ socket[current] # <<>>
  /\ \E s \in Polled : Read(s) /\ Polls(s.handle)

EventPoll ==
  /\ at = "poll"
  /\ \/ ~handle.alive /\ Polls([handle EXCEPT !.channel = "closed"]) /\ NothingRead
     \/ /\ handle.alive /\ socket[current] # <<>>
        /\ \E s \in Polled :
             /\ Read(s)
             /\ \/ Polls(s.handle)
                \/ ~s.handle.alive /\ Polls([s.handle EXCEPT !.channel = "closed"])

Check ==
  /\ at = "check"
  /\ IF IsOpen(handle) THEN at' = "poll" /\ UNCHANGED handle /\ NothingRead ELSE Leave

ReadMore_Mut ==
  /\ at \in {"init", "message"} /\ handle.inbox = <<>>
  /\ IsOpen(handle) /\ socket[current] # <<>>
  /\ \E s \in Polled : Read(s) /\ handle' = s.handle /\ UNCHANGED at

(* A blocking read of the next packet goes on polling, until the channel   *)
(* is at its end.                                                          *)
ReadMore ==
  /\ at \in {"init", "message"} /\ handle.inbox = <<>>
  /\ \/ ~IsOpen(handle) /\ Leave
     \/ /\ IsOpen(handle) /\ socket[current] # <<>>
        /\ \E s \in Polled : Read(s) /\ handle' = s.handle /\ UNCHANGED at

Take(granted, taken) ==
  /\ handle' = [taken EXCEPT !.inbox = Tail(@)]
  /\ log' = log \o granted
  /\ at' = "check"
  /\ UNCHANGED <<current, backlog, socket, sent>>

(* sftp_server_new gets no memory.                                         *)
OutOfServers == at = "init" /\ Leave

(* sftp_server_init takes no packet but INIT, and it as well as            *)
(* sftp_get_client_message gives up on a packet that is malformed, of a    *)
(* type it does not know, or too large for the memory there is.            *)
SftpFails == at \in {"init", "message"} /\ handle.inbox # <<>> /\ Leave

SftpInit ==
  /\ at = "init" /\ handle.inbox # <<>>
  /\ Head(handle.inbox) = "INIT" /\ IsOpen(handle)
  /\ Take(<< <<"INIT", TRUE>> >>, [handle EXCEPT !.sftp = TRUE])

Answers_Mut(m) == IF m \in Unanswered \cup {"LSTAT"} THEN <<>> ELSE << <<m, TRUE>> >>

(* The answers to directory requests are compiled out.                     *)
Answers(m) == IF m \in Unanswered THEN <<>> ELSE << <<m, m # "unknown">> >>

process_client_message ==
  /\ at = "message" /\ handle.inbox # <<>>
  /\ Take(Answers(Head(handle.inbox)), handle)

OutOfMemory == OutOfSessions \/ OutOfServers

ServerStep ==
  \/ Accept \/ AcceptFails
  \/ KeyExchange \/ AuthPoll \/ SetChannelCallbacks
  \/ EventPoll \/ Check \/ ReadMore \/ SftpFails \/ SftpInit \/ process_client_message

-----------------------------------------------------------------------------
(***************************************************************************)
(* The clients.  They keep to the order of the protocol; all but the       *)
(* patient ones may send ahead, except that nothing but the key exchange   *)
(* can be sent before the keys are there, and packets need the channel.    *)
(***************************************************************************)
Waiting(c) == Contains(backlog, c)

Granted(c, m) == c = current /\ Contains(log, <<m, TRUE>>)

HasChannel(c) == Granted(c, "channel") \/ Granted(c, "channel again")

Left(c) == "disconnect" \in sent[c]

(* What c has sent that can be answered and was not.                       *)
Outstanding(c) ==
  {m \in sent[c] \ {"close", "disconnect"} :
     ~(c = current /\ \E i \in 1 .. Len(log) : log[i][1] = m)}

Follows(m) ==
  CASE m = "kex"      -> {}
    [] m = "password" -> {"kex"}
    [] m = "channel"  -> {"password"}
    [] m = "INIT"     -> {"subsystem sftp"}
    [] m \in Requests -> {"INIT"}
    [] OTHER          -> {"channel"}

MaySend(c, m) ==
  /\ Waiting(c) \/ c = current
  /\ ~Left(c) /\ m \notin sent[c]
  /\ m # "disconnect" =>
       /\ "close" \notin sent[c] /\ Follows(m) \subseteq sent[c]
       /\ m # "kex" => Granted(c, "kex")
       /\ m \in Packets \cup {"close"} => HasChannel(c)
       /\ m \in Requests => Cardinality(sent[c] \cap Requests) < MaxRequests
       /\ c \in Patient =>
            /\ Outstanding(c) = {}
            /\ m \in {"subsystem sftp", "subsystem other"} => HasChannel(c)
            /\ m = "INIT" => Granted(c, "subsystem sftp")

Connect(c) ==
  /\ ~Waiting(c) /\ c # current
  /\ backlog' = Append(backlog, c)
  /\ UNCHANGED <<at, current, handle, socket, sent, log>>

Send(c, m) ==
  /\ MaySend(c, m)
  /\ socket' = [socket EXCEPT ![c] = Append(@, m)]
  /\ sent' = [sent EXCEPT ![c] = @ \cup {m}]
  /\ UNCHANGED <<at, current, handle, backlog, log>>

Next ==
  \/ ServerStep \/ OutOfMemory
  \/ \E c \in Clients : Connect(c) \/ \E m \in Messages : Send(c, m)

(* The server is one thread that runs on wherever it can; nothing makes it *)
(* run out of memory, and nothing is asked of the clients.                 *)
Spec == Init /\ [][Next]_vars /\ WF_vars(ServerStep)

-----------------------------------------------------------------------------
TypeOK ==
  /\ at \in {"accept", "stopped", "kex", "auth", "poll", "init", "message", "check"}
  /\ current = NULL <=> at \in {"accept", "stopped"}
  /\ current = NULL <=> handle = NULL
  /\ current # NULL => handle \in Handles
  /\ \A c \in Clients :
       /\ socket[c] \in Seq(Messages) /\ sent[c] \subseteq Messages
       /\ sent[c] # {} => (Waiting(c) <=> c # current)
  /\ backlog \in Seq(Clients)

(* What a session's handle says its client did, that very client did and   *)
(* was told so: no flag survives from the client before and none is set by *)
(* a refused request.  No client gets a second channel, over which its     *)
(* requests would be answered on the first.                                *)
HandleIsOwn ==
  current # NULL =>
    /\ handle.authenticated => Granted(current, "password")
    /\ handle.channel # NULL => HasChannel(current)
    /\ ~(Granted(current, "channel") /\ Granted(current, "channel again"))
    /\ handle.sftp_requested => Granted(current, "subsystem sftp")
    /\ handle.sftp => Granted(current, "INIT")

(* One client at a time, its packets in order, each answered once.         *)
OnlyPackets(s) ==
  FoldLeft(LAMBDA packets, m : IF m \in Packets THEN Append(packets, m) ELSE packets, <<>>, s)

PacketsOf(c) ==
  (IF c = current THEN handle.inbox ELSE <<>>) \o OnlyPackets(socket[c])

Service == INSTANCE FirstServed WITH
  queue <- backlog, serving <- current,
  Answered <- Packets \ Unanswered,
  pending <- [c \in Clients |-> PacketsOf(c)],
  answers <- OnlyPackets([i \in 1 .. Len(log) |-> log[i][1]])

ImplementsService == Service!Spec

(* A client that disconnects, in whatever phase, is let go: no poll or     *)
(* blocking read waits for a client that is gone.                          *)
LeaversAreLetGo == (current # NULL /\ Left(current)) ~> current = NULL

(* A client that waits for each answer gets it, or is dismissed, with      *)
(* exception of directory requests: no poll sleeps on a message that has   *)
(* been read already.                                                      *)
PatientIsAnswered ==
  \A c \in Patient :
    (c = current /\ ~(Outstanding(c) \subseteq Unanswered))
      ~> (c # current \/ Outstanding(c) = {} \/ Left(c))

(* Every client that waits gets its turn, unless the server has run out of *)
(* memory or for ever serves one that never leaves: no client is passed    *)
(* over, whatever became of those before it.                               *)
EveryoneGetsATurn ==
  \A c \in Clients :
    \/ []<>~Waiting(c)
    \/ <>[](at = "stopped")
    \/ <>[](current # NULL /\ ~Left(current))
=============================================================================
