------------------------------ MODULE SslDaemon ------------------------------
(***************************************************************************)
(* The SSL daemon: DaemonMaster accepts the clients one after the other,    *)
(* their handshake included, and gives each a runner thread and two         *)
(* forwarder threads (DaemonRunner), which hold the session of the client   *)
(* and the socket to the https server in common.  The first forwarder to    *)
(* end keeps the promise the runner waits for, and the runner cancels both. *)
(*                                                                          *)
(* The client, the https server and OpenSSL are external.  What a client    *)
(* sends is left out: forwardToServer_ hands it on as it comes, with a NUL  *)
(* after every record.  A response is its number of body bytes; its headers *)
(* are one token.                                                           *)
(***************************************************************************)
EXTENDS Naturals, Sequences, SequencesExt

CONSTANTS Conn,       \* the clients that connect, each once
          Alone,      \* those that come while the https server is down
          Responses   \* what the https server answers on the other connections

ASSUME ResponsesAssumption == Responses \in Seq(Nat)

VARIABLES master,    \* the client in its handshake with DaemonMaster, or Accepting
          phase,     \* Conn -> how far it is
          open,      \* Conn -> which of its peers have not closed
          thread,    \* Conn -> thread -> where it is
          killed,    \* Conn -> the forwarders the runner has cancelled
          holders,   \* Conn -> object -> the threads that hold a reference to it
          closed,    \* Conn -> object -> how often its descriptor was closed
          dead,      \* the daemon was ended by std::terminate or a signal
          incoming,  \* Conn -> what the https server has yet to write
          buffer,    \* Conn -> what it wrote and was not read
          need,      \* Conn -> httpBodySize
          packet,    \* Conn -> the packet in forwardToClient_'s hands
          toClient,  \* Conn -> the packets the client has been given
          parted     \* history: Conn -> responses whose body came in more than one part

runner == <<thread, killed, holders, closed, dead>>
data == <<incoming, buffer, need, packet, toClient, parted>>
vars == <<master, phase, open, runner, data>>

-----------------------------------------------------------------------------
(* State *)

Accepting == "accept"
Forwarder == {"server", "client"}   \* forwardToServer_, forwardToClient_
Thread == Forwarder \cup {"runner"}
Object == {"session", "socket"}

(* Tokens of the stream: the headers of a response, a byte of its body. *)
Headers(i) == <<i, "head">>
Byte(i) == <<i, "body">>
Response(i) == <<Headers(i)>> \o [b \in 1 .. Responses[i] |-> Byte(i)]

Stream == FlattenSeq([i \in DOMAIN Responses |-> Response(i)])

NoPacket == [of |-> 0, whole |-> TRUE]
Packet == [of : 0 .. Len(Responses), whole : BOOLEAN]

Step(c, t, pc) == thread' = [thread EXCEPT ![c][t] = pc]

-----------------------------------------------------------------------------
(* DaemonMaster::run *)

Connect(c) ==
    /\ phase[c] = "away"
    /\ phase' = [phase EXCEPT ![c] = "backlog"]
    /\ open' = [open EXCEPT ![c] = {"client"}]
    /\ UNCHANGED <<master, runner, data>>

(* ListenerSocket::accept, and SSL_accept begins. *)
Accept(c) ==
    /\ master = Accepting /\ phase[c] = "backlog"
    /\ master' = c
    /\ phase' = [phase EXCEPT ![c] = "handshake"]
    /\ UNCHANGED <<open, runner, data>>

(* A client that connects and says nothing: SSL_accept has no timeout. *)
Stall(c) ==
    /\ phase[c] = "handshake" /\ "client" \in open[c]
    /\ phase' = [phase EXCEPT ![c] = "stalled"]
    /\ UNCHANGED <<master, open, runner, data>>

(* A fault: the exception ends the loop. *)
FailForGood(c) ==
    /\ phase[c] = "handshake" \/ (phase[c] = "stalled" /\ "client" \notin open[c])
    /\ phase' = [phase EXCEPT ![c] = "over"]
    /\ UNCHANGED <<master, open, runner, data>>

(* The handshake or the connection to the https server fails: the exception  *)
(* is caught in the loop, which goes on, whatever isCleanupRequested says.   *)
Fail(c) ==
    /\ phase[c] = "handshake" \/ (phase[c] = "stalled" /\ "client" \notin open[c])
    /\ phase' = [phase EXCEPT ![c] = "over"]
    /\ master' = Accepting
    /\ UNCHANGED <<open, runner, data>>

(* DaemonRunner, with its threads started and tasksReadyPromise.set_value. *)
Establish(c) ==
    /\ phase[c] = "handshake" /\ "client" \in open[c] /\ c \notin Alone
    /\ phase' = [phase EXCEPT ![c] = "session"]
    /\ master' = Accepting
    /\ open' = [open EXCEPT ![c] = @ \cup {"server"}]
    /\ thread' = [thread EXCEPT ![c] = [server |-> "read", client |-> "head", runner |-> "wait"]]
    /\ holders' = [holders EXCEPT ![c] = [o \in Object |-> Thread]]
    /\ UNCHANGED <<killed, closed, dead, data>>

-----------------------------------------------------------------------------
(* The peers *)

(* A peer goes; what the https server has written can still be read. *)
Leave(c, peer) ==
    /\ peer \in open[c]
    /\ open' = [open EXCEPT ![c] = @ \ {peer}]
    /\ UNCHANGED <<master, phase, runner, data>>

(* The https server writes; what it writes together comes together, unless   *)
(* the socket's buffer parts it.                                             *)
Arrive(c) ==
    /\ "server" \in open[c] /\ incoming[c] # <<>>
    /\ \E n \in 1 .. Len(incoming[c]) :
         /\ buffer' = [buffer EXCEPT ![c] = @ \o SubSeq(incoming[c], 1, n)]
         /\ incoming' = [incoming EXCEPT ![c] = SubSeq(@, n + 1, Len(@))]
    /\ UNCHANGED <<master, phase, open, runner, need, packet, toClient, parted>>

-----------------------------------------------------------------------------
(* forwardToServer_: data from the client is left out, its end is not. *)

ServerEnds(c) ==
    /\ thread[c]["server"] = "read" /\ "client" \notin open[c]
    /\ Step(c, "server", "ended")
    /\ UNCHANGED <<master, phase, open, killed, holders, closed, dead, data>>

-----------------------------------------------------------------------------
(* forwardToClient_ and HttpPacketReader::readPacket *)

(* The headers, read byte by byte.  Bytes that are left of the body before   *)
(* come with them, in front.                                                 *)
HeadAt(c) == {n \in 1 .. Len(buffer[c]) : buffer[c][n][2] = "head"}
FirstHead(c) == CHOOSE n \in HeadAt(c) : \A m \in HeadAt(c) : n <= m

ReadHead(c) ==
    /\ thread[c]["client"] = "head" /\ HeadAt(c) # {}
    /\ LET n == FirstHead(c)
           i == buffer[c][n][1]
       IN  /\ need' = [need EXCEPT ![c] = Responses[i]]
           /\ packet' = [packet EXCEPT ![c] = [of |-> i, whole |-> n = 1]]
           /\ buffer' = [buffer EXCEPT ![c] = SubSeq(@, n + 1, Len(@))]
    /\ Step(c, "client", "body")
    /\ UNCHANGED <<master, phase, open, killed, holders, closed, dead, incoming, toClient, parted>>

(* A fault: everything that is there is taken for the body. *)
ReadAll(c) ==
    /\ thread[c]["client"] = "body" /\ need[c] > 0 /\ buffer[c] # <<>>
    /\ packet' = [packet EXCEPT ![c].whole = @ /\ Len(buffer[c]) = need[c]]
    /\ parted' = [parted EXCEPT ![c] = IF Len(buffer[c]) < need[c] THEN @ \cup {packet[c].of} ELSE @]
    /\ buffer' = [buffer EXCEPT ![c] = <<>>]
    /\ Step(c, "client", "write")
    /\ UNCHANGED <<master, phase, open, killed, holders, closed, dead, incoming, need, toClient>>

(* Socket::read: one read of at most httpBodySize bytes; the bytes it did    *)
(* not get are sent as NULs.                                                 *)
ReadBody(c) ==
    LET n == IF need[c] <= Len(buffer[c]) THEN need[c] ELSE Len(buffer[c])
    IN  /\ thread[c]["client"] = "body" /\ n > 0
        /\ packet' = [packet EXCEPT ![c].whole = @ /\ n = need[c]
                                              /\ \A b \in 1 .. n : buffer[c][b] = Byte(packet[c].of)]
        /\ parted' = [parted EXCEPT ![c] = IF n < need[c] THEN @ \cup {packet[c].of} ELSE @]
        /\ buffer' = [buffer EXCEPT ![c] = SubSeq(@, n + 1, Len(@))]
        /\ Step(c, "client", "write")
        /\ UNCHANGED <<master, phase, open, killed, holders, closed, dead, incoming, need, toClient>>

(* SslSession::write, which waits as long as the client does not read; the   *)
(* client may have gone, and nobody knows yet.                               *)
Write(c) ==
    /\ thread[c]["client"] = "write"
    /\ toClient' = [toClient EXCEPT ![c] = Append(@, packet[c])]
    /\ Step(c, "client", "head")
    /\ UNCHANGED <<master, phase, open, killed, holders, closed, dead, incoming, buffer, need, packet, parted>>

(* read returned 0: the https server has closed, or there was no body to     *)
(* read; or the client is gone.                                              *)
ClientEnds(c) ==
    /\ \/ thread[c]["client"] = "head" /\ HeadAt(c) = {} /\ "server" \notin open[c]
       \/ thread[c]["client"] = "body" /\ need[c] = 0
       \/ thread[c]["client"] = "body" /\ buffer[c] = <<>> /\ "server" \notin open[c]
       \/ thread[c]["client"] = "write" /\ "client" \notin open[c]
    /\ Step(c, "client", "ended")
    /\ UNCHANGED <<master, phase, open, killed, holders, closed, dead, data>>

(* A write to a peer that has gone: nothing ignores SIGPIPE, which ends the   *)
(* daemon.  Socket::writeRaw_ does not look at what ::write returns.         *)
BrokenPipe(c) ==
    /\ \/ thread[c]["client"] = "write" /\ "client" \notin open[c]
       \/ thread[c]["server"] = "read" /\ open[c] = {"client"}
    /\ dead' = TRUE
    /\ UNCHANGED <<master, phase, open, thread, killed, holders, closed, data>>

-----------------------------------------------------------------------------
(* The end of a connection *)

Calls == {"read", "head", "body", "write"}   \* where a thread can be cancelled

(* terminate->set_value, which throws if it was set before, and is caught.   *)
Terminate(c, t) ==
    /\ thread[c][t] = "ended"
    /\ Step(c, t, "release")
    /\ UNCHANGED <<master, phase, open, killed, holders, closed, dead, data>>

(* A cancelled forwarder is unwound from the call it is in: catch (...) and  *)
(* set_value, then its references, with cancellation disabled.               *)
Unwind(c, t) ==
    /\ t \in killed[c] /\ thread[c][t] \in Calls
    /\ Step(c, t, "unwind")
    /\ UNCHANGED <<master, phase, open, killed, holders, closed, dead, data>>

Promised(c) == \E t \in Forwarder : thread[c][t] \in {"release", "unwind", "gone"}

(* A fault: only one of the two is cancelled. *)
KillOne(c) ==
    /\ thread[c]["runner"] = "wait" /\ Promised(c)
    /\ killed' = [killed EXCEPT ![c] = {"server"}]
    /\ Step(c, "runner", "release")
    /\ UNCHANGED <<master, phase, open, holders, closed, dead, data>>

(* kill_ of one forwarder, then of the other, then detach. *)
Kill(c) ==
    LET t == IF thread[c]["runner"] = "wait" THEN "server" ELSE "client"
        next == IF thread[c]["runner"] = "wait" THEN "kill" ELSE "release"
    IN  /\ (thread[c]["runner"] = "wait" /\ Promised(c)) \/ thread[c]["runner"] = "kill"
        /\ killed' = [killed EXCEPT ![c] = @ \cup {t}]
        /\ Step(c, "runner", next)
        /\ UNCHANGED <<master, phase, open, holders, closed, dead, data>>

(* A fault: only the runner closes what it lets go. *)
RunnerCloses(c, t, o) ==
    /\ thread[c][t] \in {"release", "unwind"} /\ t \in holders[c][o]
    /\ holders' = [holders EXCEPT ![c][o] = @ \ {t}]
    /\ closed' = [closed EXCEPT ![c][o] = IF t = "runner" THEN @ + 1 ELSE @]
    /\ UNCHANGED <<master, phase, open, thread, killed, dead, data>>

(* A thread lets an object go.  The last to do so closes its descriptor:     *)
(* close is a cancellation point in a destructor, which may not throw, and a *)
(* thread that was cancelled only after its last call is terminated there.   *)
Release(c, t, o) ==
    LET lasts == holders[c][o] = {t}
        late == t \in killed[c] /\ thread[c][t] = "release"
    IN  /\ thread[c][t] \in {"release", "unwind"} /\ t \in holders[c][o]
        /\ holders' = [holders EXCEPT ![c][o] = @ \ {t}]
        /\ closed' = [closed EXCEPT ![c][o] = IF lasts /\ ~late THEN @ + 1 ELSE @]
        /\ dead' = (dead \/ (lasts /\ late))
        /\ UNCHANGED <<master, phase, open, thread, killed, data>>

Exit(c, t) ==
    /\ thread[c][t] \in {"release", "unwind"}
    /\ \A o \in Object : t \notin holders[c][o]
    /\ Step(c, t, "gone")
    /\ UNCHANGED <<master, phase, open, killed, holders, closed, dead, data>>

-----------------------------------------------------------------------------

Init ==
    /\ master = Accepting
    /\ phase = [c \in Conn |-> "away"] /\ open = [c \in Conn |-> {}]
    /\ thread = [c \in Conn |-> [t \in Thread |-> "none"]]
    /\ killed = [c \in Conn |-> {}]
    /\ holders = [c \in Conn |-> [o \in Object |-> {}]]
    /\ closed = [c \in Conn |-> [o \in Object |-> 0]]
    /\ dead = FALSE
    /\ incoming = [c \in Conn |-> Stream] /\ buffer = [c \in Conn |-> <<>>]
    /\ need = [c \in Conn |-> 0] /\ packet = [c \in Conn |-> NoPacket]
    /\ toClient = [c \in Conn |-> <<>>] /\ parted = [c \in Conn |-> {}]

Master(c) == Accept(c) \/ Fail(c) \/ Establish(c)

Reads(c) == ServerEnds(c) \/ ReadHead(c) \/ ReadBody(c) \/ ClientEnds(c)

Forwards(c) == Reads(c) \/ Write(c)

Runs(c, t) == \/ t = "runner" /\ Kill(c)
              \/ t \in Forwarder /\ (Terminate(c, t) \/ Unwind(c, t))
              \/ \E o \in Object : Release(c, t, o)
              \/ Exit(c, t)

Next ==
    /\ ~dead
    /\ \E c \in Conn :
         \/ Connect(c) \/ Stall(c) \/ Arrive(c) \/ \E peer \in Forwarder : Leave(c, peer)
         \/ Master(c) \/ Forwards(c) \/ BrokenPipe(c)
         \/ \E t \in Thread : Runs(c, t)

(* Threads are scheduled, and a handshake that is not stalled ends.  A write  *)
(* to the client need not end: that is up to the client.                     *)
Fairness == /\ WF_vars(~dead /\ \E c \in Conn : Master(c))
            /\ \A c \in Conn : /\ WF_vars(~dead /\ Reads(c))
                               /\ \A t \in Thread : WF_vars(~dead /\ Runs(c, t))

Spec == Init /\ [][Next]_vars /\ Fairness

-----------------------------------------------------------------------------
(* Properties *)

Pc == Calls \cup {"none", "wait", "kill", "ended", "release", "unwind", "gone"}

(* Type invariant, of all but the bytes of the responses. *)
TypeOK ==
    /\ master \in Conn \cup {Accepting}
    /\ phase \in [Conn -> {"away", "backlog", "handshake", "stalled", "session", "over"}]
    /\ open \in [Conn -> SUBSET Forwarder] /\ killed \in [Conn -> SUBSET Forwarder]
    /\ thread \in [Conn -> [Thread -> Pc]]
    /\ holders \in [Conn -> [Object -> SUBSET Thread]]
    /\ closed \in [Conn -> [Object -> {0, 1}]] /\ dead \in BOOLEAN

(* A forwarder never calls on an object that is closed, and the last thread  *)
(* to let an object go closes it, whichever thread it is: the runner of      *)
(* DaemonRunner.cpp:23 may end before the forwarders it has cancelled.       *)
ClosedByTheLast ==
    \A c \in Conn, o \in Object :
        closed[c][o] > 0 =>
            holders[c][o] = {} /\ \A t \in Forwarder : thread[c][t] \notin Calls

(* The client gets the https server's responses one by one, in their order   *)
(* and whole, except after a body that came in two reads (Socket::read).     *)
ResponsesIntact ==
    \A c \in Conn : \A k \in 1 .. Len(toClient[c]) :
        \/ toClient[c][k] = [of |-> k, whole |-> TRUE]
        \/ \E i \in parted[c] : i <= toClient[c][k].of

(* forwardToClient_ is in SSL_write, which lasts while a client that stays   *)
(* does not read (SslSession.cpp:57), and nothing tells it the server went.  *)
Writing(c) == thread[c]["client"] = "write" /\ "client" \in open[c]

(* When a peer has gone, both descriptors of the connection are closed in    *)
(* the end, unless the daemon is: by a forwarder that was cancelled too late *)
(* (Release), or by a signal.  They are kept while the server alone has gone *)
(* and the client leaves forwardToClient_ in a write: a write that ends is   *)
(* followed by another one or by the end.                                    *)
TeardownEnds ==
    \A c \in Conn :
        (phase[c] = "session" /\ open[c] # Forwarder)
            ~> (dead \/ Writing(c) \/ \A o \in Object : closed[c][o] = 1)

(* A client that waits is accepted, unless another one stalls the master in  *)
(* its handshake.                                                            *)
Accepted ==
    \A c \in Conn : phase[c] = "backlog" ~> (phase[c] # "backlog" \/ dead
                                               \/ \E d \in Conn : phase[d] = "stalled")
=============================================================================
