-------------------------- MODULE SslDaemon_proofs --------------------------
(***************************************************************************)
(* The descriptors: a thread of a connection holds both objects as long as  *)
(* it may call on them, and an object is closed only when nobody holds it   *)
(* any more: so no descriptor is used after it was closed, or closed twice, *)
(* whichever thread lets it go last.                                        *)
(*                                                                          *)
(* The responses: what a connection has buffered and what is to come are a  *)
(* suffix of the stream, and as long as no body was read in part            *)
(* forwardToClient_ stands where a response begins, with all those before   *)
(* it given.  Where the responses begin is found from FlattenSeq by         *)
(* induction, as the least number that is not in a set.                     *)
(***************************************************************************)
EXTENDS SslDaemon, SequenceTheorems, WellFoundedInduction, TLAPS

Working == Calls \cup {"ended"}

WorkersHold ==
    \A c \in Conn, t \in Thread, o \in Object : thread[c][t] \in Working => t \in holders[c][o]

ClosedIsFree == \A c \in Conn, o \in Object : closed[c][o] > 0 => holders[c][o] = {}

NothingBefore ==
    \A c \in Conn, o \in Object :
        phase[c] # "session" => closed[c][o] = 0 /\ holders[c][o] = {}

IInv == TypeOK /\ WorkersHold /\ ClosedIsFree /\ NothingBefore

(* DaemonRunner: the initial states. *)
LEMMA InitIInv == Init => IInv
<1> SUFFICES ASSUME Init PROVE IInv
  OBVIOUS
<1>1. TypeOK
  BY DEF Init, TypeOK, Pc, Thread, Forwarder, Object
<1>2. WorkersHold
  BY DEF Init, WorkersHold, Working, Calls
<1>3. ClosedIsFree /\ NothingBefore
  BY DEF Init, ClosedIsFree, NothingBefore
<1> QED BY <1>1, <1>2, <1>3 DEF IInv

(* Steps that leave the threads, what they hold and what is closed alone. *)
LEMMA FrameIInv ==
    ASSUME IInv,
           UNCHANGED <<thread, holders, closed>>,
           TypeOK',
           \A c \in Conn : phase'[c] # "session" => phase[c] # "session"
    PROVE  IInv'
BY DEF IInv, WorkersHold, ClosedIsFree, NothingBefore

(* Steps of a thread that lets nothing go: it works only if it worked before. *)
LEMMA StepIInv ==
    ASSUME IInv,
           NEW c \in Conn, NEW t \in Thread, NEW pc \in Pc,
           pc \in Working => thread[c][t] \in Working,
           Step(c, t, pc),
           killed' \in [Conn -> SUBSET Forwarder],
           UNCHANGED <<master, phase, open, holders, closed, dead>>
    PROVE  IInv'
<1>1. thread' \in [Conn -> [Thread -> Pc]]
  BY DEF IInv, TypeOK, Step
<1>2. TypeOK'
  BY <1>1 DEF IInv, TypeOK
<1>3. \A d \in Conn, u \in Thread : thread'[d][u] \in Working => thread[d][u] \in Working
  BY DEF IInv, TypeOK, Step
<1>4. WorkersHold'
  BY <1>3 DEF IInv, WorkersHold
<1>5. ClosedIsFree' /\ NothingBefore'
  BY DEF IInv, ClosedIsFree, NothingBefore
<1> QED BY <1>2, <1>4, <1>5 DEF IInv

(* DaemonRunner::DaemonRunner: a new connection, of which nothing was held. *)
LEMMA EstablishIInv ==
    ASSUME IInv, NEW c \in Conn, Establish(c)
    PROVE  IInv'
<1>1. thread' \in [Conn -> [Thread -> Pc]]
  BY DEF IInv, TypeOK, Establish, Thread, Forwarder, Pc, Calls
<1>2. holders' \in [Conn -> [Object -> SUBSET Thread]]
  BY DEF IInv, TypeOK, Establish
<1>3. open' \in [Conn -> SUBSET Forwarder]
  BY DEF IInv, TypeOK, Establish, Forwarder
<1>4. phase' \in [Conn -> {"away", "backlog", "handshake", "stalled", "session", "over"}]
  BY DEF IInv, TypeOK, Establish
<1>5. UNCHANGED <<killed, closed, dead>> /\ master' \in Conn \cup {Accepting}
  BY DEF IInv, TypeOK, Establish
<1>6. TypeOK'
  BY <1>1, <1>2, <1>3, <1>4, <1>5 DEF IInv, TypeOK
<1>7. \A o \in Object : holders'[c][o] = Thread
  BY DEF IInv, TypeOK, Establish
<1>8. \A d \in Conn \ {c} : /\ holders'[d] = holders[d] /\ thread'[d] = thread[d]
                            /\ phase'[d] = phase[d]
  BY DEF IInv, TypeOK, Establish
<1>9. phase[c] # "session" /\ phase'[c] = "session"
  BY DEF IInv, TypeOK, Establish
<1>10. WorkersHold'
  BY <1>7, <1>8 DEF IInv, WorkersHold
<1>11. \A o \in Object : closed[c][o] = 0
  BY <1>9 DEF IInv, NothingBefore
<1>12. ClosedIsFree' /\ NothingBefore'
  BY <1>5, <1>8, <1>9, <1>11 DEF IInv, ClosedIsFree, NothingBefore
<1> QED BY <1>6, <1>10, <1>12 DEF IInv

(* The destructors: the last thread closes, of those that no longer work. *)
LEMMA ReleaseIInv ==
    ASSUME IInv, NEW c \in Conn, NEW t \in Thread, NEW o \in Object, Release(c, t, o)
    PROVE  IInv'
<1> DEFINE lasts == holders[c][o] = {t}
           late == t \in killed[c] /\ thread[c][t] = "release"
<1>1. /\ thread[c][t] \in {"release", "unwind"} /\ t \in holders[c][o]
      /\ holders' = [holders EXCEPT ![c][o] = @ \ {t}]
      /\ closed' = [closed EXCEPT ![c][o] = IF lasts /\ ~late THEN @ + 1 ELSE @]
      /\ dead' = (dead \/ (lasts /\ late))
      /\ UNCHANGED <<master, phase, open, thread, killed>>
  BY DEF Release
<1>2. closed[c][o] = 0 /\ phase[c] = "session"
  BY <1>1 DEF IInv, TypeOK, ClosedIsFree, NothingBefore
<1>3. holders' \in [Conn -> [Object -> SUBSET Thread]]
  BY <1>1 DEF IInv, TypeOK
<1>4. closed' \in [Conn -> [Object -> {0, 1}]]
  BY <1>1, <1>2 DEF IInv, TypeOK
<1>5. dead' \in BOOLEAN
  BY <1>1 DEF IInv, TypeOK
<1>6. TypeOK'
  BY <1>1, <1>3, <1>4, <1>5 DEF IInv, TypeOK
<1>7. \A d \in Conn, p \in Object :
         <<d, p>> # <<c, o>> => holders'[d][p] = holders[d][p] /\ closed'[d][p] = closed[d][p]
  BY <1>1 DEF IInv, TypeOK
<1>8. holders'[c][o] = holders[c][o] \ {t}
  BY <1>1 DEF IInv, TypeOK
<1>9. closed'[c][o] > 0 => lasts
  BY <1>1, <1>2 DEF IInv, TypeOK
<1>10. thread[c][t] \notin Working
  BY <1>1 DEF Working, Calls
<1>11. WorkersHold'
  BY <1>1, <1>7, <1>8, <1>10 DEF IInv, WorkersHold
<1>12. ClosedIsFree'
  BY <1>7, <1>8, <1>9 DEF IInv, ClosedIsFree
<1>13. NothingBefore'
  BY <1>1, <1>2, <1>7 DEF IInv, NothingBefore
<1> QED BY <1>6, <1>11, <1>12, <1>13 DEF IInv

(* The master and the peers: no thread of a connection moves. *)
LEMMA OutsideIInv ==
    ASSUME IInv, NEW c \in Conn,
           \/ Connect(c) \/ Accept(c) \/ Stall(c) \/ Fail(c)
           \/ \E peer \in Forwarder : Leave(c, peer)
           \/ Arrive(c) \/ BrokenPipe(c)
    PROVE  IInv'
<1>1. CASE Connect(c)
  <2>1. TypeOK'
    BY <1>1 DEF IInv, TypeOK, Connect, runner, data, Forwarder
  <2> QED BY <1>1, <2>1, FrameIInv DEF IInv, TypeOK, Connect, runner
<1>2. CASE Accept(c)
  <2>1. TypeOK'
    BY <1>2 DEF IInv, TypeOK, Accept, runner, data
  <2> QED BY <1>2, <2>1, FrameIInv DEF IInv, TypeOK, Accept, runner
<1>3. CASE Stall(c)
  <2>1. TypeOK'
    BY <1>3 DEF IInv, TypeOK, Stall, runner, data
  <2> QED BY <1>3, <2>1, FrameIInv DEF IInv, TypeOK, Stall, runner
<1>4. CASE Fail(c)
  <2>1. TypeOK'
    BY <1>4 DEF IInv, TypeOK, Fail, runner, data
  <2> QED BY <1>4, <2>1, FrameIInv DEF IInv, TypeOK, Fail, runner
<1>5. ASSUME NEW peer \in Forwarder, Leave(c, peer)
      PROVE  IInv'
  <2>1. TypeOK'
    BY <1>5 DEF IInv, TypeOK, Leave, runner, data
  <2> QED BY <1>5, <2>1, FrameIInv DEF Leave, runner
<1>6. CASE Arrive(c)
  <2>1. TypeOK'
    BY <1>6 DEF IInv, TypeOK, Arrive, runner
  <2> QED BY <1>6, <2>1, FrameIInv DEF Arrive, runner
<1>7. CASE BrokenPipe(c)
  <2>1. TypeOK'
    BY <1>7 DEF IInv, TypeOK, BrokenPipe
  <2> QED BY <1>7, <2>1, FrameIInv DEF BrokenPipe
<1> QED BY <1>1, <1>2, <1>3, <1>4, <1>5, <1>6, <1>7

(* The forwarders, at their calls. *)
LEMMA ForwardsIInv ==
    ASSUME IInv, NEW c \in Conn, Forwards(c)
    PROVE  IInv'
<1>0. /\ "server" \in Thread /\ "client" \in Thread /\ Calls \subseteq Pc /\ Calls \subseteq Working
      /\ "ended" \in Pc /\ {"read", "head", "body", "write"} \subseteq Calls
  BY DEF Thread, Forwarder, Pc, Working, Calls
<1>t. killed \in [Conn -> SUBSET Forwarder]
  BY DEF IInv, TypeOK
<1>1. CASE ServerEnds(c)
  BY <1>0, <1>t, <1>1, StepIInv DEF ServerEnds
<1>2. CASE ReadHead(c)
  BY <1>0, <1>t, <1>2, StepIInv DEF ReadHead
<1>3. CASE ReadBody(c)
  BY <1>0, <1>t, <1>3, StepIInv DEF ReadBody
<1>4. CASE Write(c)
  BY <1>0, <1>t, <1>4, StepIInv DEF Write
<1>5. CASE ClientEnds(c)
  BY <1>0, <1>t, <1>5, StepIInv DEF ClientEnds
<1> QED BY <1>1, <1>2, <1>3, <1>4, <1>5 DEF Forwards, Reads

(* The end of a connection. *)
LEMMA RunsIInv ==
    ASSUME IInv, NEW c \in Conn, NEW t \in Thread, Runs(c, t)
    PROVE  IInv'
<1>0. /\ "runner" \in Thread /\ Forwarder \subseteq Thread
      /\ {"kill", "release", "unwind", "gone"} \subseteq Pc
      /\ {"kill", "release", "unwind", "gone"} \cap Working = {}
      /\ {"server", "client"} \subseteq Forwarder
  BY DEF Thread, Forwarder, Pc, Working, Calls
<1>t. killed \in [Conn -> SUBSET Forwarder]
  BY DEF IInv, TypeOK
<1>1. CASE t = "runner" /\ Kill(c)
  <2> DEFINE next == IF thread[c]["runner"] = "wait" THEN "kill" ELSE "release"
  <2>1. killed' \in [Conn -> SUBSET Forwarder]
    BY <1>0, <1>1, <1>t DEF Kill
  <2>2. next \in Pc /\ next \notin Working /\ Step(c, "runner", next)
    BY <1>0, <1>1 DEF Kill
  <2>3. UNCHANGED <<master, phase, open, holders, closed, dead>>
    BY <1>1 DEF Kill
  <2> HIDE DEF next
  <2> QED BY <1>0, <2>1, <2>2, <2>3, StepIInv
<1>2. CASE t \in Forwarder /\ Terminate(c, t)
  BY <1>0, <1>t, <1>2, StepIInv DEF Terminate
<1>3. CASE t \in Forwarder /\ Unwind(c, t)
  BY <1>0, <1>t, <1>3, StepIInv DEF Unwind
<1>4. ASSUME NEW o \in Object, Release(c, t, o)
      PROVE  IInv'
  BY <1>4, ReleaseIInv
<1>5. CASE Exit(c, t)
  BY <1>0, <1>t, <1>5, StepIInv DEF Exit
<1> QED BY <1>1, <1>2, <1>3, <1>4, <1>5 DEF Runs

(* Every step. *)
LEMMA NextIInv == IInv /\ [Next]_vars => IInv'
<1> SUFFICES ASSUME IInv, [Next]_vars PROVE IInv'
  OBVIOUS
<1>1. CASE Next
  <2>1. PICK c \in Conn :
           \/ Connect(c) \/ Stall(c) \/ Arrive(c) \/ \E peer \in Forwarder : Leave(c, peer)
           \/ Master(c) \/ Forwards(c) \/ BrokenPipe(c)
           \/ \E t \in Thread : Runs(c, t)
    BY <1>1 DEF Next
  <2>2. CASE Establish(c)
    BY <2>2, EstablishIInv
  <2>3. CASE Forwards(c)
    BY <2>3, ForwardsIInv
  <2>4. CASE \E t \in Thread : Runs(c, t)
    BY <2>4, RunsIInv
  <2> QED BY <2>1, <2>2, <2>3, <2>4, OutsideIInv DEF Master
<1>2. CASE UNCHANGED vars
  <2>1. UNCHANGED <<master, phase, open, runner>>
    BY <1>2 DEF vars
  <2> QED BY <2>1 DEF runner, IInv, TypeOK, WorkersHold, ClosedIsFree, NothingBefore
<1> QED BY <1>1, <1>2

(* The inductive invariant. *)
LEMMA Invariance == Spec => []IInv
BY InitIInv, NextIInv, PTL DEF Spec

(* SslDaemon: every variable but the bytes of the responses keeps its type. *)
THEOREM TypeCorrect == Spec => []TypeOK
<1>1. IInv => TypeOK
  BY DEF IInv
<1> QED BY <1>1, Invariance, PTL

(* DaemonRunner: a descriptor is closed once, when no thread holds it, and no *)
(* forwarder is then at a call on it, for any clients and any responses.      *)
THEOREM ClosedOnce == Spec => []ClosedByTheLast
<1>1. IInv => ClosedByTheLast
  <2> SUFFICES ASSUME IInv, NEW c \in Conn, NEW o \in Object, closed[c][o] > 0
               PROVE  holders[c][o] = {} /\ \A t \in Forwarder : thread[c][t] \notin Calls
    BY DEF ClosedByTheLast
  <2>1. holders[c][o] = {}
    BY DEF IInv, ClosedIsFree
  <2> QED BY <2>1 DEF IInv, WorkersHold, Working, Thread
<1> QED BY <1>1, Invariance, PTL

-----------------------------------------------------------------------------
(* Induction, and the stream of the responses *)

(* A set of naturals has a least one, *)
LEMMA Least ==
    ASSUME NEW T, T \subseteq Nat, T # {}
    PROVE  \E n \in T : \A m \in T : n <= m
<1> DEFINE R == OpToRel(<, Nat)
<1>1. IsWellFoundedOn(R, Nat)
  BY NatLessThanWellFounded
<1>2. \A m, n \in Nat : m < n => <<m, n>> \in R
  BY DEF OpToRel
<1> HIDE DEF R
<1>3. PICK n \in T : \A m \in T : ~(<<m, n>> \in R)
  BY <1>1, WFMin
<1>4. \A m \in T : m \in Nat /\ n \in Nat /\ ~(m < n)
  BY <1>2, <1>3
<1>5. \A m \in T : n <= m
  BY <1>4
<1> QED
  BY <1>3, <1>5

(* ... and one that has zero, and each number after its own, has all. *)
LEMMA Induction ==
    ASSUME NEW T, 0 \in T, \A n \in Nat : n \in T => n + 1 \in T
    PROVE  Nat \subseteq T
<1> SUFFICES ASSUME Nat \ T # {} PROVE FALSE
  OBVIOUS
<1>1. PICK n \in Nat \ T : \A m \in Nat \ T : n <= m
  <2>1. Nat \ T \subseteq Nat
    OBVIOUS
  <2> QED
    BY <2>1, Least
<1>2. n - 1 \in Nat /\ n - 1 \in T
  BY <1>1
<1> QED
  BY <1>1, <1>2

(* FlattenSeq is defined by a function that exists. *)
LEMMA Flatten ==
    ASSUME NEW seqs, NEW n \in Nat
    PROVE  \E f : f = [i \in 1 .. n |-> IF i = 1 THEN seqs[i] ELSE f[i - 1] \o seqs[i]]
<1> DEFINE Is(f, k) == f = [i \in 1 .. k |-> IF i = 1 THEN seqs[i] ELSE f[i - 1] \o seqs[i]]
           T == {k \in Nat : \E f : Is(f, k)}
<1>1. 0 \in T
  <2>1. Is([i \in 1 .. 0 |-> 0], 0)
    OBVIOUS
  <2> QED
    BY <2>1
<1>2. ASSUME NEW k \in Nat, k \in T
      PROVE  k + 1 \in T
  <2>1. PICK f : Is(f, k)
    BY <1>2
  <2> DEFINE g == [i \in 1 .. k + 1 |-> IF i = 1 THEN seqs[i] ELSE f[i - 1] \o seqs[i]]
  <2>2. \A i \in 1 .. k : g[i] = f[i]
    <3> SUFFICES ASSUME NEW i \in 1 .. k PROVE g[i] = f[i]
      OBVIOUS
    <3>1. i \in 1 .. k + 1
      OBVIOUS
    <3>2. g[i] = IF i = 1 THEN seqs[i] ELSE f[i - 1] \o seqs[i]
      BY <3>1
    <3> HIDE DEF g
    <3>3. f[i] = IF i = 1 THEN seqs[i] ELSE f[i - 1] \o seqs[i]
      BY <2>1
    <3> QED
      BY <3>2, <3>3
  <2>3. Is(g, k + 1)
    <3>1. \A i \in 1 .. k + 1 : i = 1 \/ i - 1 \in 1 .. k
      OBVIOUS
    <3>2. \A i \in 1 .. k + 1 : g[i] = IF i = 1 THEN seqs[i] ELSE g[i - 1] \o seqs[i]
      BY <2>2, <3>1
    <3>3. g = [i \in 1 .. k + 1 |-> g[i]]
      OBVIOUS
    <3> HIDE DEF g
    <3>4. [i \in 1 .. k + 1 |-> g[i]] = [i \in 1 .. k + 1 |-> IF i = 1 THEN seqs[i] ELSE g[i - 1] \o seqs[i]]
      BY <3>2
    <3> QED
      BY <3>3, <3>4
  <2> HIDE DEF g, Is
  <2>4. \E h : Is(h, k + 1)
    BY <2>3
  <2> QED
    BY <2>4
<1> HIDE DEF T
<1>3. Nat \subseteq T
  BY <1>1, <1>2, Induction
<1> QED
  BY <1>3 DEF T

(* What FlattenSeq gives is the last value of that function. *)
LEMMA FlattenOf ==
    ASSUME NEW seqs, Len(seqs) \in Nat \ {0}
    PROVE  \E f : /\ f = [i \in 1 .. Len(seqs) |-> IF i = 1 THEN seqs[i] ELSE f[i - 1] \o seqs[i]]
                  /\ FlattenSeq(seqs) = f[Len(seqs)]
<1>1. PICK n \in Nat \ {0} : n = Len(seqs)
  OBVIOUS
<1> DEFINE Is(f) == f = [i \in 1 .. n |-> IF i = 1 THEN seqs[i] ELSE f[i - 1] \o seqs[i]]
           g == CHOOSE f : Is(f)
<1>2. \E f : Is(f)
  BY Flatten
<1>3. Is(g)
  BY <1>2
<1>4. FlattenSeq(seqs) = g[n]
  BY <1>1 DEF FlattenSeq
<1> QED
  BY <1>1, <1>3, <1>4

-----------------------------------------------------------------------------
Token == Nat \X {"head", "body"}

(* start[i] is where the i-th of n responses begins in s. *)
Placed(s, n, start) ==
    /\ s \in Seq(Token) /\ start \in [1 .. n + 1 -> Nat]
    /\ start[1] = 1 /\ start[n + 1] = Len(s) + 1
    /\ \A i \in 1 .. n : /\ start[i + 1] = start[i] + 1 + Responses[i] /\ s[start[i]] = Headers(i)
                         /\ \A b \in 1 .. Responses[i] : s[start[i] + b] = Byte(i)
    /\ \A i, j \in 1 .. n + 1 : i <= j => start[i] <= start[j]
    /\ \A m \in 1 .. Len(s) : s[m][2] = "head" => \E i \in 1 .. n : m = start[i]

(* HttpPacketReader: a response is its headers and the bytes of its body. *)
LEMMA ResponseOf ==
    ASSUME NEW i \in 1 .. Len(Responses)
    PROVE  /\ Response(i) \in Seq(Token) /\ Responses[i] \in Nat /\ Len(Response(i)) = 1 + Responses[i]
           /\ Response(i)[1] = Headers(i)
           /\ \A b \in 1 .. Responses[i] : Response(i)[1 + b] = Byte(i)
<1>1. Responses[i] \in Nat /\ i \in Nat
  BY ResponsesAssumption
<1>2. PICK n \in Nat : n = Responses[i]
  BY <1>1
<1>3. Headers(i) \in Token /\ Byte(i) \in Token
  BY <1>1 DEF Headers, Byte, Token
<1> DEFINE body == [b \in 1 .. n |-> Byte(i)]
<1>4. body \in Seq(Token) /\ Len(body) = n /\ \A b \in 1 .. n : body[b] = Byte(i)
  BY <1>3
<1>5. <<Headers(i)>> \in Seq(Token) /\ Len(<<Headers(i)>>) = 1 /\ <<Headers(i)>>[1] = Headers(i)
  BY <1>3
<1>6. Response(i) = <<Headers(i)>> \o body
  BY <1>2 DEF Response
<1> HIDE DEF body
<1>7. /\ Response(i) \in Seq(Token) /\ Len(Response(i)) = 1 + n
      /\ \A k \in 1 .. 1 + n : Response(i)[k] = IF k <= 1 THEN <<Headers(i)>>[k] ELSE body[k - 1]
  BY <1>4, <1>5, <1>6, ConcatProperties
<1>8. \A b \in 1 .. n : 1 + b \in 1 .. 1 + n /\ ~(1 + b <= 1) /\ (1 + b) - 1 = b
  OBVIOUS
<1>9. 1 \in 1 .. 1 + n
  OBVIOUS
<1>10. Response(i)[1] = Headers(i)
  BY <1>5, <1>7, <1>9
<1>11. ASSUME NEW b \in 1 .. n PROVE Response(i)[1 + b] = Byte(i)
  <2>1. Response(i)[1 + b] = body[b]
    BY <1>7, <1>8
  <2> QED
    BY <1>4, <2>1
<1> QED
  BY <1>2, <1>7, <1>10, <1>11

(* No response takes no room, *)
LEMMA PlacedNone == Placed(<<>>, 0, [i \in 1 .. 0 + 1 |-> 1])
<1>1. <<>> \in Seq(Token) /\ Len(<<>>) = 0
  OBVIOUS
<1>2. 0 + 1 = 1 /\ 1 .. 0 = {}
  OBVIOUS
<1> QED
  BY <1>1, <1>2 DEF Placed

(* ... and one more begins where those before it end. *)
LEMMA PlacedNext ==
    ASSUME NEW n \in Nat, n < Len(Responses), NEW s, NEW start, Placed(s, n, start)
    PROVE  \E new : Placed(s \o Response(n + 1), n + 1, new)
<1>1. n + 1 \in 1 .. Len(Responses) /\ Len(Responses) \in Nat
  BY ResponsesAssumption
<1>2. PICK size \in Nat : size = Responses[n + 1]
  BY <1>1, ResponseOf
<1>3. PICK len \in Nat : len = Len(s)
  BY DEF Placed
<1> DEFINE new == [i \in 1 .. (n + 1) + 1 |-> IF i = n + 2 THEN len + 2 + size ELSE start[i]]
           t == s \o Response(n + 1)
<1>4. /\ s \in Seq(Token) /\ start \in [1 .. n + 1 -> Nat] /\ start[1] = 1 /\ start[n + 1] = len + 1
      /\ \A i \in 1 .. n : /\ start[i + 1] = start[i] + 1 + Responses[i] /\ s[start[i]] = Headers(i)
                           /\ \A b \in 1 .. Responses[i] : s[start[i] + b] = Byte(i)
      /\ \A i, j \in 1 .. n + 1 : i <= j => start[i] <= start[j]
      /\ \A m \in 1 .. len : s[m][2] = "head" => \E i \in 1 .. n : m = start[i]
  BY <1>3 DEF Placed
<1>5. new \in [1 .. (n + 1) + 1 -> Nat] /\ new[n + 2] = len + 2 + size /\ \A i \in 1 .. n + 1 : new[i] = start[i]
  <2>1. \A i \in 1 .. (n + 1) + 1 : i = n + 2 \/ i \in 1 .. n + 1
    OBVIOUS
  <2>2. len + 2 + size \in Nat /\ n + 2 \in 1 .. (n + 1) + 1
    OBVIOUS
  <2>3. \A i \in 1 .. n + 1 : i \in 1 .. (n + 1) + 1 /\ i # n + 2
    OBVIOUS
  <2> QED
    BY <1>4, <2>1, <2>2, <2>3
<1>6. /\ t \in Seq(Token) /\ Len(t) = len + 1 + size
      /\ \A k \in 1 .. len + 1 + size : t[k] = IF k <= len THEN s[k] ELSE Response(n + 1)[k - len]
  <2>1. Response(n + 1) \in Seq(Token) /\ Len(Response(n + 1)) = 1 + size
    BY <1>1, <1>2, ResponseOf
  <2>2. /\ t \in Seq(Token) /\ Len(t) = Len(s) + Len(Response(n + 1))
        /\ \A k \in 1 .. Len(s) + Len(Response(n + 1)) :
              t[k] = IF k <= Len(s) THEN s[k] ELSE Response(n + 1)[k - Len(s)]
    BY <1>4, <2>1, ConcatProperties
  <2>3. Len(s) + Len(Response(n + 1)) = len + 1 + size
    BY <1>3, <2>1
  <2> HIDE DEF t
  <2> QED
    BY <1>3, <2>2, <2>3
<1>7. \A k \in 1 .. len : t[k] = s[k]
  BY <1>6
<1>8. t[len + 1] = Headers(n + 1) /\ \A b \in 1 .. size : t[(len + 1) + b] = Byte(n + 1)
  <2>1. /\ Response(n + 1)[1] = Headers(n + 1)
        /\ \A b \in 1 .. size : Response(n + 1)[1 + b] = Byte(n + 1)
    BY <1>1, <1>2, ResponseOf
  <2>2. t[len + 1] = Response(n + 1)[1]
    <3>1. len + 1 \in 1 .. len + 1 + size /\ ~(len + 1 <= len) /\ (len + 1) - len = 1
      OBVIOUS
    <3> QED
      BY <1>6, <3>1
  <2>3. \A b \in 1 .. size : t[(len + 1) + b] = Response(n + 1)[1 + b]
    <3>1. \A b \in 1 .. size : /\ (len + 1) + b \in 1 .. len + 1 + size /\ ~((len + 1) + b <= len)
                               /\ ((len + 1) + b) - len = 1 + b
      OBVIOUS
    <3> QED
      BY <1>6, <3>1
  <2> QED
    BY <2>1, <2>2, <2>3
<1> HIDE DEF new, t
<1>9. \A i \in 1 .. n : /\ start[i] \in 1 .. len /\ Responses[i] \in Nat
                        /\ \A b \in 1 .. Responses[i] : start[i] + b \in 1 .. len
  <2> SUFFICES ASSUME NEW i \in 1 .. n
               PROVE  /\ start[i] \in 1 .. len /\ Responses[i] \in Nat
                      /\ \A b \in 1 .. Responses[i] : start[i] + b \in 1 .. len
    OBVIOUS
  <2>1. i \in 1 .. Len(Responses) /\ i \in 1 .. n + 1 /\ i + 1 \in 1 .. n + 1 /\ n + 1 \in 1 .. n + 1 /\ 1 \in 1 .. n + 1
    BY <1>1
  <2>2. Responses[i] \in Nat
    BY <2>1, ResponseOf
  <2>3. start[1] <= start[i] /\ start[i + 1] <= start[n + 1] /\ start[i] \in Nat /\ start[i + 1] \in Nat
    BY <1>4, <2>1
  <2>4. start[i + 1] = start[i] + 1 + Responses[i]
    BY <1>4
  <2>5. 1 <= start[i] /\ start[i] + 1 + Responses[i] <= len + 1
    BY <1>4, <2>3, <2>4
  <2>6. \A b \in 1 .. Responses[i] : start[i] + b \in 1 .. len
    <3>1. PICK k \in Nat, from \in Nat : k = Responses[i] /\ from = start[i]
      BY <2>2, <2>3
    <3>2. 1 <= from /\ from + 1 + k <= len + 1
      BY <2>5, <3>1
    <3>3. \A b \in 1 .. k : from + b \in 1 .. len
      BY <3>2
    <3> QED
      BY <3>1, <3>3
  <2> QED
    BY <2>2, <2>3, <2>5, <2>6
<1>10. ASSUME NEW i \in 1 .. n + 1
       PROVE  /\ new[i + 1] = new[i] + 1 + Responses[i] /\ t[new[i]] = Headers(i)
              /\ \A b \in 1 .. Responses[i] : t[new[i] + b] = Byte(i)
  <2>1. CASE i = n + 1
    <3>1. new[i] = len + 1 /\ new[i + 1] = len + 2 + size
      <4>1. i + 1 = n + 2 /\ n + 1 \in 1 .. n + 1
        BY <2>1
      <4> QED
        BY <1>4, <1>5, <2>1, <4>1
    <3>2. Responses[i] = size
      BY <1>2, <2>1
    <3> QED
      BY <1>8, <2>1, <3>1, <3>2
  <2>2. CASE i \in 1 .. n
    <3>1. new[i] = start[i] /\ new[i + 1] = start[i + 1]
      <4>1. i + 1 \in 1 .. n + 1
        BY <2>2
      <4> QED
        BY <1>5, <4>1
    <3>2. t[start[i]] = s[start[i]] /\ \A b \in 1 .. Responses[i] : t[start[i] + b] = s[start[i] + b]
      BY <1>7, <1>9, <2>2
    <3> QED
      BY <1>4, <2>2, <3>1, <3>2
  <2>3. i = n + 1 \/ i \in 1 .. n
    OBVIOUS
  <2> QED
    BY <2>1, <2>2, <2>3
<1>11. ASSUME NEW i \in 1 .. (n + 1) + 1, NEW j \in 1 .. (n + 1) + 1, i <= j
       PROVE  new[i] <= new[j]
  <2>1. CASE j \in 1 .. n + 1
    <3>1. i \in 1 .. n + 1
      BY <1>11, <2>1
    <3> QED
      BY <1>4, <1>5, <1>11, <2>1, <3>1
  <2>2. CASE j = n + 2 /\ i \in 1 .. n + 1
    <3>1. n + 1 \in 1 .. n + 1 /\ i <= n + 1
      BY <2>2
    <3>2. start[i] <= start[n + 1] /\ start[i] \in Nat
      BY <1>4, <2>2, <3>1
    <3> QED
      BY <1>4, <1>5, <2>2, <3>2
  <2>3. CASE j = n + 2 /\ i = n + 2
    BY <1>5, <2>3
  <2>4. (j \in 1 .. n + 1 \/ j = n + 2) /\ (i \in 1 .. n + 1 \/ i = n + 2)
    OBVIOUS
  <2> QED
    BY <2>1, <2>2, <2>3, <2>4
<1>12. ASSUME NEW m \in 1 .. len + 1 + size, t[m][2] = "head"
       PROVE  \E i \in 1 .. n + 1 : m = new[i]
  <2>1. CASE m \in 1 .. len
    <3>1. PICK i \in 1 .. n : m = start[i]
      BY <1>4, <1>7, <1>12, <2>1
    <3>2. i \in 1 .. n + 1 /\ m = new[i]
      BY <1>5, <3>1
    <3> QED
      BY <3>2
  <2>2. CASE m = len + 1
    <3>1. n + 1 \in 1 .. n + 1 /\ new[n + 1] = len + 1
      BY <1>4, <1>5
    <3> QED
      BY <2>2, <3>1
  <2>3. CASE m > len + 1
    <3>1. PICK b \in 1 .. size : m = (len + 1) + b
      <4>1. m - (len + 1) \in 1 .. size /\ m = (len + 1) + (m - (len + 1))
        BY <2>3
      <4> QED
        BY <4>1
    <3>2. t[m] = Byte(n + 1)
      BY <1>8, <3>1
    <3> QED
      BY <1>12, <3>2 DEF Byte
  <2> QED
    BY <2>1, <2>2, <2>3
<1>13. new[1] = 1 /\ new[(n + 1) + 1] = Len(t) + 1
  <2>1. 1 \in 1 .. n + 1 /\ (n + 1) + 1 = n + 2
    OBVIOUS
  <2> QED
    BY <1>4, <1>5, <1>6, <2>1
<1>14. Placed(t, n + 1, new)
  BY <1>5, <1>6, <1>10, <1>11, <1>12, <1>13 DEF Placed
<1> QED
  BY <1>14 DEF t

(* The stream is the responses, one after the other. *)
LEMMA StreamPlaced == \E start : Placed(Stream, Len(Responses), start)
<1>1. PICK n \in Nat : n = Len(Responses)
  BY ResponsesAssumption
<1> DEFINE seqs == [i \in DOMAIN Responses |-> Response(i)]
<1>2. DOMAIN Responses = 1 .. n
  BY <1>1, ResponsesAssumption
<1>3. Len(seqs) = n /\ \A i \in 1 .. n : seqs[i] = Response(i)
  BY <1>2
<1>4. Stream = FlattenSeq(seqs)
  BY DEF Stream
<1> HIDE DEF seqs
<1>5. CASE n = 0
  <2>1. Stream = <<>>
    <3>1. seqs = <<>>
      BY <1>2, <1>5 DEF seqs
    <3> QED
      BY <1>3, <1>4, <1>5, <3>1 DEF FlattenSeq
  <2> QED
    BY <1>1, <1>5, <2>1, PlacedNone
<1>6. CASE n # 0
  <2>1. PICK f : /\ f = [i \in 1 .. n |-> IF i = 1 THEN seqs[i] ELSE f[i - 1] \o seqs[i]]
                 /\ Stream = f[n]
    BY <1>3, <1>4, <1>6, FlattenOf
  <2> DEFINE T == {k \in Nat : k = 0 \/ k > n \/ \E start : Placed(f[k], k, start)}
  <2>2. ASSUME NEW k \in Nat, k \in T
        PROVE  k + 1 \in T
    <3> SUFFICES ASSUME k < n
                 PROVE  \E start : Placed(f[k + 1], k + 1, start)
      OBVIOUS
    <3>1. k + 1 \in 1 .. n /\ seqs[k + 1] = Response(k + 1)
      BY <1>3
    <3>2. f[k + 1] = IF k + 1 = 1 THEN seqs[k + 1] ELSE f[(k + 1) - 1] \o seqs[k + 1]
      BY <2>1, <3>1
    <3>3. CASE k = 0
      <4>1. f[k + 1] = <<>> \o Response(k + 1)
        <5>1. Response(k + 1) \in Seq(Token)
          BY <1>1, <3>1, ResponseOf
        <5> QED
          BY <3>1, <3>2, <3>3, <5>1, ConcatEmptySeq
      <4> QED
        BY <1>1, <3>3, <4>1, PlacedNone, PlacedNext
    <3>4. CASE k # 0
      <4>1. PICK start : Placed(f[k], k, start)
        BY <2>2, <3>4
      <4>2. f[k + 1] = f[k] \o Response(k + 1)
        <5>1. k + 1 # 1 /\ (k + 1) - 1 = k
          BY <3>4
        <5> QED
          BY <3>1, <3>2, <5>1
      <4> QED
        BY <1>1, <4>1, <4>2, PlacedNext
    <3> QED
      BY <3>3, <3>4
  <2>3. 0 \in T
    OBVIOUS
  <2> HIDE DEF T
  <2>4. n \in T
    BY <2>2, <2>3, Induction
  <2>5. ~(n > n)
    OBVIOUS
  <2>6. \E start : Placed(f[n], n, start)
    BY <1>6, <2>4, <2>5 DEF T
  <2> QED
    BY <1>1, <2>1, <2>6
<1> QED
  BY <1>5, <1>6
-----------------------------------------------------------------------------
Begin == CHOOSE start : Placed(Stream, Len(Responses), start)

(* After at tokens of the stream, what has come and what is to come. *)
Suffix(at, buf, inc) ==
    /\ buf \in Seq(Token) /\ inc \in Seq(Token)
    /\ at + Len(buf) + Len(inc) = Len(Stream)
    /\ \A k \in 1 .. Len(buf) : buf[k] = Stream[at + k]
    /\ \A k \in 1 .. Len(inc) : inc[k] = Stream[at + Len(buf) + k]

(* Where forwardToClient_ is in the stream, and what it has given. *)
Told(at, pc, n, p, given, part) ==
    /\ n \in Nat /\ p \in Packet /\ given \in Seq(Packet) /\ part \in SUBSET Nat
    /\ \A k \in 1 .. Len(given) : \/ given[k] = [of |-> k, whole |-> TRUE]
                                  \/ \E i \in part : i <= given[k].of
    /\ p.of # 0 => Begin[p.of] <= at
    /\ \A i \in part : i <= p.of
    /\ part = {} => LET next == Len(given) + 1 IN
          /\ pc = "head" => next <= Len(Responses) + 1 /\ at + 1 = Begin[next]
          /\ pc = "body" => /\ next <= Len(Responses) /\ p = [of |-> next, whole |-> TRUE]
                            /\ n = Responses[next] /\ at = Begin[next]
          /\ pc = "write" => /\ next <= Len(Responses) /\ p = [of |-> next, whole |-> TRUE]
                             /\ at + 1 = Begin[next + 1]

DataTypeOK ==
    /\ incoming \in [Conn -> Seq(Token)] /\ buffer \in [Conn -> Seq(Token)]
    /\ need \in [Conn -> Nat] /\ packet \in [Conn -> Packet]
    /\ toClient \in [Conn -> Seq(Packet)] /\ parted \in [Conn -> SUBSET Nat]

Flow(c) == \E at \in Nat : /\ Suffix(at, buffer[c], incoming[c])
                           /\ Told(at, thread[c]["client"], need[c], packet[c], toClient[c], parted[c])

NotYet(c) ==
    phase[c] # "session" =>
       /\ "server" \notin open[c]
       /\ incoming[c] = Stream /\ buffer[c] = <<>> /\ packet[c] = NoPacket
       /\ toClient[c] = <<>> /\ parted[c] = {}

DataInv == DataTypeOK /\ \A c \in Conn : Flow(c) /\ NotYet(c)

(* Begin is such a function. *)
LEMMA BeginPlaced == Placed(Stream, Len(Responses), Begin)
BY StreamPlaced DEF Begin

(* What is used of it. *)
LEMMA Beginnings ==
    /\ Len(Responses) \in Nat /\ Stream \in Seq(Token) /\ Len(Stream) \in Nat
    /\ Begin[1] = 1 /\ Begin[Len(Responses) + 1] = Len(Stream) + 1
    /\ \A i \in 1 .. Len(Responses) + 1 : Begin[i] \in Nat /\ Begin[i] <= Len(Stream) + 1
    /\ \A i \in 1 .. Len(Responses) : /\ Begin[i + 1] = Begin[i] + 1 + Responses[i] /\ Responses[i] \in Nat
                                      /\ Begin[i] \in 1 .. Len(Stream) /\ Stream[Begin[i]] = Headers(i)
                                      /\ \A b \in 1 .. Responses[i] : Stream[Begin[i] + b] = Byte(i)
    /\ \A i, j \in 1 .. Len(Responses) + 1 : i <= j => Begin[i] <= Begin[j]
    /\ \A m \in 1 .. Len(Stream) : Stream[m][2] = "head" => \E i \in 1 .. Len(Responses) : m = Begin[i]
<1>1. PICK n \in Nat : n = Len(Responses)
  BY ResponsesAssumption
<1>2. /\ Stream \in Seq(Token) /\ Begin \in [1 .. n + 1 -> Nat]
      /\ Begin[1] = 1 /\ Begin[n + 1] = Len(Stream) + 1
      /\ \A i \in 1 .. n : /\ Begin[i + 1] = Begin[i] + 1 + Responses[i] /\ Stream[Begin[i]] = Headers(i)
                           /\ \A b \in 1 .. Responses[i] : Stream[Begin[i] + b] = Byte(i)
      /\ \A i, j \in 1 .. n + 1 : i <= j => Begin[i] <= Begin[j]
      /\ \A m \in 1 .. Len(Stream) : Stream[m][2] = "head" => \E i \in 1 .. n : m = Begin[i]
  BY <1>1, BeginPlaced DEF Placed
<1>3. PICK len \in Nat : len = Len(Stream)
  BY <1>2
<1>4. \A i \in 1 .. n + 1 : Begin[i] \in Nat /\ 1 <= Begin[i] /\ Begin[i] <= len + 1
  <2>1. \A i \in 1 .. n + 1 : 1 <= i /\ i <= n + 1 /\ 1 \in 1 .. n + 1 /\ n + 1 \in 1 .. n + 1
    OBVIOUS
  <2> QED
    BY <1>2, <1>3, <2>1
<1>5. \A i \in 1 .. n : Responses[i] \in Nat /\ Begin[i] \in 1 .. len
  <2> SUFFICES ASSUME NEW i \in 1 .. n
               PROVE  Responses[i] \in Nat /\ Begin[i] \in 1 .. len
    OBVIOUS
  <2>1. Responses[i] \in Nat
    BY <1>1, ResponseOf
  <2>2. i \in 1 .. n + 1 /\ i + 1 \in 1 .. n + 1
    OBVIOUS
  <2>3. Begin[i + 1] = Begin[i] + 1 + Responses[i]
    BY <1>2
  <2>4. Begin[i] \in Nat /\ 1 <= Begin[i] /\ Begin[i + 1] <= len + 1
    BY <1>4, <2>2
  <2> QED
    BY <2>1, <2>3, <2>4
<1> QED
  BY <1>1, <1>2, <1>3, <1>4, <1>5

(* The https server writes. *)
LEMMA ArrivedSuffix ==
    ASSUME NEW at \in Nat, NEW buf, NEW inc, Suffix(at, buf, inc), NEW n \in 1 .. Len(inc)
    PROVE  Suffix(at, buf \o SubSeq(inc, 1, n), SubSeq(inc, n + 1, Len(inc)))
<1>1. /\ buf \in Seq(Token) /\ inc \in Seq(Token) /\ at + Len(buf) + Len(inc) = Len(Stream)
      /\ \A k \in 1 .. Len(buf) : buf[k] = Stream[at + k]
      /\ \A k \in 1 .. Len(inc) : inc[k] = Stream[at + Len(buf) + k]
  BY DEF Suffix
<1>2. PICK b \in Nat, l \in Nat : b = Len(buf) /\ l = Len(inc)
  BY <1>1
<1> DEFINE some == SubSeq(inc, 1, n)
           rest == SubSeq(inc, n + 1, Len(inc))
           more == buf \o some
<1>3. n \in 1 .. l
  BY <1>2
<1>4. some \in Seq(Token) /\ Len(some) = n /\ \A k \in 1 .. n : some[k] = inc[k]
  <2>1. 1 \in 1 .. Len(inc) + 1 /\ n \in 0 .. Len(inc)
    BY <1>2, <1>3
  <2> QED
    BY <1>1, <1>2, <1>3, <2>1, SubSeqProperties
<1>5. rest \in Seq(Token) /\ Len(rest) = l - n /\ \A k \in 1 .. l - n : rest[k] = inc[n + k]
  <2>1. rest \in Seq(Token) /\ Len(rest) = IF n + 1 <= l THEN l - (n + 1) + 1 ELSE 0
    BY <1>1, <1>2, <1>3, SubSeqProperties
  <2>2. \A k \in 1 .. l - (n + 1) + 1 : rest[k] = inc[(n + 1) + k - 1]
    BY <1>1, <1>2, <1>3, SubSeqProperties
  <2>3. \A k \in 1 .. l - n : (n + 1) + k - 1 = n + k /\ k \in 1 .. l - (n + 1) + 1
    BY <1>3
  <2> QED
    BY <1>3, <2>1, <2>2, <2>3
<1> HIDE DEF some, rest
<1>6. /\ more \in Seq(Token) /\ Len(more) = b + n
      /\ \A k \in 1 .. b + n : more[k] = IF k <= b THEN buf[k] ELSE some[k - b]
  <2>1. /\ more \in Seq(Token) /\ Len(more) = Len(buf) + Len(some)
        /\ \A k \in 1 .. Len(buf) + Len(some) :
              more[k] = IF k <= Len(buf) THEN buf[k] ELSE some[k - Len(buf)]
    <3>1. buf \in Seq(Token) /\ some \in Seq(Token)
      BY <1>1, <1>4
    <3> QED
      BY ONLY <3>1, ConcatProperties
  <2> HIDE DEF more
  <2> QED
    BY <1>2, <1>4, <2>1
<1> HIDE DEF more
<1>7. at + Len(more) + Len(rest) = Len(Stream)
  <2>1. at + b + l = at + (b + n) + (l - n)
    BY <1>3
  <2> QED
    BY <1>1, <1>2, <1>5, <1>6, <2>1
<1>8. ASSUME NEW k \in 1 .. b + n PROVE more[k] = Stream[at + k]
  <2>1. CASE k <= b
    BY <1>1, <1>2, <1>6, <2>1
  <2>2. CASE ~(k <= b)
    <3>1. k - b \in 1 .. n /\ k - b \in 1 .. l /\ at + b + (k - b) = at + k
      BY <1>3, <2>2
    <3>2. more[k] = inc[k - b]
      BY <1>4, <1>6, <2>2, <3>1
    <3> QED
      BY <1>1, <1>2, <3>1, <3>2
  <2> QED
    BY <2>1, <2>2
<1>9. ASSUME NEW k \in 1 .. l - n PROVE rest[k] = Stream[at + (b + n) + k]
  <2>1. n + k \in 1 .. l /\ at + b + (n + k) = at + (b + n) + k
    BY <1>3
  <2> QED
    BY <1>1, <1>2, <1>5, <2>1
<1> QED
  BY <1>5, <1>6, <1>7, <1>8, <1>9 DEF Suffix, more, some, rest

(* forwardToClient_ reads. *)
LEMMA TakenSuffix ==
    ASSUME NEW at \in Nat, NEW buf, NEW inc, Suffix(at, buf, inc), NEW n \in 1 .. Len(buf)
    PROVE  Suffix(at + n, SubSeq(buf, n + 1, Len(buf)), inc)
<1>1. /\ buf \in Seq(Token) /\ inc \in Seq(Token) /\ at + Len(buf) + Len(inc) = Len(Stream)
      /\ \A k \in 1 .. Len(buf) : buf[k] = Stream[at + k]
      /\ \A k \in 1 .. Len(inc) : inc[k] = Stream[at + Len(buf) + k]
  BY DEF Suffix
<1>2. PICK b \in Nat, l \in Nat : b = Len(buf) /\ l = Len(inc)
  BY <1>1
<1> DEFINE rest == SubSeq(buf, n + 1, Len(buf))
<1>3. n \in 1 .. b
  BY <1>2
<1>4. rest \in Seq(Token) /\ Len(rest) = b - n /\ \A k \in 1 .. b - n : rest[k] = buf[n + k]
  <2>1. rest \in Seq(Token) /\ Len(rest) = IF n + 1 <= b THEN b - (n + 1) + 1 ELSE 0
    BY <1>1, <1>2, <1>3, SubSeqProperties
  <2>2. \A k \in 1 .. b - (n + 1) + 1 : rest[k] = buf[(n + 1) + k - 1]
    BY <1>1, <1>2, <1>3, SubSeqProperties
  <2>3. \A k \in 1 .. b - n : (n + 1) + k - 1 = n + k /\ k \in 1 .. b - (n + 1) + 1
    BY <1>3
  <2> QED
    BY <1>3, <2>1, <2>2, <2>3
<1> HIDE DEF rest
<1>5. (at + n) + Len(rest) + Len(inc) = Len(Stream)
  <2>1. at + b + l = (at + n) + (b - n) + l
    BY <1>3
  <2> QED
    BY <1>1, <1>2, <1>4, <2>1
<1>6. ASSUME NEW k \in 1 .. b - n PROVE rest[k] = Stream[(at + n) + k]
  <2>1. n + k \in 1 .. b /\ at + (n + k) = (at + n) + k
    BY <1>3
  <2> QED
    BY <1>1, <1>2, <1>4, <2>1
<1>7. ASSUME NEW k \in 1 .. l PROVE inc[k] = Stream[(at + n) + (b - n) + k]
  <2>1. at + b + k = (at + n) + (b - n) + k
    BY <1>3
  <2> QED
    BY <1>1, <1>2, <2>1
<1> QED
  BY <1>1, <1>2, <1>4, <1>5, <1>6, <1>7 DEF Suffix, rest

(* The headers of the next response are read, and what is left before them. *)
LEMMA HeadRead ==
    ASSUME NEW at \in Nat, NEW buf, NEW inc, Suffix(at, buf, inc), NEW n \in 1 .. Len(buf),
           buf[n][2] = "head", \A m \in 1 .. Len(buf) : buf[m][2] = "head" => n <= m,
           NEW size, NEW p, NEW given, NEW part, Told(at, "head", size, p, given, part)
    PROVE  /\ buf[n][1] \in 1 .. Len(Responses)
           /\ Told(at + n, "body", Responses[buf[n][1]], [of |-> buf[n][1], whole |-> n = 1], given, part)
<1>1. PICK b \in Nat, l \in Nat, len \in Nat : b = Len(buf) /\ l = Len(inc) /\ len = Len(Stream)
  BY Beginnings DEF Suffix
<1>2. PICK last \in Nat : last = Len(Responses)
  BY Beginnings
<1>3. at + b + l = len /\ n \in 1 .. b /\ \A k \in 1 .. b : buf[k] = Stream[at + k] /\ at + k \in 1 .. len
  <2>1. at + b + l = len /\ n \in 1 .. b /\ \A k \in 1 .. b : buf[k] = Stream[at + k]
    BY <1>1 DEF Suffix
  <2> QED
    BY <2>1
<1>4. PICK i \in 1 .. last : at + n = Begin[i]
  BY <1>1, <1>2, <1>3, Beginnings
<1>5. buf[n] = <<i, "head">> /\ buf[n][1] = i
  <2>1. Stream[Begin[i]] = Headers(i)
    BY <1>2, Beginnings
  <2>2. buf[n] = Stream[at + n]
    BY <1>3
  <2> QED
    BY <1>4, <2>1, <2>2 DEF Headers
<1>6. Responses[i] \in Nat /\ [of |-> i, whole |-> n = 1] \in Packet
  <2>1. Responses[i] \in Nat /\ i \in 0 .. Len(Responses)
    BY <1>2, Beginnings
  <2>2. (n = 1) \in BOOLEAN
    OBVIOUS
  <2> QED
    BY <2>1, <2>2 DEF Packet
<1>7. /\ p \in Packet /\ given \in Seq(Packet) /\ part \in SUBSET Nat
      /\ \A k \in 1 .. Len(given) : \/ given[k] = [of |-> k, whole |-> TRUE]
                                    \/ \E j \in part : j <= given[k].of
      /\ p.of # 0 => Begin[p.of] <= at
      /\ \A j \in part : j <= p.of
      /\ part = {} => Len(given) + 1 <= last + 1 /\ at + 1 = Begin[Len(given) + 1]
  BY <1>2 DEF Told
<1>8. \A j \in part : j <= i
  <2>1. p.of \in Nat /\ p.of <= last
    BY <1>2, <1>7 DEF Packet
  <2>2. p.of <= i
    <3> SUFFICES ASSUME ~(p.of <= i) PROVE FALSE
      OBVIOUS
    <3>1. p.of # 0 /\ i <= p.of /\ p.of \in 1 .. last + 1 /\ i \in 1 .. last + 1
      BY <2>1
    <3>2. Begin[i] <= Begin[p.of] /\ Begin[p.of] \in Nat
      BY <1>2, <3>1, Beginnings
    <3> QED
      BY <1>3, <1>4, <1>7, <3>1, <3>2
  <2>3. \A j \in part : j \in Nat /\ j <= p.of
    BY <1>7
  <2> QED
    BY <2>1, <2>2, <2>3
<1>9. ASSUME part = {}
      PROVE  Len(given) + 1 = i /\ n = 1
  <2>1. PICK next \in Nat : next = Len(given) + 1 /\ next >= 1
    BY <1>7
  <2>2. next <= last + 1 /\ at + 1 = Begin[next]
    BY <1>7, <1>9, <2>1
  <2>3. at + 1 \in 1 .. len /\ 1 \in 1 .. b
    BY <1>3
  <2>4. next \in 1 .. last
    <3>1. next # last + 1
      BY <1>1, <1>2, <2>2, <2>3, Beginnings
    <3> QED
      BY <2>1, <2>2, <3>1
  <2>5. buf[1] = <<next, "head">>
    BY <1>2, <1>3, <2>2, <2>3, <2>4, Beginnings DEF Headers
  <2>6. n <= 1
    BY <1>1, <2>3, <2>5
  <2>7. n = 1
    BY <1>3, <2>6
  <2> QED
    BY <1>5, <2>1, <2>5, <2>7
<1>10. Told(at + n, "body", Responses[i], [of |-> i, whole |-> n = 1], given, part)
  <2>1. part = {} => /\ Len(given) + 1 <= last /\ [of |-> i, whole |-> n = 1] = [of |-> Len(given) + 1, whole |-> TRUE]
                     /\ Responses[i] = Responses[Len(given) + 1] /\ at + n = Begin[Len(given) + 1]
    <3> SUFFICES ASSUME part = {}
                 PROVE  /\ Len(given) + 1 <= last /\ [of |-> i, whole |-> n = 1] = [of |-> Len(given) + 1, whole |-> TRUE]
                        /\ Responses[i] = Responses[Len(given) + 1] /\ at + n = Begin[Len(given) + 1]
      OBVIOUS
    <3>1. Len(given) + 1 = i /\ (n = 1) = TRUE /\ i <= last
      BY <1>9
    <3> QED
      BY <1>4, <3>1
  <2>2. [of |-> i, whole |-> n = 1].of = i /\ Begin[i] <= at + n
    BY <1>3, <1>4
  <2> QED
    BY <1>2, <1>6, <1>7, <1>8, <2>1, <2>2 DEF Told
<1> QED
  BY <1>2, <1>5, <1>10

(* The packet after one read of the body: all of it, or a part. *)
BodyOf(p, n, size, buf) ==
    [p EXCEPT !.whole = @ /\ n = size /\ \A b \in 1 .. n : buf[b] = Byte(p.of)]

(* A read that gets all of it leaves the next response in front. *)
LEMMA BodyRead ==
    ASSUME NEW at \in Nat, NEW buf, NEW inc, Suffix(at, buf, inc), NEW n \in 1 .. Len(buf),
           NEW size, n <= size, NEW p, NEW given, NEW part, Told(at, "body", size, p, given, part)
    PROVE  Told(at + n, "write", size, BodyOf(p, n, size, buf), given,
                IF n < size THEN part \cup {p.of} ELSE part)
<1>1. PICK b \in Nat, l \in Nat : b = Len(buf) /\ l = Len(inc)
  BY DEF Suffix
<1>2. n \in 1 .. b /\ \A k \in 1 .. n : buf[k] = Stream[at + k]
  <2>1. \A k \in 1 .. b : buf[k] = Stream[at + k]
    BY <1>1 DEF Suffix
  <2> QED
    BY <1>1, <2>1
<1>3. /\ size \in Nat /\ p \in Packet /\ given \in Seq(Packet) /\ part \in SUBSET Nat
      /\ \A k \in 1 .. Len(given) : \/ given[k] = [of |-> k, whole |-> TRUE]
                                    \/ \E j \in part : j <= given[k].of
      /\ p.of # 0 => Begin[p.of] <= at
      /\ \A j \in part : j <= p.of
      /\ part = {} => /\ Len(given) + 1 <= Len(Responses) /\ p = [of |-> Len(given) + 1, whole |-> TRUE]
                      /\ size = Responses[Len(given) + 1] /\ at = Begin[Len(given) + 1]
  BY DEF Told
<1> DEFINE q == BodyOf(p, n, size, buf)
           left == IF n < size THEN part \cup {p.of} ELSE part
<1>4. p.of \in 0 .. Len(Responses) /\ p.of \in Nat
  <2>1. p.of \in 0 .. Len(Responses)
    BY <1>3 DEF Packet
  <2> QED
    BY <2>1
<1>5. q \in Packet /\ q.of = p.of
  <2>1. p = [of |-> p.of, whole |-> p.whole]
    BY <1>3 DEF Packet
  <2>2. q = [of |-> p.of, whole |-> p.whole /\ n = size /\ \A k \in 1 .. n : buf[k] = Byte(p.of)]
    BY <2>1 DEF BodyOf
  <2> HIDE DEF q
  <2>3. q.of = p.of
    BY <2>2
  <2>4. (p.whole /\ n = size /\ \A k \in 1 .. n : buf[k] = Byte(p.of)) \in BOOLEAN
    OBVIOUS
  <2>5. q \in Packet
    BY <1>4, <2>2, <2>4 DEF Packet
  <2> QED
    BY <2>3, <2>5
<1>6. /\ left \in SUBSET Nat /\ part \subseteq left /\ \A j \in left : j <= p.of
  <2>1. part \subseteq Nat /\ \A j \in part : j <= p.of
    BY <1>3
  <2>2. p.of <= p.of
    BY <1>4
  <2>3. left = part \/ left = part \cup {p.of}
    OBVIOUS
  <2> HIDE DEF left
  <2> QED
    BY <1>4, <2>1, <2>2, <2>3
<1>7. ASSUME left = {}
      PROVE  /\ part = {} /\ n = size /\ Len(given) + 1 <= Len(Responses)
             /\ q = [of |-> Len(given) + 1, whole |-> TRUE]
             /\ at + n + 1 = Begin[(Len(given) + 1) + 1]
  <2>1. part = {} /\ ~(n < size)
    BY <1>7
  <2>2. n = size
    BY <1>2, <1>3, <2>1
  <2>3. PICK next \in 1 .. Len(Responses) : next = Len(given) + 1
    <3>1. Len(given) + 1 \in 1 .. Len(Responses)
      BY <1>3, <2>1, Beginnings
    <3> QED
      BY <3>1
  <2>4. p = [of |-> next, whole |-> TRUE] /\ size = Responses[next] /\ at = Begin[next]
    BY <1>3, <2>1, <2>3
  <2>5. \A k \in 1 .. n : buf[k] = Byte(p.of)
    BY <1>2, <2>2, <2>4, Beginnings
  <2>6. q = [of |-> next, whole |-> TRUE]
    <3>1. p.whole = TRUE /\ p.of = next
      BY <2>4
    <3>2. q = [p EXCEPT !.whole = TRUE]
      BY <2>2, <2>5, <3>1 DEF BodyOf
    <3> HIDE DEF q
    <3> QED
      BY <2>4, <3>2
  <2>7. at + n + 1 = Begin[next + 1]
    <3>1. Begin[next + 1] = Begin[next] + 1 + Responses[next]
      BY Beginnings
    <3>2. at + n + 1 = at + 1 + n
      BY <1>2
    <3> QED
      BY <2>2, <2>4, <3>1, <3>2
  <2> HIDE DEF q
  <2> QED
    BY <1>3, <2>1, <2>2, <2>3, <2>6, <2>7
<1> HIDE DEF q, left
<1>8. \A k \in 1 .. Len(given) : \/ given[k] = [of |-> k, whole |-> TRUE]
                                 \/ \E j \in left : j <= given[k].of
  BY <1>3, <1>6
<1>9. q.of # 0 => Begin[q.of] <= at + n
  <2>1. ASSUME p.of # 0 PROVE Begin[p.of] <= at + n
    <3>1. Begin[p.of] \in Nat /\ Begin[p.of] <= at
      <4>1. p.of \in 1 .. Len(Responses) + 1
        BY <1>4, <2>1, Beginnings
      <4> QED
        BY <1>3, <2>1, <4>1, Beginnings
    <3> QED
      BY <1>2, <3>1
  <2> QED
    BY <1>5, <2>1
<1>10. Told(at + n, "write", size, q, given, left)
  BY <1>3, <1>5, <1>6, <1>7, <1>8, <1>9 DEF Told
<1> QED
  BY <1>10 DEF q, left

(* The packet is given to the client. *)
LEMMA Written ==
    ASSUME NEW at \in Nat, NEW size, NEW p, NEW given, NEW part, Told(at, "write", size, p, given, part)
    PROVE  Told(at, "head", size, p, Append(given, p), part)
<1>1. /\ size \in Nat /\ p \in Packet /\ given \in Seq(Packet) /\ part \in SUBSET Nat
      /\ \A k \in 1 .. Len(given) : \/ given[k] = [of |-> k, whole |-> TRUE]
                                    \/ \E j \in part : j <= given[k].of
      /\ p.of # 0 => Begin[p.of] <= at
      /\ \A j \in part : j <= p.of
      /\ part = {} => /\ Len(given) + 1 <= Len(Responses) /\ p = [of |-> Len(given) + 1, whole |-> TRUE]
                      /\ at + 1 = Begin[(Len(given) + 1) + 1]
  BY DEF Told
<1>2. PICK n \in Nat : n = Len(given)
  BY <1>1
<1> DEFINE more == Append(given, p)
<1>3. /\ more \in Seq(Packet) /\ Len(more) = n + 1 /\ more[n + 1] = p
      /\ \A k \in 1 .. n : more[k] = given[k]
  BY <1>1, <1>2
<1> HIDE DEF more
<1>4. ASSUME NEW k \in 1 .. n + 1
      PROVE  more[k] = [of |-> k, whole |-> TRUE] \/ \E j \in part : j <= more[k].of
  <2>1. CASE k \in 1 .. n
    BY <1>1, <1>2, <1>3, <2>1
  <2>2. CASE k = n + 1 /\ part = {}
    BY <1>1, <1>2, <1>3, <2>2
  <2>3. CASE k = n + 1 /\ part # {}
    <3>1. more[k] = p
      BY <1>3, <2>3
    <3> QED
      BY <1>1, <2>3, <3>1
  <2>4. k \in 1 .. n \/ k = n + 1
    OBVIOUS
  <2> QED
    BY <2>1, <2>2, <2>3, <2>4
<1>5. part = {} => Len(more) + 1 <= Len(Responses) + 1 /\ at + 1 = Begin[Len(more) + 1]
  <2> SUFFICES ASSUME part = {} PROVE Len(more) + 1 <= Len(Responses) + 1 /\ at + 1 = Begin[Len(more) + 1]
    OBVIOUS
  <2>1. n + 1 <= Len(Responses) /\ at + 1 = Begin[(n + 1) + 1]
    BY <1>1, <1>2
  <2> QED
    BY <1>3, <2>1, Beginnings
<1>6. Told(at, "head", size, p, more, part)
  BY <1>1, <1>3, <1>4, <1>5 DEF Told
<1> QED
  BY <1>6 DEF more

(* Wherever else the thread goes it has nothing in its hands. *)
LEMMA ToldElsewhere ==
    ASSUME NEW at \in Nat, NEW pc, NEW size, NEW p, NEW given, NEW part, Told(at, pc, size, p, given, part),
           NEW new, new \notin {"head", "body", "write"}
    PROVE  Told(at, new, size, p, given, part)
BY DEF Told
-----------------------------------------------------------------------------
(* Before a connection there is nothing of it. *)
LEMMA InitData == Init => DataInv
<1> SUFFICES ASSUME Init PROVE DataInv
  OBVIOUS
<1>1. Stream \in Seq(Token) /\ Len(Stream) \in Nat /\ Len(Responses) \in Nat
  BY Beginnings
<1>2. <<>> \in Seq(Token) /\ <<>> \in Seq(Packet) /\ Len(<<>>) = 0 /\ {} \in SUBSET Nat
  OBVIOUS
<1>3. NoPacket \in Packet /\ NoPacket.of = 0
  BY <1>1 DEF NoPacket, Packet
<1>4. DataTypeOK
  BY <1>1, <1>2, <1>3 DEF Init, DataTypeOK
<1>5. Suffix(0, <<>>, Stream)
  <2>1. 0 + 0 + Len(Stream) = Len(Stream) /\ \A k \in 1 .. Len(Stream) : 0 + 0 + k = k
    BY <1>1
  <2> QED
    BY <1>1, <1>2, <2>1 DEF Suffix
<1>6. Told(0, "none", 0, NoPacket, <<>>, {})
  BY <1>2, <1>3 DEF Told
<1>7. ASSUME NEW c \in Conn PROVE Flow(c) /\ NotYet(c)
  <2>1. /\ incoming[c] = Stream /\ buffer[c] = <<>> /\ need[c] = 0 /\ packet[c] = NoPacket
        /\ toClient[c] = <<>> /\ parted[c] = {} /\ thread[c]["client"] = "none" /\ open[c] = {}
    BY DEF Init, Thread, Forwarder
  <2> QED
    BY <1>5, <1>6, <2>1 DEF Flow, NotYet
<1> QED
  BY <1>4, <1>7 DEF DataInv

(* Steps that move nothing; where a thread begins, nothing has moved yet. *)
LEMMA FrameData ==
    ASSUME DataInv, UNCHANGED data,
           \A c \in Conn : thread'[c]["client"] \in {thread[c]["client"]} \cup {"ended", "release", "unwind", "gone"},
           \A c \in Conn : phase'[c] # "session" =>
               phase[c] # "session" /\ ("server" \in open'[c] => "server" \in open[c])
    PROVE  DataInv'
<1>1. DataTypeOK'
  BY DEF DataInv, DataTypeOK, data
<1>2. ASSUME NEW c \in Conn PROVE Flow(c)'
  <2>1. PICK at \in Nat : /\ Suffix(at, buffer[c], incoming[c])
                          /\ Told(at, thread[c]["client"], need[c], packet[c], toClient[c], parted[c])
    BY DEF DataInv, Flow
  <2>2. Told(at, thread'[c]["client"], need[c], packet[c], toClient[c], parted[c])
    <3>1. CASE thread'[c]["client"] = thread[c]["client"]
      BY <2>1, <3>1
    <3>2. CASE thread'[c]["client"] \in {"ended", "release", "unwind", "gone"}
      <4>1. thread'[c]["client"] \notin {"head", "body", "write"}
        BY <3>2
      <4> QED
        BY <2>1, <4>1, ToldElsewhere
    <3> QED
      BY <3>1, <3>2
  <2> QED
    BY <2>1, <2>2 DEF Flow, data
<1>3. ASSUME NEW c \in Conn PROVE NotYet(c)'
  BY DEF DataInv, NotYet, data
<1> QED
  BY <1>1, <1>2, <1>3 DEF DataInv

(* Steps that move something on one connection. *)
LEMMA OneFlow ==
    ASSUME DataInv, NEW c \in Conn, phase[c] = "session", UNCHANGED <<phase, open>>,
           NEW at \in Nat, NEW buf, NEW inc, NEW pc, NEW size, NEW p, NEW given, NEW part,
           Suffix(at, buf, inc), Told(at, pc, size, p, given, part),
           incoming' = [incoming EXCEPT ![c] = inc], buffer' = [buffer EXCEPT ![c] = buf],
           need' = [need EXCEPT ![c] = size], packet' = [packet EXCEPT ![c] = p],
           toClient' = [toClient EXCEPT ![c] = given], parted' = [parted EXCEPT ![c] = part],
           thread'[c]["client"] = pc,
           \A d \in Conn \ {c} : thread'[d]["client"] = thread[d]["client"]
    PROVE  DataInv'
<1>1. /\ buf \in Seq(Token) /\ inc \in Seq(Token) /\ size \in Nat /\ p \in Packet
      /\ given \in Seq(Packet) /\ part \in SUBSET Nat
  BY DEF Suffix, Told
<1>2. DataTypeOK
  BY DEF DataInv
<1>3. DataTypeOK'
  BY <1>1, <1>2 DEF DataTypeOK
<1>4. /\ incoming'[c] = inc /\ buffer'[c] = buf /\ need'[c] = size /\ packet'[c] = p
      /\ toClient'[c] = given /\ parted'[c] = part
  BY <1>2 DEF DataTypeOK
<1>5. \A d \in Conn \ {c} :
         /\ incoming'[d] = incoming[d] /\ buffer'[d] = buffer[d] /\ need'[d] = need[d] /\ packet'[d] = packet[d]
         /\ toClient'[d] = toClient[d] /\ parted'[d] = parted[d]
  BY <1>2 DEF DataTypeOK
<1>6. Flow(c)'
  BY <1>4 DEF Flow
<1>7. ASSUME NEW d \in Conn \ {c} PROVE Flow(d)'
  <2>1. PICK then \in Nat : /\ Suffix(then, buffer[d], incoming[d])
                            /\ Told(then, thread[d]["client"], need[d], packet[d], toClient[d], parted[d])
    BY DEF DataInv, Flow
  <2> QED
    BY <1>5, <2>1 DEF Flow
<1>8. ASSUME NEW d \in Conn PROVE NotYet(d)'
  <2>1. CASE d = c
    BY <2>1 DEF NotYet
  <2>2. CASE d # c
    <3>1. NotYet(d)
      BY DEF DataInv
    <3> QED
      BY <1>5, <2>2, <3>1 DEF NotYet
  <2> QED
    BY <2>1, <2>2
<1> QED
  BY <1>3, <1>6, <1>7, <1>8 DEF DataInv

(* A thread that calls has a session. *)
LEMMA CallsInSession ==
    ASSUME IInv, NEW c \in Conn, thread[c]["client"] \in {"head", "body", "write"}
    PROVE  phase[c] = "session"
<1>1. "client" \in Thread /\ "socket" \in Object /\ thread[c]["client"] \in Working
  BY DEF Thread, Forwarder, Object, Working, Calls
<1>2. "client" \in holders[c]["socket"]
  BY <1>1 DEF IInv, WorkersHold
<1> QED
  BY <1>1, <1>2 DEF IInv, NothingBefore

(* A step of forwardToClient_ is one of no other connection. *)
LEMMA ClientMoves ==
    ASSUME IInv, NEW c \in Conn, NEW pc, Step(c, "client", pc)
    PROVE  /\ thread'[c]["client"] = pc
           /\ \A d \in Conn \ {c} : thread'[d]["client"] = thread[d]["client"]
BY DEF IInv, TypeOK, Step, Thread, Forwarder

(* What does not change on a connection. *)
LEMMA SameData ==
    ASSUME DataTypeOK, NEW c \in Conn
    PROVE  /\ incoming = [incoming EXCEPT ![c] = incoming[c]] /\ buffer = [buffer EXCEPT ![c] = buffer[c]]
           /\ need = [need EXCEPT ![c] = need[c]] /\ packet = [packet EXCEPT ![c] = packet[c]]
           /\ toClient = [toClient EXCEPT ![c] = toClient[c]] /\ parted = [parted EXCEPT ![c] = parted[c]]
BY DEF DataTypeOK

(* The https server writes to a connection that has been made. *)
LEMMA ArriveData ==
    ASSUME IInv, DataInv, NEW c \in Conn, Arrive(c)
    PROVE  DataInv'
<1>1. DataTypeOK /\ Flow(c) /\ NotYet(c)
  BY DEF DataInv
<1>2. phase[c] = "session"
  BY <1>1 DEF NotYet, Arrive
<1>3. PICK n \in 1 .. Len(incoming[c]) :
         /\ buffer' = [buffer EXCEPT ![c] = buffer[c] \o SubSeq(incoming[c], 1, n)]
         /\ incoming' = [incoming EXCEPT ![c] = SubSeq(incoming[c], n + 1, Len(incoming[c]))]
  BY DEF Arrive
<1>4. PICK at \in Nat : /\ Suffix(at, buffer[c], incoming[c])
                        /\ Told(at, thread[c]["client"], need[c], packet[c], toClient[c], parted[c])
  BY <1>1 DEF Flow
<1>5. Suffix(at, buffer[c] \o SubSeq(incoming[c], 1, n), SubSeq(incoming[c], n + 1, Len(incoming[c])))
  BY <1>4, ArrivedSuffix
<1>6. UNCHANGED <<thread, phase, open, need, packet, toClient, parted>>
  BY DEF Arrive, runner
<1>7. /\ need' = [need EXCEPT ![c] = need[c]] /\ packet' = [packet EXCEPT ![c] = packet[c]]
      /\ toClient' = [toClient EXCEPT ![c] = toClient[c]] /\ parted' = [parted EXCEPT ![c] = parted[c]]
  BY <1>1, <1>6, SameData
<1>8. /\ thread'[c]["client"] = thread[c]["client"]
      /\ \A d \in Conn \ {c} : thread'[d]["client"] = thread[d]["client"]
  BY <1>6
<1>9. UNCHANGED <<phase, open>>
  BY <1>6
<1> QED
  BY <1>2, <1>3, <1>4, <1>5, <1>7, <1>8, <1>9, OneFlow, Zenon

(* HttpPacketReader::readPacket, up to the headers. *)
LEMMA ReadHeadData ==
    ASSUME IInv, DataInv, NEW c \in Conn, ReadHead(c)
    PROVE  DataInv'
<1>1. DataTypeOK /\ Flow(c)
  BY DEF DataInv
<1>2. thread[c]["client"] = "head" /\ HeadAt(c) # {}
  BY DEF ReadHead
<1>3. phase[c] = "session"
  BY <1>2, CallsInSession
<1>4. PICK n \in HeadAt(c) : n = FirstHead(c) /\ \A m \in HeadAt(c) : n <= m
  <2>1. HeadAt(c) \subseteq Nat
    BY DEF HeadAt
  <2>2. \E m \in HeadAt(c) : \A k \in HeadAt(c) : m <= k
    BY <1>2, <2>1, Least
  <2> QED
    BY <2>2 DEF FirstHead
<1>5. /\ n \in 1 .. Len(buffer[c]) /\ buffer[c][n][2] = "head"
      /\ \A m \in 1 .. Len(buffer[c]) : buffer[c][m][2] = "head" => n <= m
  BY <1>4 DEF HeadAt
<1>6. PICK i : i = buffer[c][n][1]
  OBVIOUS
<1>7. /\ need' = [need EXCEPT ![c] = Responses[i]]
      /\ packet' = [packet EXCEPT ![c] = [of |-> i, whole |-> n = 1]]
      /\ buffer' = [buffer EXCEPT ![c] = SubSeq(buffer[c], n + 1, Len(buffer[c]))]
      /\ Step(c, "client", "body") /\ UNCHANGED <<phase, open, incoming, toClient, parted>>
  BY <1>4, <1>6 DEF ReadHead
<1>8. PICK at \in Nat : /\ Suffix(at, buffer[c], incoming[c])
                        /\ Told(at, "head", need[c], packet[c], toClient[c], parted[c])
  BY <1>1, <1>2 DEF Flow
<1>9. Suffix(at + n, SubSeq(buffer[c], n + 1, Len(buffer[c])), incoming[c])
  BY <1>5, <1>8, TakenSuffix
<1>10. Told(at + n, "body", Responses[i], [of |-> i, whole |-> n = 1], toClient[c], parted[c])
  BY <1>5, <1>6, <1>8, HeadRead
<1>11. /\ thread'[c]["client"] = "body"
       /\ \A d \in Conn \ {c} : thread'[d]["client"] = thread[d]["client"]
  BY <1>7, ClientMoves
<1>12. at + n \in Nat
  BY <1>5
<1>13. /\ incoming' = [incoming EXCEPT ![c] = incoming[c]]
       /\ toClient' = [toClient EXCEPT ![c] = toClient[c]] /\ parted' = [parted EXCEPT ![c] = parted[c]]
  BY <1>1, <1>7, SameData
<1>14. UNCHANGED <<phase, open>>
  BY <1>7
<1>15. /\ need' = [need EXCEPT ![c] = Responses[i]]
       /\ packet' = [packet EXCEPT ![c] = [of |-> i, whole |-> n = 1]]
       /\ buffer' = [buffer EXCEPT ![c] = SubSeq(buffer[c], n + 1, Len(buffer[c]))]
  BY <1>7
<1> QED
  BY <1>3, <1>9, <1>10, <1>11, <1>12, <1>13, <1>14, <1>15, OneFlow, Zenon

(* HttpPacketReader::readPacket, the body: one read. *)
LEMMA ReadBodyData ==
    ASSUME IInv, DataInv, NEW c \in Conn, ReadBody(c)
    PROVE  DataInv'
<1>1. DataTypeOK /\ Flow(c)
  BY DEF DataInv
<1>2. PICK n : n = IF need[c] <= Len(buffer[c]) THEN need[c] ELSE Len(buffer[c])
  OBVIOUS
<1>3. /\ thread[c]["client"] = "body" /\ n > 0
      /\ packet' = [packet EXCEPT ![c].whole = @ /\ n = need[c]
                                             /\ \A b \in 1 .. n : buffer[c][b] = Byte(packet[c].of)]
      /\ parted' = [parted EXCEPT ![c] = IF n < need[c] THEN parted[c] \cup {packet[c].of} ELSE parted[c]]
      /\ buffer' = [buffer EXCEPT ![c] = SubSeq(buffer[c], n + 1, Len(buffer[c]))]
      /\ Step(c, "client", "write") /\ UNCHANGED <<phase, open, incoming, need, toClient>>
  BY <1>2 DEF ReadBody
<1>4. phase[c] = "session"
  BY <1>3, CallsInSession
<1>5. need[c] \in Nat /\ Len(buffer[c]) \in Nat
  BY <1>1 DEF DataTypeOK
<1>6. n \in 1 .. Len(buffer[c]) /\ n <= need[c]
  BY <1>2, <1>3, <1>5
<1>7. packet' = [packet EXCEPT ![c] = BodyOf(packet[c], n, need[c], buffer[c])]
  BY <1>3 DEF BodyOf
<1>8. PICK at \in Nat : /\ Suffix(at, buffer[c], incoming[c])
                        /\ Told(at, "body", need[c], packet[c], toClient[c], parted[c])
  BY <1>1, <1>3 DEF Flow
<1>9. Suffix(at + n, SubSeq(buffer[c], n + 1, Len(buffer[c])), incoming[c])
  BY <1>6, <1>8, TakenSuffix
<1>10. Told(at + n, "write", need[c], BodyOf(packet[c], n, need[c], buffer[c]), toClient[c],
            IF n < need[c] THEN parted[c] \cup {packet[c].of} ELSE parted[c])
  BY <1>6, <1>8, BodyRead
<1>11. /\ thread'[c]["client"] = "write"
       /\ \A d \in Conn \ {c} : thread'[d]["client"] = thread[d]["client"]
  BY <1>3, ClientMoves
<1>12. at + n \in Nat
  BY <1>6
<1>13. /\ incoming' = [incoming EXCEPT ![c] = incoming[c]] /\ need' = [need EXCEPT ![c] = need[c]]
       /\ toClient' = [toClient EXCEPT ![c] = toClient[c]]
  BY <1>1, <1>3, SameData
<1>14. UNCHANGED <<phase, open>>
  BY <1>3
<1>15. /\ parted' = [parted EXCEPT ![c] = IF n < need[c] THEN parted[c] \cup {packet[c].of} ELSE parted[c]]
       /\ buffer' = [buffer EXCEPT ![c] = SubSeq(buffer[c], n + 1, Len(buffer[c]))]
  BY <1>3
<1> QED
  BY <1>4, <1>7, <1>9, <1>10, <1>11, <1>12, <1>13, <1>14, <1>15, OneFlow, Zenon

(* forwardToClient_: SslSession::write. *)
LEMMA WriteData ==
    ASSUME IInv, DataInv, NEW c \in Conn, Write(c)
    PROVE  DataInv'
<1>1. DataTypeOK /\ Flow(c)
  BY DEF DataInv
<1>2. /\ thread[c]["client"] = "write" /\ Step(c, "client", "head")
      /\ toClient' = [toClient EXCEPT ![c] = Append(toClient[c], packet[c])]
      /\ UNCHANGED <<phase, open, incoming, buffer, need, packet, parted>>
  BY DEF Write
<1>3. phase[c] = "session"
  BY <1>2, CallsInSession
<1>4. PICK at \in Nat : /\ Suffix(at, buffer[c], incoming[c])
                        /\ Told(at, "write", need[c], packet[c], toClient[c], parted[c])
  BY <1>1, <1>2 DEF Flow
<1>5. Told(at, "head", need[c], packet[c], Append(toClient[c], packet[c]), parted[c])
  BY <1>4, Written
<1>6. /\ thread'[c]["client"] = "head"
      /\ \A d \in Conn \ {c} : thread'[d]["client"] = thread[d]["client"]
  BY <1>2, ClientMoves
<1>7. /\ incoming' = [incoming EXCEPT ![c] = incoming[c]] /\ buffer' = [buffer EXCEPT ![c] = buffer[c]]
      /\ need' = [need EXCEPT ![c] = need[c]] /\ packet' = [packet EXCEPT ![c] = packet[c]]
      /\ parted' = [parted EXCEPT ![c] = parted[c]]
  BY <1>1, <1>2, SameData
<1>8. UNCHANGED <<phase, open>>
  BY <1>2
<1>9. toClient' = [toClient EXCEPT ![c] = Append(toClient[c], packet[c])]
  BY <1>2
<1> QED
  BY <1>3, <1>4, <1>5, <1>6, <1>7, <1>8, <1>9, OneFlow, Zenon

(* DaemonRunner: the stream is at its beginning. *)
LEMMA EstablishData ==
    ASSUME IInv, DataInv, NEW c \in Conn, Establish(c)
    PROVE  DataInv'
<1>1. /\ phase[c] # "session" /\ phase' = [phase EXCEPT ![c] = "session"] /\ UNCHANGED data
      /\ open' = [open EXCEPT ![c] = open[c] \cup {"server"}]
      /\ thread' = [thread EXCEPT ![c] = [server |-> "read", client |-> "head", runner |-> "wait"]]
  BY DEF Establish
<1>2. DataTypeOK'
  BY <1>1 DEF DataInv, DataTypeOK, data
<1>3. /\ phase'[c] = "session" /\ thread'[c]["client"] = "head"
      /\ \A d \in Conn \ {c} : /\ phase'[d] = phase[d] /\ open'[d] = open[d]
                               /\ thread'[d] = thread[d]
  BY <1>1 DEF IInv, TypeOK
<1>4. /\ incoming[c] = Stream /\ buffer[c] = <<>> /\ packet[c] = NoPacket
      /\ toClient[c] = <<>> /\ parted[c] = {} /\ need[c] \in Nat
  BY <1>1 DEF DataInv, NotYet, DataTypeOK
<1>5. Suffix(0, <<>>, Stream) /\ Told(0, "head", need[c], NoPacket, <<>>, {})
  <2>1. /\ Stream \in Seq(Token) /\ Len(Stream) \in Nat /\ Len(Responses) \in Nat /\ Begin[1] = 1
    BY Beginnings
  <2>2. 0 + 0 + Len(Stream) = Len(Stream) /\ \A k \in 1 .. Len(Stream) : 0 + 0 + k = k
    BY <2>1
  <2>3. <<>> \in Seq(Token) /\ <<>> \in Seq(Packet) /\ Len(<<>>) = 0 /\ {} \in SUBSET Nat
    OBVIOUS
  <2>4. NoPacket \in Packet /\ NoPacket.of = 0
    BY <2>1 DEF NoPacket, Packet
  <2>5. Suffix(0, <<>>, Stream)
    BY <2>1, <2>2, <2>3 DEF Suffix
  <2>6. Len(<<>>) + 1 <= Len(Responses) + 1 /\ 0 + 1 = Begin[Len(<<>>) + 1]
    BY <2>1, <2>3
  <2>7. Told(0, "head", need[c], NoPacket, <<>>, {})
    BY <1>4, <2>3, <2>4, <2>6 DEF Told
  <2> QED
    BY <2>5, <2>7
<1>6. Flow(c)'
  BY <1>1, <1>3, <1>4, <1>5 DEF Flow, data
<1>7. ASSUME NEW d \in Conn \ {c} PROVE Flow(d)' /\ NotYet(d)'
  <2>1. Flow(d) /\ NotYet(d)
    BY DEF DataInv
  <2>2. Flow(d)'
    BY <1>1, <1>3, <2>1 DEF Flow, data
  <2>3. NotYet(d)'
    BY <1>1, <1>3, <2>1 DEF NotYet, data
  <2> QED
    BY <2>2, <2>3
<1>8. NotYet(c)'
  BY <1>3 DEF NotYet
<1> QED
  BY <1>2, <1>6, <1>7, <1>8 DEF DataInv

(* Every step. *)
LEMMA NextData == IInv /\ DataInv /\ [Next]_vars => DataInv'
<1> SUFFICES ASSUME IInv, DataInv, [Next]_vars PROVE DataInv'
  OBVIOUS
<1>0. /\ phase \in [Conn -> {"away", "backlog", "handshake", "stalled", "session", "over"}]
      /\ open \in [Conn -> SUBSET Forwarder] /\ thread \in [Conn -> [Thread -> Pc]]
      /\ {"server", "client", "runner"} \subseteq Thread
  BY DEF IInv, TypeOK, Thread, Forwarder
<1>1. ASSUME UNCHANGED data, UNCHANGED <<phase, open>>,
             NEW c \in Conn, NEW t \in Thread, NEW pc, Step(c, t, pc),
             t = "client" => pc \in {"ended", "release", "unwind", "gone"}
      PROVE  DataInv'
  <2>1. \A d \in Conn : thread'[d]["client"] \in {thread[d]["client"]} \cup {"ended", "release", "unwind", "gone"}
    BY <1>0, <1>1 DEF Step
  <2> QED
    BY <1>1, <2>1, FrameData
<1>2. ASSUME UNCHANGED data, UNCHANGED thread, NEW c \in Conn,
             phase' = [phase EXCEPT ![c] = phase'[c]], open' = [open EXCEPT ![c] = open'[c]],
             phase'[c] # "session" => phase[c] # "session" /\ ("server" \in open'[c] => "server" \in open[c])
      PROVE  DataInv'
  <2>1. \A d \in Conn : phase'[d] # "session" =>
               phase[d] # "session" /\ ("server" \in open'[d] => "server" \in open[d])
    BY <1>0, <1>2
  <2>2. \A d \in Conn : thread'[d]["client"] = thread[d]["client"]
    BY <1>2
  <2> QED
    BY <1>2, <2>1, <2>2, FrameData
<1>3. ASSUME UNCHANGED data, UNCHANGED <<phase, open, thread>>
      PROVE  DataInv'
  BY <1>3, FrameData
<1>4. CASE UNCHANGED vars
  BY <1>3, <1>4 DEF vars, runner
<1>5. ASSUME Next PROVE DataInv'
  <2>1. PICK c \in Conn :
           \/ Connect(c) \/ Stall(c) \/ Arrive(c) \/ \E peer \in Forwarder : Leave(c, peer)
           \/ Master(c) \/ Forwards(c) \/ BrokenPipe(c)
           \/ \E t \in Thread : Runs(c, t)
    BY <1>5 DEF Next
  <2>2. CASE Connect(c)
    BY <1>0, <1>2, <2>2 DEF Connect, runner
  <2>3. CASE Stall(c)
    BY <1>0, <1>2, <2>3 DEF Stall, runner
  <2>4. CASE Arrive(c)
    BY <2>4, ArriveData
  <2>5. ASSUME NEW peer \in Forwarder, Leave(c, peer) PROVE DataInv'
    BY <1>0, <1>2, <2>5 DEF Leave, runner
  <2>6. CASE Accept(c)
    BY <1>0, <1>2, <2>6 DEF Accept, runner
  <2>7. CASE Fail(c)
    BY <1>0, <1>2, <2>7 DEF Fail, runner
  <2>8. CASE Establish(c)
    BY <2>8, EstablishData
  <2>9. CASE ServerEnds(c)
    BY <1>0, <1>1, <2>9 DEF ServerEnds
  <2>10. CASE ReadHead(c)
    BY <2>10, ReadHeadData
  <2>11. CASE ReadBody(c)
    BY <2>11, ReadBodyData
  <2>12. CASE Write(c)
    BY <2>12, WriteData
  <2>13. CASE ClientEnds(c)
    BY <1>0, <1>1, <2>13 DEF ClientEnds
  <2>14. CASE BrokenPipe(c)
    BY <1>3, <2>14 DEF BrokenPipe
  <2>15. ASSUME NEW t \in Thread, Runs(c, t) PROVE DataInv'
    <3>1. CASE t = "runner" /\ Kill(c)
      BY <1>0, <1>1, <3>1 DEF Kill
    <3>2. CASE t \in Forwarder /\ Terminate(c, t)
      BY <1>1, <3>2 DEF Terminate
    <3>3. CASE t \in Forwarder /\ Unwind(c, t)
      BY <1>1, <3>3 DEF Unwind
    <3>4. ASSUME NEW o \in Object, Release(c, t, o) PROVE DataInv'
      BY <1>3, <3>4 DEF Release
    <3>5. CASE Exit(c, t)
      BY <1>1, <3>5 DEF Exit
    <3> QED
      BY <2>15, <3>1, <3>2, <3>3, <3>4, <3>5 DEF Runs
  <2> QED
    BY <2>1, <2>2, <2>3, <2>4, <2>5, <2>6, <2>7, <2>8, <2>9, <2>10, <2>11, <2>12, <2>13, <2>14, <2>15
    DEF Master, Forwards, Reads
<1> QED
  BY <1>4, <1>5

(* forwardToClient_: the packets a client is given are the responses, one by   *)
(* one, in their order and whole, up to the first whose body was read in part, *)
(* for any responses, any clients and any way the bytes come.                  *)
THEOREM ResponsesWhole == Spec => []ResponsesIntact
<1>1. DataInv => ResponsesIntact
  <2> SUFFICES ASSUME DataInv, NEW c \in Conn, NEW k \in 1 .. Len(toClient[c])
               PROVE  \/ toClient[c][k] = [of |-> k, whole |-> TRUE]
                      \/ \E i \in parted[c] : i <= toClient[c][k].of
    BY DEF ResponsesIntact
  <2> QED
    BY DEF DataInv, Flow, Told
<1>2. IInv /\ DataInv /\ [Next]_vars => (IInv /\ DataInv)'
  BY NextIInv, NextData
<1>3. Init => IInv /\ DataInv
  BY InitIInv, InitData
<1> QED
  BY <1>1, <1>2, <1>3, PTL DEF Spec
=============================================================================
