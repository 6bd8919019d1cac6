--------------------------- MODULE ClientJobs_proofs ---------------------------
(***************************************************************************)
(* The jobs of the client.                                                  *)
(*                                                                          *)
(* The jobs of a kind form a line: each joins the one before it, the last   *)
(* is in the field or about to be written into it, and nobody but the head  *)
(* runs (Chain).  This holds for the kinds whose listeners did not overlap. *)
(* A login and a logout then exclude each other, since each begins in the   *)
(* state in which the other does not, and only they change it (AdminInv).   *)
(*                                                                          *)
(* An update of the token is the one in updateJob, and one call owns it     *)
(* until it has cleared the field (UpdateInv).  A coroutine only ever waits *)
(* for one that was there before it or, for an update, one that does not    *)
(* wait (LineInv, CircleInv).                                               *)
(***************************************************************************)
EXTENDS ClientJobs, FiniteSetTheorems, TLAPS

Running == {"sent", "check", "join update", "start", "own", "await own", "await", "answered"}
Out == {"free", "listen"}
Ended == {"done", "over"}

QueuedKind == {kind \in Kind : Handler[kind].queue # "none"}

Coroutine == [pc : Out \cup {"join"} \cup Running \cup Ended,
              kind : Kind \cup {"update", "caller"},
              after : Slot \cup {NoSlot}, assign : Slot \cup {NoSlot, Completed}, ok : BOOLEAN]

TypeOK ==
    /\ co \in [Slot -> Coroutine]
    /\ updateJob \in Slot \cup {NoSlot, Completed}
    /\ overlapped \in BOOLEAN /\ refused \in BOOLEAN /\ crashed \in BOOLEAN
    /\ state \in {"User", "Admin"} /\ last \in [Kind -> Slot \cup {NoSlot}]
    /\ serverAdmin \in BOOLEAN /\ late \in SUBSET {"login", "logout"}
    /\ events \in Nat /\ raced \in SUBSET Kind /\ givenUp \in BOOLEAN

(* What a coroutine is, by where it is. *)
Shape(c) ==
    /\ c.pc \in Out => c.assign = NoSlot /\ c.after = NoSlot
    /\ c.pc \in {"listen", "done"} => c.kind \in Kind
    /\ c.assign # NoSlot \/ c.pc = "join" => c.kind \in QueuedKind
    /\ c.ok => c.kind = "login" /\ c.pc \in {"answered", "done"}

Shapes == \A r \in Slot : Shape(co[r])

(* A job that is joined, is in a field or is about to be is one that was     *)
(* queued, of the same kind, and not yet completed.                          *)
JobRefs ==
    /\ \A r \in Slot : co[r].pc = "join" /\ co[r].after \in Slot =>
          co[co[r].after].pc \notin Out /\ co[co[r].after].kind = co[r].kind
    /\ \A r \in Slot : co[r].assign \in Slot =>
          co[co[r].assign].pc \notin Out /\ co[co[r].assign].kind = co[r].kind
    /\ \A kind \in QueuedKind : last[kind] \in Slot =>
          co[last[kind]].pc \notin Out /\ co[last[kind]].kind = kind

(* Nor is what is waited for completed, and updateJob is an update.          *)
UpdateRefs ==
    /\ \A r \in Slot : co[r].after \in Slot => co[co[r].after].pc \notin Out
    /\ updateJob \in Slot => co[updateJob].pc \notin Out /\ co[updateJob].kind = "update"

-----------------------------------------------------------------------------
(* The line of a kind *)

Assigns(kind, r) == co[r].assign # NoSlot /\ co[r].kind = kind
Stores(r) == Uncompleted(co[r].assign)   \* what Assign will write
Joins(kind, r) == co[r].kind = kind /\ co[r].pc = "join" /\ co[r].after # NoSlot
Leads(kind, r) == co[r].kind = kind /\ \/ co[r].pc \in Running
                                       \/ co[r].pc = "join" /\ co[r].after = NoSlot

(* The last job: what the next listener reads, or should read. *)
Latest(kind, p) == \/ \E r \in Slot : Assigns(kind, r) /\ Stores(r) = p
                   \/ last[kind] = p /\ \A r \in Slot : ~Assigns(kind, r)

Referred(kind, p) == \/ \E r \in Slot : Joins(kind, r) /\ co[r].after = p
                     \/ Latest(kind, p)

(* A job that is over and stands in the line. *)
Leaves(kind, r) == Referred(kind, r) /\ co[r].kind = kind /\ co[r].pc \in Ended

First(kind, r) == Leads(kind, r) \/ Leaves(kind, r)

Chain(kind) ==
    /\ \A r, s \in Slot : Assigns(kind, r) /\ Assigns(kind, s) => r = s
    /\ \A r \in Slot : Assigns(kind, r) => Stores(r) \in {r, last[kind]}
    /\ \A r, s \in Slot : First(kind, r) /\ First(kind, s) => r = s
    /\ \A p \in Slot : Referred(kind, p) => First(kind, p) \/ Joins(kind, p)
    /\ \A r, s \in Slot : Joins(kind, r) /\ Joins(kind, s) /\ co[r].after = co[s].after => r = s
    /\ \A r \in Slot : Joins(kind, r) => ~Latest(kind, co[r].after)
    /\ Latest(kind, NoSlot) => \A r \in Slot : ~Leads(kind, r) /\ ~Joins(kind, r)

ChainInv == \A kind \in QueuedKind : kind \notin raced => Chain(kind)

(* No jobs join one another in a circle. *)
LineInv == \A jobs \in SUBSET Slot :
    jobs # {} /\ (\A r \in jobs : co[r].pc = "join") => \E r \in jobs : co[r].after \notin jobs

-----------------------------------------------------------------------------
(* The updates *)

Owner(r) == co[r].pc \in {"own", "await own"}
Update(r) == co[r].kind = "update" /\ co[r].pc # "free"

UpdateInv == ~overlapped =>
    /\ \A r, s \in Slot : Owner(r) /\ Owner(s) => r = s
    /\ \A r \in Slot : Owner(r) => updateJob # NoSlot
    /\ \A u \in Slot : Update(u) =>
          /\ updateJob = u
          /\ \E r \in Slot : co[r].pc = "own" \/ (co[r].pc = "await own" /\ co[r].after = u)
    /\ ~crashed

CircleInv == ~refused =>
    /\ \A u \in Slot : Update(u) => co[u].after = NoSlot /\ co[u].pc \in {"sent", "over"}
    /\ \A circle \in SUBSET Slot : circle # {} => \E r \in circle : co[r].after \notin circle

(* Logins and logouts. *)
Alone == {"login", "logout"} \cap raced = {}

AdminInv ==
    /\ "logout" \in late => givenUp
    /\ Alone /\ ~givenUp =>
       /\ \A r \in Slot : co[r].kind = "login" /\ co[r].pc \in Running => state = "User"
       /\ \A r \in Slot : co[r].kind = "logout" /\ co[r].pc \in Running => state = "Admin"
       /\ \A r \in Slot : co[r].pc = "answered" /\ co[r].ok => serverAdmin
       /\ state = "Admin" => serverAdmin \/ \E r \in Slot : At(r, "answered", {"logout"})

-----------------------------------------------------------------------------
(* Types and shapes *)

(* The kinds, with what queueJob does with each and what follows. *)
LEMMA Kinds ==
    /\ "update" \notin Kind /\ "caller" \notin Kind /\ NoEvent \notin Kind
    /\ "block" \in Kind /\ "login" \in QueuedKind /\ "logout" \in QueuedKind
    /\ "delete" \in Kind /\ "delete" \notin QueuedKind /\ QueuedKind \subseteq Kind
    /\ Kind \ QueuedKind = {"delete"}
    /\ \A kind \in Kind : Follow[kind] \in Kind \cup {NoEvent}
    /\ \A kind \in Kind : Handler[kind].queue # "none" => kind \in QueuedKind
<1>1. Kind = {"reload", "blackList", "login", "logout", "delete", "swap", "volume", "setVolume",
              "statistics", "block", "unblock", "password"}
  BY DEF Kind, Handler
<1>2. QueuedKind = Kind \ {"delete"}
  <2> SUFFICES ASSUME NEW kind \in Kind
      PROVE  Handler[kind].queue # "none" <=> kind # "delete"
    BY DEF QueuedKind
  <2> QED
    BY <1>1 DEF Handler, onRequestQueueReload, onRequestBlackListReload, onLoginRequest,
       onLogoutRequest, onDeleteSong, onSwapSongsRequest, onVolumeRequest, onVolumeChangeRequest,
       onStatisticsRequest, onUserBlockRequest, onUserUnblockRequest, onChangePasswordRequest
<1>3. \A kind \in Kind : Follow[kind] \in Kind \cup {NoEvent}
  BY <1>1 DEF Follow, NoEvent, getSongList, getBlackList, login, logout, deleteSong, swapSongs,
     getVolume, setVolume, getStatistics, blockUser, unblockUser, changePassword
<1> QED
  BY <1>1, <1>2, <1>3 DEF QueuedKind, NoEvent

(* A slot that changes, and the others. *)
LEMMA SetSlot ==
    ASSUME TypeOK, NEW r \in Slot, NEW c \in Coroutine, Set(r, c)
    PROVE  co' \in [Slot -> Coroutine] /\ co'[r] = c /\ \A s \in Slot \ {r} : co'[s] = co[s]
BY DEF TypeOK, Set

(* A coroutine that only moves. *)
LEMMA GotoSlot ==
    ASSUME TypeOK, NEW r \in Slot, NEW pc \in Out \cup {"join"} \cup Running \cup Ended, Goto(r, pc)
    PROVE  /\ co' \in [Slot -> Coroutine] /\ \A s \in Slot \ {r} : co'[s] = co[s]
           /\ co'[r].pc = pc /\ co'[r].kind = co[r].kind /\ co'[r].after = co[r].after
           /\ co'[r].assign = co[r].assign /\ co'[r].ok = co[r].ok
<1>1. co[r] \in Coroutine /\ [co[r] EXCEPT !.pc = pc] \in Coroutine
  BY DEF TypeOK, Coroutine
<1>2. co'[r] = [co[r] EXCEPT !.pc = pc]
  BY <1>1, SetSlot DEF Goto
<1>3. co' \in [Slot -> Coroutine] /\ \A s \in Slot \ {r} : co'[s] = co[s]
  BY <1>1, SetSlot DEF Goto
<1> QED
  BY <1>1, <1>2, <1>3 DEF Coroutine

(* Where a coroutine may begin. *)
LEMMA NewSlot ==
    /\ Free \in Coroutine /\ Free.pc = "free" /\ Free.kind = "update" /\ Free.after = NoSlot
    /\ Free.assign = NoSlot /\ Free.ok = FALSE
    /\ \A kind \in Kind : /\ New(kind) \in Coroutine /\ New(kind).pc = "listen"
                          /\ New(kind).kind = kind /\ New(kind).after = NoSlot
                          /\ New(kind).assign = NoSlot /\ New(kind).ok = FALSE
BY DEF Free, New, Coroutine, Out

(* What a step leaves to be shown about the rest of the state. *)
Rest ==
    /\ updateJob' \in Slot \cup {NoSlot, Completed}
    /\ overlapped' \in BOOLEAN /\ refused' \in BOOLEAN /\ crashed' \in BOOLEAN
    /\ state' \in {"User", "Admin"} /\ last' \in [Kind -> Slot \cup {NoSlot}]
    /\ serverAdmin' \in BOOLEAN /\ late' \in SUBSET {"login", "logout"}
    /\ events' \in Nat /\ raced' \in SUBSET Kind /\ givenUp' \in BOOLEAN

(* A coroutine moves. *)
LEMMA MoveType ==
    ASSUME TypeOK, Shapes, Rest, NEW r \in Slot,
           NEW pc \in {"join"} \cup Running \cup Ended, Goto(r, pc),
           pc = "done" => co[r].kind \in Kind, pc = "join" => co[r].kind \in QueuedKind,
           co[r].ok => pc \in {"answered", "done"}
    PROVE  TypeOK' /\ Shapes'
<1>1. TypeOK'
  BY GotoSlot DEF TypeOK, Rest
<1>2. pc \notin Out /\ pc # "listen"
  BY DEF Out, Running, Ended
<1>3. Shape(co'[r])
  BY <1>2, GotoSlot DEF Shapes, Shape
<1>4. \A s \in Slot \ {r} : Shape(co'[s])
  BY GotoSlot DEF Shapes
<1> QED
  BY <1>1, <1>3, <1>4 DEF Shapes

(* A coroutine becomes another one. *)
LEMMA SetType ==
    ASSUME TypeOK, Shapes, Rest, NEW r \in Slot, NEW c \in Coroutine, Set(r, c), Shape(c)
    PROVE  TypeOK' /\ Shapes'
<1>1. TypeOK'
  BY SetSlot DEF TypeOK, Rest
<1>2. co'[r] = c /\ \A s \in Slot \ {r} : co'[s] = co[s]
  BY SetSlot
<1> QED
  BY <1>1, <1>2 DEF Shapes

(* A new coroutine has the shape of one. *)
LEMMA NewShape == Shape(Free) /\ \A kind \in Kind : Shape(New(kind))
<1> QED
  BY NewSlot DEF Shape, Out

(* Waiting for a job. *)
LEMMA WaitSlot ==
    ASSUME TypeOK, NEW r \in Slot, NEW pc \in Running, NEW job \in Slot \cup {NoSlot, Completed},
           Waits(r, pc, job)
    PROVE  /\ co' \in [Slot -> Coroutine] /\ \A s \in Slot \ {r} : co'[s] = co[s]
           /\ co'[r].pc = pc /\ co'[r].kind = co[r].kind
           /\ co'[r].after = IF job = Completed THEN NoSlot ELSE job
           /\ co'[r].assign = co[r].assign /\ co'[r].ok = co[r].ok
<1> DEFINE after == IF job = Completed THEN NoSlot ELSE job
           c == [co[r] EXCEPT !.pc = pc, !.after = after]
<1>1. after \in Slot \cup {NoSlot}
  OBVIOUS
<1>2. co[r] \in Coroutine
  BY DEF TypeOK
<1> HIDE DEF after
<1>3. /\ c \in Coroutine /\ c.pc = pc /\ c.kind = co[r].kind /\ c.after = after
      /\ c.assign = co[r].assign /\ c.ok = co[r].ok
  BY <1>1, <1>2 DEF Coroutine
<1>4. Set(r, c)
  BY DEF Waits, after
<1> HIDE DEF c
<1>5. co' \in [Slot -> Coroutine] /\ co'[r] = c /\ \A s \in Slot \ {r} : co'[s] = co[s]
  BY <1>3, <1>4, SetSlot
<1> QED
  BY <1>3, <1>5 DEF after

(* A coroutine that begins to wait keeps types and shapes. *)
LEMMA WaitType ==
    ASSUME TypeOK, Shapes, Rest, NEW r \in Slot, NEW pc \in Running,
           NEW job \in Slot \cup {NoSlot, Completed}, Waits(r, pc, job), ~co[r].ok
    PROVE  TypeOK' /\ Shapes'
<1>1. TypeOK'
  BY WaitSlot DEF TypeOK, Rest
<1>2. pc \notin Out /\ pc \notin {"listen", "done", "join"}
  BY DEF Out, Running
<1>3. Shape(co'[r])
  BY <1>2, WaitSlot DEF Shapes, Shape
<1>4. \A s \in Slot \ {r} : Shape(co'[s])
  BY WaitSlot DEF Shapes
<1> QED
  BY <1>1, <1>3, <1>4 DEF Shapes

(* A listener queues its job, or skips it. *)
LEMMA QueuedSlot ==
    ASSUME TypeOK, Shapes, NEW r \in Slot, Queued(r)
    PROVE  /\ co' \in [Slot -> Coroutine] /\ \A s \in Slot \ {r} : co'[s] = co[s]
           /\ co[r].pc = "listen" /\ co[r].kind \in QueuedKind
           /\ co'[r].kind = co[r].kind /\ co'[r].ok = FALSE
           /\ \/ /\ last[co[r].kind] # NoSlot /\ co'[r].pc = "over" /\ co'[r].after = NoSlot
                 /\ co'[r].assign = last[co[r].kind]
              \/ /\ co'[r].pc = "join" /\ co'[r].after = last[co[r].kind] /\ co'[r].assign = r
           /\ raced' = IF Assigning(co[r].kind) # {} THEN raced \cup {co[r].kind} ELSE raced
           /\ UNCHANGED <<token, state, last, external, events, givenUp>>
<1> DEFINE kind == co[r].kind
           skips == Handler[kind].queue = "skip" /\ last[kind] # NoSlot
           c == IF skips THEN [co[r] EXCEPT !.pc = "over", !.assign = last[kind]]
                ELSE [co[r] EXCEPT !.pc = "join", !.after = last[kind], !.assign = r]
<1>1. /\ co[r].pc = "listen" /\ Handler[kind].queue # "none" /\ Set(r, c)
      /\ raced' = IF Assigning(kind) # {} THEN raced \cup {kind} ELSE raced
      /\ UNCHANGED <<token, state, last, external, events, givenUp>>
  BY DEF Queued
<1>2. co[r] \in Coroutine /\ Shape(co[r])
  BY DEF TypeOK, Shapes
<1>3. kind \in QueuedKind /\ kind \in Kind /\ co[r].after = NoSlot /\ co[r].ok = FALSE
  BY <1>1, <1>2, Kinds DEF Shape, Out, Coroutine
<1>4. last[kind] \in Slot \cup {NoSlot}
  BY <1>3 DEF TypeOK
<1>5. /\ c \in Coroutine /\ c.kind = kind /\ c.ok = co[r].ok
      /\ \/ last[kind] # NoSlot /\ c.pc = "over" /\ c.after = co[r].after /\ c.assign = last[kind]
         \/ c.pc = "join" /\ c.after = last[kind] /\ c.assign = r
  <2>1. CASE skips
    <3>1. c = [co[r] EXCEPT !.pc = "over", !.assign = last[kind]]
      BY <2>1
    <3> QED
      BY <1>2, <1>4, <2>1, <3>1 DEF Coroutine, Ended
  <2>2. CASE ~skips
    <3>1. c = [co[r] EXCEPT !.pc = "join", !.after = last[kind], !.assign = r]
      BY <2>2
    <3> QED
      BY <1>2, <1>4, <2>2, <3>1 DEF Coroutine
  <2> QED
    BY <2>1, <2>2
<1> HIDE DEF c
<1>6. co' \in [Slot -> Coroutine] /\ co'[r] = c /\ \A s \in Slot \ {r} : co'[s] = co[s]
  BY <1>1, <1>5, SetSlot
<1> QED
  BY <1>1, <1>3, <1>5, <1>6

(* A job is completed: whoever refers to it knows it as completed at most.    *)
LEMMA FinishSlot ==
    ASSUME TypeOK, Shapes, NEW r \in Slot, Finish(r)
    PROVE  /\ co' \in [Slot -> Coroutine] /\ co[r].pc \in Ended /\ co[r].assign = NoSlot
           /\ co'[r].pc \in Out /\ Shape(co'[r])
           /\ co'[r].after = NoSlot /\ co'[r].assign = NoSlot
           /\ co'[r].pc = "free" => co'[r].kind = "update"
           /\ co'[r].pc = "listen" => co'[r].kind \in Kind
           /\ \A s \in Slot \ {r} :
                 /\ co'[s].pc = co[s].pc /\ co'[s].kind = co[s].kind /\ co'[s].ok = co[s].ok
                 /\ co'[s].after = IF co[s].after = r THEN NoSlot ELSE co[s].after
                 /\ co'[s].assign = IF co[s].assign = r THEN Completed ELSE co[s].assign
           /\ last' \in [Kind -> Slot \cup {NoSlot}]
           /\ \A kind \in Kind : last'[kind] = IF last[kind] = r THEN NoSlot ELSE last[kind]
           /\ updateJob' = IF updateJob = r THEN Completed ELSE updateJob
           /\ UNCHANGED <<overlapped, refused, crashed, state, external, events, raced, givenUp>>
<1> DEFINE follow == IF co[r].pc = "done" THEN Follow[co[r].kind] ELSE NoEvent
           gone(s) == IF s = r THEN NoSlot ELSE s
           mine == IF follow = NoEvent THEN Free ELSE New(follow)
           closed(s) == IF s = r THEN Completed ELSE s
           other(s) == [co[s] EXCEPT !.after = gone(@), !.assign = closed(@)]
<1>1. /\ co[r].pc \in Ended /\ co[r].assign = NoSlot
      /\ last' = [kind \in Kind |-> gone(last[kind])]
      /\ co' = [s \in Slot |-> IF s = r THEN mine ELSE other(s)]
      /\ updateJob' = IF updateJob = r THEN Completed ELSE updateJob
      /\ UNCHANGED <<overlapped, refused, crashed, state, external, events, raced, givenUp>>
  BY DEF Finish, Ended
<1>2. follow \in Kind \cup {NoEvent}
  BY Kinds DEF Shapes, Shape
<1>3. /\ mine \in Coroutine /\ mine.pc \in Out /\ Shape(mine) /\ mine.after = NoSlot
      /\ mine.assign = NoSlot /\ (mine.pc = "free" => mine.kind = "update")
      /\ (mine.pc = "listen" => mine.kind \in Kind)
  <2>1. CASE follow = NoEvent
    BY <2>1, NewSlot, NewShape DEF Out
  <2>2. CASE follow \in Kind /\ follow # NoEvent
    <3>1. mine = New(follow)
      BY <2>2
    <3> HIDE DEF mine, follow
    <3> QED
      BY <2>2, <3>1, NewSlot, NewShape DEF Out
  <2> QED
    BY <1>2, <2>1, <2>2
<1>4. ASSUME NEW s \in Slot
      PROVE  /\ other(s) \in Coroutine
             /\ other(s).pc = co[s].pc /\ other(s).kind = co[s].kind /\ other(s).ok = co[s].ok
             /\ other(s).after = gone(co[s].after) /\ other(s).assign = closed(co[s].assign)
  <2>1. co[s] \in Coroutine
    BY DEF TypeOK
  <2>2. gone(co[s].after) \in Slot \cup {NoSlot} /\ closed(co[s].assign) \in Slot \cup {NoSlot, Completed}
    BY <2>1 DEF Coroutine
  <2> QED
    BY <2>1, <2>2 DEF Coroutine
<1> HIDE DEF mine, other
<1>5. co' \in [Slot -> Coroutine] /\ co'[r] = mine /\ \A s \in Slot \ {r} : co'[s] = other(s)
  BY <1>1, <1>3, <1>4
<1>6. \A kind \in Kind : last'[kind] = gone(last[kind]) /\ gone(last[kind]) \in Slot \cup {NoSlot}
  BY <1>1 DEF TypeOK
<1>7. last' \in [Kind -> Slot \cup {NoSlot}]
  BY <1>1, <1>6
<1> QED
  BY <1>1, <1>3, <1>4, <1>5, <1>6, <1>7

(* The free slots and the empty fields have their types. *)
LEMMA TypeInit == Init => TypeOK /\ Shapes
<1> SUFFICES ASSUME Init
    PROVE  TypeOK /\ Shapes
  OBVIOUS
<1>1. co \in [Slot -> Coroutine] /\ \A r \in Slot : co[r] = Free
  BY NewSlot DEF Init
<1>2. Shapes
  BY <1>1, NewShape DEF Shapes
<1>3. last \in [Kind -> Slot \cup {NoSlot}]
  BY DEF Init
<1> QED
  BY <1>1, <1>2, <1>3 DEF Init, TypeOK

(* The events, the listeners and the jobs. *)
LEMMA JobType ==
    ASSUME TypeOK, Shapes, NEW r \in Slot, Events(r) \/ queueJob(r)
    PROVE  TypeOK' /\ Shapes'
<1>1. CASE AskToken(r)
  <2> DEFINE c == [Free EXCEPT !.pc = "check", !.kind = "caller"]
  <2>1. c \in Coroutine /\ Shape(c)
    BY NewSlot DEF Free, Coroutine, Shape, Out, Running
  <2>2. Set(r, c) /\ Rest
    BY <1>1 DEF AskToken, Call, Event, Rest, TypeOK, token, external
  <2> HIDE DEF c
  <2> QED
    BY <2>1, <2>2, SetType
<1>2. ASSUME NEW kind \in Command \ {"block"}, Ask(r, kind)
      PROVE  TypeOK' /\ Shapes'
  <2>1. kind \in Kind
    BY CommandAssumption
  <2>2. Set(r, New(kind)) /\ Rest
    BY <1>2 DEF Ask, Event, Rest, TypeOK, token, external
  <2> QED
    BY <2>1, <2>2, NewSlot, NewShape, SetType
<1>3. ASSUME NEW s \in Slot, AskBlock(r, s)
      PROVE  TypeOK' /\ Shapes'
  <2>1. New("block") \in Coroutine /\ Shape(New("block"))
    BY Kinds, NewSlot, NewShape
  <2>2. co' = [co EXCEPT ![r] = New("block"), ![s] = New("block")] /\ Rest
    BY <1>3 DEF AskBlock, Event, Rest, TypeOK, token, external
  <2>3. co' \in [Slot -> Coroutine] /\ \A q \in Slot : co'[q] \in {co[q], New("block")}
    BY <2>1, <2>2 DEF TypeOK
  <2> QED
    BY <2>1, <2>2, <2>3 DEF TypeOK, Shapes, Rest
<1>4. CASE Dropped(r)
  BY <1>4, NewSlot, NewShape, SetType DEF Dropped, Rest, TypeOK, token, external
<1>5. CASE Launched(r)
  <2>1. Goto(r, "sent") /\ Rest /\ co[r].kind = "delete"
    BY <1>5 DEF Launched, At, Rest, TypeOK, token, external
  <2>2. ~co[r].ok
    BY <2>1 DEF Shapes, Shape
  <2> QED
    BY <2>1, <2>2, MoveType DEF Running
<1>6. CASE Queued(r)
  <2>1. /\ co' \in [Slot -> Coroutine] /\ \A s \in Slot \ {r} : co'[s] = co[s]
        /\ co[r].kind \in Kind /\ raced' \in {raced, raced \cup {co[r].kind}}
        /\ UNCHANGED <<token, state, last, external, events, givenUp>>
    BY <1>6, QueuedSlot, Kinds
  <2>2. Rest
    BY <2>1 DEF Rest, TypeOK, token, external
  <2>3. Shape(co'[r])
    BY <1>6, QueuedSlot DEF Shape, Out
  <2> QED
    BY <2>1, <2>2, <2>3 DEF TypeOK, Shapes, Rest
<1>7. CASE Assign(r)
  <2> DEFINE c == [co[r] EXCEPT !.assign = NoSlot]
  <2>1. co[r] \in Coroutine /\ Shape(co[r])
    BY DEF TypeOK, Shapes
  <2>2. c \in Coroutine /\ Shape(c)
    BY <2>1 DEF Coroutine, Shape
  <2>3. Set(r, c) /\ last' = [last EXCEPT ![co[r].kind] = Stores(r)]
        /\ UNCHANGED <<token, state, external, events, raced, givenUp>>
    BY <1>7 DEF Assign, Stores
  <2>4. Stores(r) \in Slot \cup {NoSlot}
    BY <2>1 DEF Coroutine, Stores, Uncompleted
  <2>5. Rest
    BY <2>3, <2>4 DEF Rest, TypeOK, token, external
  <2> HIDE DEF c
  <2> QED
    BY <2>2, <2>3, <2>5, SetType
<1>8. CASE Begin(r)
  <2> DEFINE pc == IF \/ co[r].kind = "login" /\ state = "Admin"
                      \/ co[r].kind = "logout" /\ state # "Admin" THEN "over" ELSE "sent"
  <2>1. Goto(r, pc) /\ Rest /\ co[r].pc = "join"
    BY <1>8 DEF Begin, Rest, TypeOK, token, external
  <2>2. ~co[r].ok /\ pc \in {"over", "sent"}
    BY <2>1 DEF Shapes, Shape
  <2> HIDE DEF pc
  <2> QED
    BY <2>1, <2>2, MoveType DEF Running, Ended
<1>9. CASE Finish(r)
  <2>1. Rest
    BY <1>9, FinishSlot DEF Rest, TypeOK, token, external
  <2>2. ASSUME NEW s \in Slot \ {r}
        PROVE  Shape(co'[s])
    BY <1>9, FinishSlot, SlotAssumption DEF Shapes, Shape
  <2> QED
    BY <1>9, <2>1, <2>2, FinishSlot DEF TypeOK, Shapes, Rest
<1> QED
  BY <1>1, <1>2, <1>3, <1>4, <1>5, <1>6, <1>7, <1>8, <1>9 DEF Events, queueJob

(* The requests. *)
LEMMA RequestType ==
    ASSUME TypeOK, Shapes, NEW r \in Slot, Request(r)
    PROVE  TypeOK' /\ Shapes'
<1>0. co[r] \in Coroutine /\ Shape(co[r])
  BY DEF TypeOK, Shapes
<1>1. CASE Serve(r)
  <2> DEFINE ok == co[r].kind = "login"
             c == [co[r] EXCEPT !.pc = "answered", !.ok = ok]
  <2>1. ok \in BOOLEAN
    OBVIOUS
  <2> HIDE DEF ok
  <2>2. /\ c \in Coroutine /\ c.pc = "answered" /\ c.kind = co[r].kind /\ c.ok = ok
        /\ c.assign = co[r].assign
    BY <1>0, <2>1 DEF Coroutine, Running
  <2>3. Set(r, c) /\ co[r].pc = "sent" /\ Effect(co[r].kind)
        /\ UNCHANGED <<token, state, last, late, events, raced, givenUp>>
    BY <1>1 DEF Serve, At, ok
  <2>4. Shape(c)
    BY <1>0, <2>2, <2>3 DEF Shape, Out, ok
  <2>5. serverAdmin' \in BOOLEAN
    BY <2>3 DEF Effect, TypeOK
  <2>6. Rest
    BY <2>3, <2>5 DEF Rest, TypeOK, token
  <2> HIDE DEF c
  <2> QED
    BY <2>2, <2>3, <2>4, <2>6, SetType
<1>2. CASE Fail(r)
  BY <1>2, <1>0, MoveType DEF Fail, At, Rest, TypeOK, token, external, Running, Shape
<1>3. CASE GiveUp(r)
  <2>1. Goto(r, "answered") /\ co[r].pc = "sent"
    BY <1>3 DEF GiveUp, At
  <2>2. Rest
    BY <1>3 DEF GiveUp, At, Rest, TypeOK, token
  <2> QED
    BY <1>0, <2>1, <2>2, MoveType DEF Running, Shape
<1>4. CASE LoggedIn(r)
  <2>1. Goto(r, "done") /\ co[r].kind = "login"
    BY <1>4 DEF LoggedIn, At
  <2>2. Rest
    BY <1>4 DEF LoggedIn, Rest, TypeOK, token, external
  <2> QED
    BY <1>0, <2>1, <2>2, Kinds, MoveType DEF Ended
<1>5. CASE LoggedOut(r)
  <2>1. Goto(r, "done") /\ co[r].kind = "logout"
    BY <1>5 DEF LoggedOut, At
  <2>2. Rest
    BY <1>5 DEF LoggedOut, Rest, TypeOK, token, external
  <2> QED
    BY <1>0, <2>1, <2>2, Kinds, MoveType DEF Ended
<1>6. CASE OtherReceived(r)
  <2>1. Goto(r, "done") /\ co[r].kind \in Kind
    BY <1>6 DEF OtherReceived, At
  <2>2. Rest
    BY <1>6 DEF OtherReceived, Rest, TypeOK, token, external
  <2> QED
    BY <1>0, <2>1, <2>2, MoveType DEF Ended
<1> QED
  BY <1>1, <1>2, <1>3, <1>4, <1>5, <1>6 DEF Request

(* Where updateToken leaves its caller. *)
LEMMA ReturnType ==
    ASSUME TypeOK, Shapes, Rest, NEW r \in Slot, Return(r), ~co[r].ok
    PROVE  TypeOK' /\ Shapes'
<1> DEFINE pc == IF co[r].kind = "caller" THEN "over" ELSE "answered"
<1>1. Goto(r, pc) /\ pc \in {"over", "answered"}
  BY DEF Return
<1> HIDE DEF pc
<1> QED
  BY <1>1, MoveType DEF Running, Ended

(* The updates of the token. *)
LEMMA TokenType ==
    ASSUME TypeOK, Shapes, NEW r \in Slot, Token(r)
    PROVE  TypeOK' /\ Shapes'
<1>0. /\ co[r] \in Coroutine /\ Shape(co[r]) /\ UNCHANGED <<state, last, external, events, raced, givenUp>>
      /\ updateJob \in Slot \cup {NoSlot, Completed}
  BY DEF TypeOK, Shapes, Token
<1>1. CASE Check(r)
  <2> DEFINE pc == IF updateJob # NoSlot THEN "join update" ELSE "start"
  <2>1. Goto(r, pc) /\ Rest /\ pc \in Running /\ co[r].pc = "check"
    BY <1>0, <1>1 DEF Check, Rest, TypeOK, token, external, Running
  <2>2. ~co[r].ok /\ pc \notin {"done", "join"}
    BY <1>0, <2>1 DEF Shape
  <2> HIDE DEF pc
  <2> QED
    BY <2>1, <2>2, MoveType
<1>2. CASE JoinUpdate(r)
  <2>1. Rest /\ co[r].pc = "join update"
    BY <1>0, <1>2 DEF JoinUpdate, Rest, TypeOK, token, external
  <2>2. ~co[r].ok
    BY <1>0, <2>1 DEF Shape
  <2>3. Return(r) \/ Waits(r, "await", updateJob)
    BY <1>2 DEF JoinUpdate
  <2> QED
    BY <1>0, <2>1, <2>2, <2>3, ReturnType, WaitType DEF Running
<1>3. CASE AwaitOwn(r)
  <2>1. Rest /\ co[r].pc = "own"
    BY <1>0, <1>3 DEF AwaitOwn, Rest, TypeOK, external
  <2>2. ~co[r].ok
    BY <1>0, <2>1 DEF Shape
  <2>3. Goto(r, "over") \/ Waits(r, "await own", updateJob)
    BY <1>3 DEF AwaitOwn
  <2> QED
    BY <1>0, <2>1, <2>2, <2>3, MoveType, WaitType DEF Running, Ended
<1>4. CASE Awaited(r)
  <2>1. Rest /\ co[r].pc = "await" /\ Return(r)
    BY <1>0, <1>4 DEF Awaited, Rest, TypeOK, token, external
  <2> QED
    BY <1>0, <2>1, ReturnType DEF Shape
<1>5. CASE ClearOwn(r)
  <2>1. Rest /\ co[r].pc = "await own" /\ Return(r)
    BY <1>0, <1>5 DEF ClearOwn, Rest, TypeOK, external
  <2> QED
    BY <1>0, <2>1, ReturnType DEF Shape
<1>6. ASSUME NEW s \in Slot, Start(r, s)
      PROVE  TypeOK' /\ Shapes'
  <2> DEFINE c == [co[r] EXCEPT !.pc = "own"]
             d == [Free EXCEPT !.pc = "sent"]
  <2>1. /\ co[r].pc = "start" /\ co[s].pc = "free" /\ updateJob' = s
        /\ overlapped' = (overlapped \/ \E q \in Slot : co[q].pc \in {"own", "await own"})
        /\ UNCHANGED <<refused, crashed>>
    BY <1>6 DEF Start
  <2>2. co' = [co EXCEPT ![r] = c, ![s] = d]
    BY <1>6 DEF Start, TypeOK
  <2>3. Rest
    BY <1>0, <2>1 DEF Rest, TypeOK, external
  <2>4. c \in Coroutine /\ d \in Coroutine
    BY <1>0, NewSlot DEF Coroutine, Running
  <2>5. Shape(d)
    BY DEF Shape, Free, Out
  <2>6. Shape(c)
    BY <1>0, <2>1 DEF Shape, Out, Coroutine
  <2> HIDE DEF c, d
  <2>7. co' \in [Slot -> Coroutine] /\ \A q \in Slot : co'[q] \in {co[q], c, d}
    BY <2>2, <2>4 DEF TypeOK
  <2> QED
    BY <2>3, <2>5, <2>6, <2>7 DEF TypeOK, Shapes, Rest
<1>7. CASE Identified(r)
  <2>1. Rest /\ co[r].kind = "update" /\ Goto(r, "over")
    BY <1>0, <1>7 DEF Identified, Rest, TypeOK, token, external
  <2> QED
    BY <1>0, <2>1, MoveType DEF Shape, Ended
<1>8. CASE Refused(r)
  <2>1. Rest /\ co[r].pc = "sent" /\ Goto(r, "check")
    BY <1>0, <1>8 DEF Refused, Rest, TypeOK, external
  <2> QED
    BY <1>0, <2>1, MoveType DEF Shape, Running
<1> QED
  BY <1>1, <1>2, <1>3, <1>4, <1>5, <1>6, <1>7, <1>8 DEF Token, updateToken

(* Every step keeps types and shapes. *)
LEMMA TypeStep == TypeOK /\ Shapes /\ [Next]_vars => TypeOK' /\ Shapes'
<1> SUFFICES ASSUME TypeOK, Shapes, [Next]_vars
    PROVE  TypeOK' /\ Shapes'
  OBVIOUS
<1>1. ASSUME NEW kind \in {"login", "logout"}, ServeLate(kind)
      PROVE  TypeOK' /\ Shapes'
  <2>1. serverAdmin' \in BOOLEAN
    BY <1>1 DEF ServeLate, Effect, TypeOK
  <2> QED
    BY <1>1, <2>1 DEF ServeLate, TypeOK, Shapes, Shape, token
<1>2. CASE UNCHANGED vars
  BY <1>2 DEF vars, TypeOK, Shapes, Shape, token, external
<1> QED
  BY <1>1, <1>2, JobType, RequestType, TokenType DEF Next

-----------------------------------------------------------------------------
(* What a step does to the lines *)

Kept(s) ==
    /\ co'[s].pc = co[s].pc /\ co'[s].kind = co[s].kind /\ co'[s].assign = co[s].assign
    /\ co[s].pc = "join" => co'[s].after = co[s].after

(* Not yet queued, or not of a kind that is. *)
Bystander(s) == co[s].pc \in Out \/ co[s].kind \notin QueuedKind

Advances(s) ==
    /\ co[s].pc \in Running \/ (co[s].pc = "join" /\ co[s].after = NoSlot)
    /\ co'[s].pc \in Running \cup Ended
    /\ co'[s].kind = co[s].kind /\ co'[s].assign = co[s].assign

Steady ==
    /\ last' = last /\ raced' = raced
    /\ \A s \in Slot : Kept(s) \/ (Bystander(s) /\ Bystander(s)') \/ Advances(s)

(* One coroutine moves, or waits. *)
LEMMA SteadyMove ==
    ASSUME TypeOK, NEW r \in Slot, last' = last, raced' = raced,
           \A s \in Slot \ {r} : co'[s] = co[s], Advances(r)
    PROVE  Steady
BY DEF Steady, Kept

(* One coroutine moves, and the fields of the jobs stay. *)
LEMMA SteadyGoto ==
    ASSUME TypeOK, NEW r \in Slot, last' = last, raced' = raced,
           NEW pc \in Running \cup Ended, Goto(r, pc),
           co[r].pc \in Running \/ (co[r].pc = "join" /\ co[r].after = NoSlot)
    PROVE  Steady
BY GotoSlot, SteadyMove DEF Advances

(* updateToken returns to its caller. *)
LEMMA SteadyReturn ==
    ASSUME TypeOK, NEW r \in Slot, last' = last, raced' = raced, Return(r), co[r].pc \in Running
    PROVE  Steady
<1> DEFINE pc == IF co[r].kind = "caller" THEN "over" ELSE "answered"
<1>1. Goto(r, pc) /\ pc \in Running \cup Ended
  BY DEF Return, Running, Ended
<1> HIDE DEF pc
<1> QED
  BY <1>1, SteadyGoto

(* A coroutine begins to wait for another. *)
LEMMA SteadyWait ==
    ASSUME TypeOK, NEW r \in Slot, last' = last, raced' = raced, NEW pc \in Running,
           NEW job \in Slot \cup {NoSlot, Completed}, Waits(r, pc, job), co[r].pc \in Running
    PROVE  Steady
BY WaitSlot, SteadyMove DEF Advances

(* An event: the slots that change were free. *)
LEMMA SteadyNew ==
    ASSUME last' = last, raced' = raced,
           \A s \in Slot : co'[s] = co[s] \/ (Bystander(s) /\ Bystander(s)')
    PROVE  Steady
BY DEF Steady, Kept

(* The steps of events and jobs are steady, but for the three that change a line. *)
LEMMA JobSteady ==
    ASSUME TypeOK, Shapes, NEW r \in Slot, Events(r) \/ queueJob(r)
    PROVE  Steady \/ Queued(r) \/ Assign(r) \/ Finish(r)
<1>1. CASE AskToken(r)
  <2> DEFINE c == [Free EXCEPT !.pc = "check", !.kind = "caller"]
  <2>1. c \in Coroutine /\ c.kind = "caller"
    BY NewSlot DEF Free, Coroutine, Running
  <2>2. Set(r, c) /\ co[r].pc = "free" /\ last' = last /\ raced' = raced
    BY <1>1 DEF AskToken, Call
  <2> HIDE DEF c
  <2>3. Bystander(r) /\ Bystander(r)' /\ \A s \in Slot \ {r} : co'[s] = co[s]
    BY <2>1, <2>2, SetSlot, Kinds DEF Bystander, Out
  <2> QED
    BY <2>2, <2>3, SteadyNew
<1>2. ASSUME NEW kind \in Command \ {"block"}, Ask(r, kind)
      PROVE  Steady
  <2>1. New(kind) \in Coroutine /\ New(kind).pc = "listen"
    BY CommandAssumption, NewSlot
  <2>2. Set(r, New(kind)) /\ co[r].pc = "free" /\ last' = last /\ raced' = raced
    BY <1>2 DEF Ask
  <2>3. Bystander(r) /\ Bystander(r)' /\ \A s \in Slot \ {r} : co'[s] = co[s]
    BY <2>1, <2>2, SetSlot DEF Bystander, Out
  <2> QED
    BY <2>2, <2>3, SteadyNew
<1>3. ASSUME NEW s \in Slot, AskBlock(r, s)
      PROVE  Steady
  <2>1. New("block").pc = "listen"
    BY Kinds, NewSlot
  <2>2. /\ co' = [co EXCEPT ![r] = New("block"), ![s] = New("block")]
        /\ co[r].pc = "free" /\ co[s].pc = "free" /\ last' = last /\ raced' = raced
    BY <1>3 DEF AskBlock
  <2>3. \A q \in Slot : co'[q] = co[q] \/ (co'[q] = New("block") /\ q \in {r, s})
    BY <2>2 DEF TypeOK
  <2>4. \A q \in Slot : co'[q] = co[q] \/ (Bystander(q) /\ Bystander(q)')
    BY <2>1, <2>2, <2>3 DEF Bystander, Out
  <2> QED
    BY <2>2, <2>4, SteadyNew
<1>4. CASE Dropped(r)
  <2>1. Set(r, Free) /\ co[r].pc = "listen" /\ last' = last /\ raced' = raced
    BY <1>4 DEF Dropped
  <2>2. Bystander(r) /\ Bystander(r)' /\ \A s \in Slot \ {r} : co'[s] = co[s]
    BY <2>1, SetSlot, NewSlot DEF Bystander, Out
  <2> QED
    BY <2>1, <2>2, SteadyNew
<1>5. CASE Launched(r)
  <2>1. Goto(r, "sent") /\ co[r].kind = "delete" /\ last' = last /\ raced' = raced
    BY <1>5 DEF Launched, At
  <2>2. Bystander(r) /\ Bystander(r)' /\ \A s \in Slot \ {r} : co'[s] = co[s]
    BY <2>1, GotoSlot, Kinds DEF Bystander, Running
  <2> QED
    BY <2>1, <2>2, SteadyNew
<1>6. CASE Begin(r)
  <2> DEFINE pc == IF \/ co[r].kind = "login" /\ state = "Admin"
                      \/ co[r].kind = "logout" /\ state # "Admin" THEN "over" ELSE "sent"
  <2>1. /\ Goto(r, pc) /\ pc \in Running \cup Ended /\ co[r].pc = "join" /\ co[r].after = NoSlot
        /\ last' = last /\ raced' = raced
    BY <1>6 DEF Begin, Running, Ended
  <2> HIDE DEF pc
  <2> QED
    BY <2>1, SteadyGoto
<1> QED
  BY <1>1, <1>2, <1>3, <1>4, <1>5, <1>6 DEF Events, queueJob

(* So are the steps of a request. *)
LEMMA RequestSteady ==
    ASSUME TypeOK, Shapes, NEW r \in Slot, Request(r)
    PROVE  Steady
<1>1. CASE Serve(r)
  <2> DEFINE ok == co[r].kind = "login"
             c == [co[r] EXCEPT !.pc = "answered", !.ok = ok]
  <2>1. co[r] \in Coroutine /\ ok \in BOOLEAN
    BY DEF TypeOK
  <2> HIDE DEF ok
  <2>2. c \in Coroutine /\ c.pc = "answered" /\ c.kind = co[r].kind /\ c.assign = co[r].assign
    BY <2>1 DEF Coroutine, Running
  <2>3. Set(r, c) /\ co[r].pc = "sent" /\ last' = last /\ raced' = raced
    BY <1>1 DEF Serve, At, ok
  <2> HIDE DEF c
  <2>4. Advances(r) /\ \A s \in Slot \ {r} : co'[s] = co[s]
    BY <2>2, <2>3, SetSlot DEF Advances, Running
  <2> QED
    BY <2>3, <2>4, SteadyMove
<1>2. CASE Fail(r)
  BY <1>2, SteadyGoto DEF Fail, At, Running
<1>3. CASE GiveUp(r)
  BY <1>3, SteadyGoto DEF GiveUp, At, Running
<1>4. CASE LoggedIn(r)
  BY <1>4, SteadyGoto DEF LoggedIn, At, Running, Ended
<1>5. CASE LoggedOut(r)
  BY <1>5, SteadyGoto DEF LoggedOut, At, Running, Ended
<1>6. CASE OtherReceived(r)
  BY <1>6, SteadyGoto DEF OtherReceived, At, Running, Ended
<1> QED
  BY <1>1, <1>2, <1>3, <1>4, <1>5, <1>6 DEF Request

(* So are those of updateToken and of an update. *)
LEMMA TokenSteady ==
    ASSUME TypeOK, Shapes, NEW r \in Slot, Token(r)
    PROVE  Steady
<1>0. last' = last /\ raced' = raced /\ updateJob \in Slot \cup {NoSlot, Completed}
  BY DEF Token, TypeOK
<1>1. CASE Check(r)
  <2> DEFINE pc == IF updateJob # NoSlot THEN "join update" ELSE "start"
  <2>1. Goto(r, pc) /\ pc \in Running /\ co[r].pc \in Running
    BY <1>1 DEF Check, Running
  <2> HIDE DEF pc
  <2> QED
    BY <1>0, <2>1, SteadyGoto
<1>2. CASE JoinUpdate(r)
  <2>1. co[r].pc \in Running /\ "await" \in Running /\ (Return(r) \/ Waits(r, "await", updateJob))
    BY <1>2 DEF JoinUpdate, Running
  <2> QED
    BY <1>0, <2>1, SteadyReturn, SteadyWait
<1>3. CASE AwaitOwn(r)
  <2>1. /\ co[r].pc \in Running /\ "await own" \in Running /\ "over" \in Ended
        /\ Goto(r, "over") \/ Waits(r, "await own", updateJob)
    BY <1>3 DEF AwaitOwn, Running, Ended
  <2> QED
    BY <1>0, <2>1, SteadyGoto, SteadyWait
<1>4. CASE Awaited(r)
  BY <1>0, <1>4, SteadyReturn DEF Awaited, Running
<1>5. CASE ClearOwn(r)
  BY <1>0, <1>5, SteadyReturn DEF ClearOwn, Running
<1>6. ASSUME NEW s \in Slot, Start(r, s)
      PROVE  Steady
  <2> DEFINE c == [co[r] EXCEPT !.pc = "own"]
             d == [Free EXCEPT !.pc = "sent"]
  <2>1. co[r].pc = "start" /\ co[s].pc = "free" /\ co' = [co EXCEPT ![r] = c, ![s] = d]
    BY <1>6 DEF Start, TypeOK
  <2>2. co[r] \in Coroutine /\ r # s
    BY <2>1 DEF TypeOK
  <2>3. /\ c.pc = "own" /\ c.kind = co[r].kind /\ c.assign = co[r].assign
        /\ d.kind = "update"
    BY <2>2 DEF Coroutine, Free
  <2> HIDE DEF c, d
  <2>4. co'[r] = c /\ co'[s] = d /\ \A q \in Slot \ {r, s} : co'[q] = co[q]
    BY <2>1, <2>2 DEF TypeOK
  <2>5. Advances(r)
    BY <2>1, <2>3, <2>4 DEF Advances, Running
  <2>6. Bystander(s) /\ Bystander(s)'
    BY <2>1, <2>3, <2>4, Kinds DEF Bystander, Out
  <2> QED
    BY <1>0, <2>4, <2>5, <2>6 DEF Steady, Kept
<1>7. CASE Identified(r)
  BY <1>0, <1>7, SteadyGoto DEF Identified, Running, Ended
<1>8. CASE Refused(r)
  BY <1>0, <1>8, SteadyGoto DEF Refused, Running
<1> QED
  BY <1>1, <1>2, <1>3, <1>4, <1>5, <1>6, <1>7, <1>8 DEF Token, updateToken

(* Hence every step is, but for those three: queue, assign, finish. *)
LEMMA Steadies ==
    ASSUME TypeOK, Shapes, [Next]_vars
    PROVE  Steady \/ \E r \in Slot : Queued(r) \/ Assign(r) \/ Finish(r)
<1>1. ASSUME NEW kind \in {"login", "logout"}, ServeLate(kind)
      PROVE  Steady
  BY <1>1, SteadyNew DEF ServeLate
<1>2. CASE UNCHANGED vars
  BY <1>2, SteadyNew DEF vars
<1> QED
  BY <1>1, <1>2, JobSteady, RequestSteady, TokenSteady DEF Next

-----------------------------------------------------------------------------
(* The lines *)

(* References to jobs outlive a steady step. *)
LEMMA SteadyRefs ==
    ASSUME TypeOK, Shapes, Shapes', JobRefs, Steady
    PROVE  JobRefs'
<1>1. \A p \in Slot : ~Bystander(p) =>
          (co[p].pc \notin Out => co'[p].pc \notin Out) /\ co'[p].kind = co[p].kind
  BY DEF Steady, Kept, Advances, Running, Ended, Out
<1>2. ASSUME NEW r \in Slot, co'[r].pc = "join"
      PROVE  co[r].pc = "join" /\ co'[r].after = co[r].after /\ co'[r].kind = co[r].kind
  <2>1. ~Bystander(r)'
    BY <1>2 DEF Shapes, Shape, Bystander, Out
  <2> QED
    BY <1>2, <2>1 DEF Steady, Kept, Advances, Running, Ended
<1>3. ASSUME NEW r \in Slot, co'[r].assign \in Slot
      PROVE  co'[r].assign = co[r].assign /\ co'[r].kind = co[r].kind
  <2>1. ~Bystander(r)'
    BY <1>3, SlotAssumption DEF Shapes, Shape, Bystander
  <2> QED
    BY <2>1 DEF Steady, Kept, Advances
<1>4. \A r \in Slot : co[r].pc = "join" \/ co[r].assign \in Slot => co[r].kind \in QueuedKind
  BY SlotAssumption DEF Shapes, Shape
<1>5. \A p \in Slot : co[p].pc \notin Out /\ co[p].kind \in QueuedKind => ~Bystander(p)
  BY DEF Bystander
<1>6. ASSUME NEW r \in Slot, co'[r].pc = "join", co'[r].after \in Slot
      PROVE  co'[co'[r].after].pc \notin Out /\ co'[co'[r].after].kind = co'[r].kind
  BY <1>1, <1>2, <1>4, <1>5, <1>6 DEF JobRefs
<1>7. ASSUME NEW r \in Slot, co'[r].assign \in Slot
      PROVE  co'[co'[r].assign].pc \notin Out /\ co'[co'[r].assign].kind = co'[r].kind
  BY <1>1, <1>3, <1>4, <1>5, <1>7 DEF JobRefs
<1>8. ASSUME NEW kind \in QueuedKind, last'[kind] \in Slot
      PROVE  co'[last'[kind]].pc \notin Out /\ co'[last'[kind]].kind = kind
  BY <1>1, <1>5, <1>8 DEF JobRefs, Steady
<1> QED
  BY <1>6, <1>7, <1>8 DEF JobRefs

(* A listener that queues keeps them: it refers to the last job, or to none. *)
LEMMA QueuedRefs ==
    ASSUME TypeOK, Shapes, JobRefs, NEW r \in Slot, Queued(r)
    PROVE  JobRefs'
<1>1. /\ co[r].pc = "listen" /\ co[r].kind \in QueuedKind /\ co'[r].pc \notin Out
      /\ co'[r].kind = co[r].kind /\ last' = last
      /\ \A s \in Slot \ {r} : co'[s] = co[s]
      /\ co'[r].pc = "join" => co'[r].after = last[co[r].kind]
      /\ co'[r].assign \in {r, last[co[r].kind]}
  BY QueuedSlot DEF Out
<1>2. \A p \in Slot : co[p].pc \notin Out => co'[p] = co[p] /\ p # r
  BY <1>1 DEF Out
<1>3. ASSUME NEW s \in Slot, s # r
      PROVE  /\ co'[s].pc = "join" /\ co'[s].after \in Slot =>
                   co'[co'[s].after].pc \notin Out /\ co'[co'[s].after].kind = co'[s].kind
             /\ co'[s].assign \in Slot =>
                   co'[co'[s].assign].pc \notin Out /\ co'[co'[s].assign].kind = co'[s].kind
  BY <1>1, <1>2, <1>3 DEF JobRefs
<1>4. last[co[r].kind] \in Slot =>
          co'[last[co[r].kind]].pc \notin Out /\ co'[last[co[r].kind]].kind = co[r].kind
  BY <1>1, <1>2 DEF JobRefs
<1>5. \A kind \in QueuedKind : last'[kind] \in Slot =>
          co'[last'[kind]].pc \notin Out /\ co'[last'[kind]].kind = kind
  BY <1>1, <1>2 DEF JobRefs
<1> QED
  BY <1>1, <1>3, <1>4, <1>5 DEF JobRefs

(* The slot and the field in Assign. *)
LEMMA AssignSlot ==
    ASSUME TypeOK, Shapes, NEW r \in Slot, Assign(r)
    PROVE  /\ co' \in [Slot -> Coroutine] /\ \A s \in Slot \ {r} : co'[s] = co[s]
           /\ co[r].assign # NoSlot /\ co'[r].assign = NoSlot /\ co'[r].pc = co[r].pc
           /\ co'[r].kind = co[r].kind /\ co'[r].after = co[r].after /\ co'[r].ok = co[r].ok
           /\ co[r].kind \in QueuedKind
           /\ last'[co[r].kind] = Stores(r)
           /\ \A kind \in Kind \ {co[r].kind} : last'[kind] = last[kind]
           /\ UNCHANGED <<token, state, external, events, raced, givenUp>>
<1> DEFINE c == [co[r] EXCEPT !.assign = NoSlot]
<1>1. co[r] \in Coroutine /\ Shape(co[r])
  BY DEF TypeOK, Shapes
<1>2. /\ c \in Coroutine /\ c.pc = co[r].pc /\ c.kind = co[r].kind /\ c.after = co[r].after
      /\ c.ok = co[r].ok /\ c.assign = NoSlot
  BY <1>1 DEF Coroutine
<1>3. /\ Set(r, c) /\ last' = [last EXCEPT ![co[r].kind] = Stores(r)] /\ co[r].assign # NoSlot
      /\ UNCHANGED <<token, state, external, events, raced, givenUp>>
  BY DEF Assign, Stores
<1> HIDE DEF c
<1>4. co[r].kind \in QueuedKind
  BY <1>1, <1>3 DEF Shape
<1>5. /\ last'[co[r].kind] = Stores(r)
      /\ \A kind \in Kind \ {co[r].kind} : last'[kind] = last[kind]
  BY <1>3, <1>4, Kinds DEF TypeOK
<1> QED
  BY <1>2, <1>3, <1>4, <1>5, SetSlot

(* The field is given a job of its kind. *)
LEMMA AssignRefs ==
    ASSUME TypeOK, Shapes, JobRefs, NEW r \in Slot, Assign(r)
    PROVE  JobRefs'
<1>1. \A p \in Slot : /\ co'[p].pc = co[p].pc /\ co'[p].kind = co[p].kind
                      /\ co'[p].after = co[p].after
                      /\ co'[p].assign \in {co[p].assign, NoSlot}
  BY AssignSlot
<1>2. \A kind \in QueuedKind : last'[kind] \in Slot =>
          co[last'[kind]].pc \notin Out /\ co[last'[kind]].kind = kind
  BY AssignSlot, Kinds, SlotAssumption DEF JobRefs, Stores, Uncompleted
<1>3. \A p \in Slot : co'[p].assign \in Slot => co'[p].assign = co[p].assign
  BY <1>1, SlotAssumption
<1> QED
  BY <1>1, <1>2, <1>3 DEF JobRefs

(* A job that ends leaves no reference to it. *)
LEMMA FinishRefs ==
    ASSUME TypeOK, Shapes, JobRefs, NEW r \in Slot, Finish(r)
    PROVE  JobRefs'
<1>1. \A p \in Slot : p # r => co'[p].pc = co[p].pc /\ co'[p].kind = co[p].kind
  BY FinishSlot
<1>2. ASSUME NEW s \in Slot
      PROVE  /\ co'[s].after \in Slot /\ co'[s].pc = "join" =>
                   s # r /\ co'[s].after = co[s].after /\ co[s].after # r
             /\ co'[s].assign \in Slot => s # r /\ co'[s].assign = co[s].assign /\ co[s].assign # r
  BY FinishSlot, SlotAssumption DEF Out
<1>3. \A kind \in QueuedKind : last'[kind] \in Slot => last'[kind] = last[kind] /\ last[kind] # r
  BY FinishSlot, SlotAssumption, Kinds
<1> QED
  BY <1>1, <1>2, <1>3 DEF JobRefs

(* Who joins after the step joined before it, the same job or none: no circle is new. *)
LEMMA LineKept ==
    ASSUME LineInv, \A s \in Slot : co'[s].pc = "join" =>
                        co[s].pc = "join" /\ co'[s].after \in {co[s].after, NoSlot}
    PROVE  LineInv'
<1> SUFFICES ASSUME NEW jobs \in SUBSET Slot, jobs # {}, \A r \in jobs : co'[r].pc = "join"
    PROVE  \E r \in jobs : co'[r].after \notin jobs
  BY DEF LineInv
<1>1. PICK r \in jobs : co[r].after \notin jobs
  BY DEF LineInv
<1> QED
  BY <1>1, SlotAssumption

(* The job that is queued is joined by nobody. *)
LEMMA QueuedLine ==
    ASSUME TypeOK, Shapes, JobRefs, LineInv, NEW r \in Slot, Queued(r)
    PROVE  LineInv'
<1>1. /\ co[r].pc = "listen" /\ co[r].kind \in QueuedKind
      /\ \A s \in Slot \ {r} : co'[s] = co[s]
      /\ co'[r].pc = "join" => co'[r].after = last[co[r].kind]
  BY QueuedSlot
<1>2. last[co[r].kind] # r
  BY <1>1 DEF JobRefs, Out
<1>3. \A s \in Slot : co[s].pc = "join" => co[s].after # r
  BY <1>1 DEF JobRefs, Out
<1> SUFFICES ASSUME NEW jobs \in SUBSET Slot, jobs # {}, \A s \in jobs : co'[s].pc = "join"
    PROVE  \E s \in jobs : co'[s].after \notin jobs
  BY DEF LineInv
<1>4. CASE jobs = {r}
  BY <1>1, <1>2, <1>4
<1>5. CASE jobs # {r}
  <2>1. jobs \ {r} # {} /\ jobs \ {r} \in SUBSET Slot /\ \A s \in jobs \ {r} : co[s].pc = "join"
    BY <1>1, <1>5
  <2>2. PICK s \in jobs \ {r} : co[s].after \notin jobs \ {r}
    BY <2>1 DEF LineInv
  <2> QED
    BY <1>1, <1>3, <2>1, <2>2
<1> QED
  BY <1>4, <1>5

(* Every step keeps the references and closes no circle of jobs that join. *)
LEMMA LineStep ==
    ASSUME TypeOK, Shapes, Shapes', JobRefs, LineInv, [Next]_vars
    PROVE  JobRefs' /\ LineInv'
<1>1. CASE Steady
  <2>1. \A s \in Slot : co'[s].pc = "join" => co[s].pc = "join" /\ co'[s].after = co[s].after
    BY <1>1 DEF Steady, Kept, Bystander, Advances, Shapes, Shape, Running, Ended, Out
  <2> QED
    BY <1>1, <2>1, SteadyRefs, LineKept
<1>2. ASSUME NEW r \in Slot, Queued(r)
      PROVE  JobRefs' /\ LineInv'
  BY <1>2, QueuedRefs, QueuedLine
<1>3. ASSUME NEW r \in Slot, Assign(r)
      PROVE  JobRefs' /\ LineInv'
  <2>1. \A s \in Slot : co'[s].pc = co[s].pc /\ co'[s].after = co[s].after
    BY <1>3, AssignSlot
  <2> QED
    BY <1>3, <2>1, AssignRefs, LineKept
<1>4. ASSUME NEW r \in Slot, Finish(r)
      PROVE  JobRefs' /\ LineInv'
  <2>1. \A s \in Slot : co'[s].pc = "join" =>
            co[s].pc = "join" /\ co'[s].after \in {co[s].after, NoSlot}
    BY <1>4, FinishSlot DEF Out
  <2> QED
    BY <1>4, <2>1, FinishRefs, LineKept
<1> QED
  BY <1>1, <1>2, <1>3, <1>4, Steadies

(* A step that leaves the line of a kind as it is, but for its head.         *)
Apart(kind, s) == co[s].pc \in Out \/ co[s].kind # kind

SteadyFor(kind) ==
    /\ last'[kind] = last[kind]
    /\ \A s \in Slot : Kept(s) \/ (Apart(kind, s) /\ Apart(kind, s)') \/ Advances(s)

(* A step that is steady for a kind keeps its line. *)
LEMMA SteadyChain ==
    ASSUME Shapes, Shapes', NEW kind \in QueuedKind, Chain(kind), SteadyFor(kind)
    PROVE  Chain(kind)'
<1>1. ASSUME NEW s \in Slot
      PROVE  /\ Assigns(kind, s)' <=> Assigns(kind, s)
             /\ Assigns(kind, s) => Stores(s)' = Stores(s)
             /\ Joins(kind, s)' <=> Joins(kind, s)
             /\ Joins(kind, s) => co'[s].after = co[s].after
             /\ Leads(kind, s)' => Leads(kind, s)
  <2>1. CASE Kept(s)
    BY <2>1 DEF Kept, Assigns, Stores, Uncompleted, Joins, Leads, Running
  <2>2. CASE Apart(kind, s) /\ Apart(kind, s)'
    BY <2>2 DEF Apart, Assigns, Joins, Leads, Shapes, Shape, Out, Running
  <2>3. CASE Advances(s)
    BY <2>3 DEF Advances, Assigns, Stores, Uncompleted, Joins, Leads, Running, Ended
  <2> QED
    BY <2>1, <2>2, <2>3 DEF SteadyFor
<1>2. \A p : Latest(kind, p)' <=> Latest(kind, p)
  BY <1>1 DEF Latest, SteadyFor
<1>3. \A p : Referred(kind, p)' <=> Referred(kind, p)
  BY <1>1, <1>2 DEF Referred
<1>4. ASSUME NEW p \in Slot, Referred(kind, p)
      PROVE  /\ Leaves(kind, p)' => First(kind, p)
             /\ First(kind, p)' \/ Joins(kind, p)'
  <2>1. First(kind, p) \/ Joins(kind, p)
    BY <1>4 DEF Chain
  <2>2. ~Apart(kind, p)
    BY <2>1 DEF Apart, First, Leads, Leaves, Joins, Running, Ended, Out
  <2>3. Leaves(kind, p)' => First(kind, p)
    BY <1>4, <2>1, <2>2 DEF SteadyFor, Kept, Advances, First, Leads, Leaves, Joins, Running, Ended
  <2>4. Referred(kind, p)'
    BY <1>3, <1>4
  <2>5. CASE Joins(kind, p)
    BY <1>1, <2>3, <2>5
  <2>6. CASE First(kind, p)
    BY <2>2, <2>4, <2>6
       DEF SteadyFor, Kept, Advances, First, Leads, Leaves, Running, Ended
  <2> QED
    BY <2>1, <2>3, <2>5, <2>6
<1>5. \A p \in Slot : First(kind, p)' => First(kind, p)
  BY <1>1, <1>3, <1>4 DEF First, Leaves
<1>6. /\ \A r, s \in Slot : Assigns(kind, r)' /\ Assigns(kind, s)' => r = s
      /\ \A r \in Slot : Assigns(kind, r)' => Stores(r)' \in {r, last'[kind]}
  BY <1>1 DEF Chain, SteadyFor
<1>7. \A r, s \in Slot : First(kind, r)' /\ First(kind, s)' => r = s
  BY <1>5 DEF Chain
<1>8. \A p \in Slot : Referred(kind, p)' => First(kind, p)' \/ Joins(kind, p)'
  BY <1>3, <1>4
<1>9. /\ \A r, s \in Slot : Joins(kind, r)' /\ Joins(kind, s)' /\ co'[r].after = co'[s].after => r = s
      /\ \A r \in Slot : Joins(kind, r)' => ~Latest(kind, co[r].after)'
      /\ \A r \in Slot : Joins(kind, r)' => co'[r].after = co[r].after
  BY <1>1, <1>2 DEF Chain
<1>10. Latest(kind, NoSlot)' => \A r \in Slot : ~Leads(kind, r)' /\ ~Joins(kind, r)'
  BY <1>1, <1>2 DEF Chain
<1> QED
  BY <1>6, <1>7, <1>8, <1>9, <1>10 DEF Chain

(* A listener that reads the field while no other is about to write it: the  *)
(* new job is the last, or the skipped one leaves the last as it is.         *)
LEMMA QueuedChain ==
    ASSUME TypeOK, Shapes, Shapes', JobRefs, NEW r \in Slot, Queued(r),
           NEW kind \in QueuedKind, co[r].kind = kind, Chain(kind), kind \notin raced'
    PROVE  Chain(kind)'
<1>1. /\ co[r].pc = "listen" /\ co[r].kind = kind /\ kind \in Kind
      /\ \A s \in Slot \ {r} : co'[s] = co[s]
      /\ co'[r].kind = kind /\ last' = last
      /\ raced' = IF Assigning(kind) # {} THEN raced \cup {kind} ELSE raced
  BY QueuedSlot, Kinds
<1>2. \/ /\ last[kind] # NoSlot /\ co'[r].pc = "over" /\ co'[r].after = NoSlot
         /\ co'[r].assign = last[kind]
      \/ co'[r].pc = "join" /\ co'[r].after = last[kind] /\ co'[r].assign = r
  BY QueuedSlot
<1>3. \A s \in Slot : ~Assigns(kind, s)
  <2>1. Assigning(kind) = {}
    BY <1>1
  <2> QED
    BY <2>1 DEF Assigning, Assigns
<1>4. Chain(kind)
  OBVIOUS
<1>5. last[kind] \in Slot \cup {NoSlot}
  BY <1>1 DEF TypeOK
<1>6. Latest(kind, last[kind]) /\ \A p : Latest(kind, p) => p = last[kind]
  BY <1>3 DEF Latest
<1>7. ~Leads(kind, r) /\ ~Joins(kind, r) /\ ~Leaves(kind, r) /\ ~Referred(kind, r)
  BY <1>1, <1>4 DEF Leads, Joins, Leaves, First, Running, Ended, Chain
<1>8. \A s \in Slot \ {r} : /\ Joins(kind, s)' <=> Joins(kind, s)
                            /\ Leads(kind, s)' <=> Leads(kind, s)
                            /\ ~Assigns(kind, s)'
  BY <1>1, <1>3 DEF Joins, Leads, Assigns
<1>9. Stores(r)' = co'[r].assign
  BY <1>2, <1>5, SlotAssumption DEF Stores, Uncompleted
<1>10. CASE last[kind] # NoSlot /\ co'[r].pc = "over" /\ co'[r].assign = last[kind]
  <2>1. Assigns(kind, r)' /\ ~Joins(kind, r)' /\ ~Leads(kind, r)'
    BY <1>1, <1>10 DEF Assigns, Joins, Leads, Running
  <2>2. \A p : Latest(kind, p)' <=> Latest(kind, p)
    BY <1>6, <1>8, <1>9, <1>10, <2>1 DEF Latest
  <2>3. \A p : Referred(kind, p)' <=> Referred(kind, p)
    BY <1>1, <1>7, <1>8, <2>1, <2>2 DEF Referred
  <2>4. \A p \in Slot : First(kind, p)' <=> First(kind, p)
    BY <1>1, <1>7, <1>8, <2>1, <2>3 DEF First, Leaves
  <2>5. /\ \A p, s \in Slot : Assigns(kind, p)' /\ Assigns(kind, s)' => p = s
        /\ \A p \in Slot : Assigns(kind, p)' => Stores(p)' \in {p, last'[kind]}
    BY <1>1, <1>8, <1>9, <1>10
  <2>6. /\ \A p, s \in Slot : First(kind, p)' /\ First(kind, s)' => p = s
        /\ \A p \in Slot : Referred(kind, p)' => First(kind, p)' \/ Joins(kind, p)'
    BY <1>4, <1>7, <1>8, <2>3, <2>4 DEF Chain
  <2>7. /\ \A p, s \in Slot : Joins(kind, p)' /\ Joins(kind, s)' /\ co'[p].after = co'[s].after => p = s
        /\ \A p \in Slot : Joins(kind, p)' => ~Latest(kind, co[p].after)'
    BY <1>1, <1>4, <1>8, <2>1, <2>2 DEF Chain
  <2>8. Latest(kind, NoSlot)' => \A p \in Slot : ~Leads(kind, p)' /\ ~Joins(kind, p)'
    BY <1>6, <1>10, <2>2
  <2>9. kind' = kind
    BY <1>1
  <2> QED
    BY <2>5, <2>6, <2>7, <2>8, <2>9 DEF Chain
<1>11. CASE co'[r].pc = "join" /\ co'[r].after = last[kind] /\ co'[r].assign = r
  <2>1. Assigns(kind, r)' /\ (Joins(kind, r)' <=> last[kind] # NoSlot)
        /\ (Leads(kind, r)' <=> last[kind] = NoSlot)
    BY <1>1, <1>11, SlotAssumption DEF Assigns, Joins, Leads, Running
  <2>2. \A p : Latest(kind, p)' <=> p = r
    BY <1>8, <1>9, <1>11, <2>1 DEF Latest
  <2>3. \A p \in Slot \ {r} : Referred(kind, p)' <=> Referred(kind, p)
    <3>1. ASSUME NEW p \in Slot \ {r}, Referred(kind, p)
          PROVE  Referred(kind, p)'
      <4>1. CASE Latest(kind, p)
        BY <1>6, <1>11, <2>1, <4>1, SlotAssumption DEF Referred
      <4>2. CASE \E s \in Slot : Joins(kind, s) /\ co[s].after = p
        BY <1>1, <1>7, <1>8, <4>2 DEF Referred
      <4> QED
        BY <3>1, <4>1, <4>2 DEF Referred
    <3>2. ASSUME NEW p \in Slot \ {r}, Referred(kind, p)'
          PROVE  Referred(kind, p)
      <4>1. PICK s \in Slot : Joins(kind, s)' /\ co'[s].after = p
        BY <2>2, <3>2 DEF Referred
      <4> QED
        BY <1>1, <1>6, <1>8, <1>11, <4>1 DEF Referred
    <3> QED
      BY <3>1, <3>2
  <2>4. \A p \in Slot \ {r} : Leaves(kind, p)' <=> Leaves(kind, p)
    BY <1>1, <2>3 DEF Leaves
  <2>5. ~Leaves(kind, r)'
    BY <1>11 DEF Leaves, Ended
  <2>6. /\ \A p, s \in Slot : Assigns(kind, p)' /\ Assigns(kind, s)' => p = s
        /\ \A p \in Slot : Assigns(kind, p)' => Stores(p)' \in {p, last'[kind]}
    BY <1>8, <1>9, <1>11
  <2>7. CASE last[kind] = NoSlot
    <3>1. \A p \in Slot : ~Leads(kind, p) /\ ~Joins(kind, p)
      BY <1>4, <1>6, <2>7 DEF Chain
    <3>2. \A p \in Slot : ~Referred(kind, p)
      BY <1>6, <2>7, <3>1, SlotAssumption DEF Referred
    <3>3. \A p \in Slot : First(kind, p)' => p = r
      BY <1>8, <2>4, <3>1, <3>2 DEF First, Leaves
    <3>4. \A p \in Slot : Referred(kind, p)' => First(kind, p)' \/ Joins(kind, p)'
      BY <2>1, <2>3, <2>7, <3>2 DEF First
    <3>5. \A p \in Slot : ~Joins(kind, p)'
      BY <1>8, <2>1, <2>7, <3>1
    <3>6. ~Latest(kind, NoSlot)'
      BY <2>2, SlotAssumption
    <3> QED
      BY <2>6, <3>3, <3>4, <3>5, <3>6 DEF Chain
  <2>8. CASE last[kind] # NoSlot
    <3>1. \A p \in Slot : First(kind, p)' <=> First(kind, p)
      BY <1>7, <1>8, <2>1, <2>4, <2>5, <2>8 DEF First
    <3>2. \A p \in Slot : Referred(kind, p)' => First(kind, p)' \/ Joins(kind, p)'
      BY <1>4, <1>8, <2>1, <2>3, <2>8, <3>1 DEF Chain
    <3>3. \A p, s \in Slot : First(kind, p)' /\ First(kind, s)' => p = s
      BY <1>4, <3>1 DEF Chain
    <3>4. \A s \in Slot \ {r} : Joins(kind, s)' => co'[s].after # last[kind]
      BY <1>1, <1>4, <1>6, <1>8 DEF Chain
    <3>5. \A p, s \in Slot : Joins(kind, p)' /\ Joins(kind, s)' /\ co'[p].after = co'[s].after => p = s
      BY <1>1, <1>4, <1>8, <1>11, <3>4 DEF Chain
    <3>6. \A p \in Slot : Joins(kind, p)' => co'[p].after # r
      <4>1. \A s \in Slot \ {r} : Joins(kind, s) => co[s].after # r
        BY <1>7 DEF Referred
      <4>2. last[kind] # r
        BY <1>6, <1>7 DEF Referred
      <4> QED
        BY <1>1, <1>8, <1>11, <4>1, <4>2
    <3>7. ~Latest(kind, NoSlot)'
      BY <2>2, SlotAssumption
    <3> QED
      BY <2>2, <2>6, <3>2, <3>3, <3>5, <3>6, <3>7 DEF Chain
  <2> QED
    BY <2>7, <2>8
<1> QED
  BY <1>2, <1>10, <1>11

(* The field is written: the last job stays the last.                        *)
LEMMA AssignChain ==
    ASSUME TypeOK, Shapes, NEW r \in Slot, Assign(r),
           NEW kind \in QueuedKind, co[r].kind = kind, Chain(kind)
    PROVE  Chain(kind)'
<1>1. /\ \A s \in Slot : /\ co'[s].pc = co[s].pc /\ co'[s].kind = co[s].kind
                         /\ co'[s].after = co[s].after
      /\ \A s \in Slot \ {r} : co'[s].assign = co[s].assign
      /\ co[r].assign # NoSlot /\ co'[r].assign = NoSlot /\ last'[kind] = Stores(r)
  BY AssignSlot
<1>2. Assigns(kind, r) /\ \A s \in Slot : Assigns(kind, s) => s = r
  BY <1>1 DEF Assigns, Chain
<1>3. \A s \in Slot : ~Assigns(kind, s)'
  BY <1>1, <1>2 DEF Assigns
<1>4. \A p : Latest(kind, p)' <=> Latest(kind, p)
  BY <1>1, <1>2, <1>3 DEF Latest
<1>5. \A s \in Slot : (Joins(kind, s)' <=> Joins(kind, s)) /\ (Leads(kind, s)' <=> Leads(kind, s))
  BY <1>1 DEF Joins, Leads
<1>6. \A p : Referred(kind, p)' <=> Referred(kind, p)
  BY <1>1, <1>4, <1>5 DEF Referred
<1>7. \A s \in Slot : First(kind, s)' <=> First(kind, s)
  BY <1>1, <1>5, <1>6 DEF First, Leaves
<1>8. \A s \in Slot : Joins(kind, s)' => ~Latest(kind, co[s].after)'
  BY <1>1, <1>4, <1>5 DEF Chain
<1>9. \A s, q \in Slot : Joins(kind, s)' /\ Joins(kind, q)' /\ co'[s].after = co'[q].after => s = q
  BY <1>1, <1>5 DEF Chain
<1> QED
  BY <1>3, <1>4, <1>5, <1>6, <1>7, <1>8, <1>9 DEF Chain

(* The job that is completed leaves the line, and the next one, if there is,  *)
(* leads.                                                                     *)
LEMMA FinishChain ==
    ASSUME TypeOK, Shapes, Shapes', JobRefs, LineInv, NEW r \in Slot, Finish(r),
           NEW kind \in QueuedKind, co[r].kind = kind, Chain(kind)
    PROVE  Chain(kind)'
<1>1. /\ co[r].pc \in Ended /\ co[r].assign = NoSlot /\ co'[r].pc \in Out
      /\ co'[r].after = NoSlot /\ co'[r].assign = NoSlot
      /\ \A s \in Slot \ {r} :
            /\ co'[s].pc = co[s].pc /\ co'[s].kind = co[s].kind
            /\ co'[s].after = IF co[s].after = r THEN NoSlot ELSE co[s].after
            /\ co'[s].assign = IF co[s].assign = r THEN Completed ELSE co[s].assign
      /\ last'[kind] = IF last[kind] = r THEN NoSlot ELSE last[kind]
  BY FinishSlot, Kinds
<1>2. ~Assigns(kind, r) /\ ~Assigns(kind, r)' /\ ~Joins(kind, r) /\ ~Joins(kind, r)'
      /\ ~Leads(kind, r) /\ ~Leads(kind, r)' /\ ~Leaves(kind, r)'
  BY <1>1 DEF Assigns, Joins, Leads, Leaves, Running, Ended, Out
<1>3. \A s \in Slot \ {r} :
         /\ Assigns(kind, s)' <=> Assigns(kind, s)
         /\ Stores(s)' = IF Stores(s) = r THEN NoSlot ELSE Stores(s)
         /\ Joins(kind, s)' <=> Joins(kind, s) /\ co[s].after # r
         /\ Joins(kind, s)' => co'[s].after = co[s].after
         /\ Leads(kind, s)' <=> Leads(kind, s) \/ (Joins(kind, s) /\ co[s].after = r)
  BY <1>1, SlotAssumption DEF Assigns, Stores, Uncompleted, Joins, Leads, Running
<1>4. CASE ~Referred(kind, r)
  <2>1. /\ \A s \in Slot : Joins(kind, s) => co[s].after # r
        /\ \A s \in Slot : Assigns(kind, s) => Stores(s) # r
        /\ (\A s \in Slot : ~Assigns(kind, s)) => last[kind] # r
    BY <1>4 DEF Referred, Latest
  <2>2. \A s \in Slot : /\ Assigns(kind, s)' <=> Assigns(kind, s)
                        /\ Assigns(kind, s) => Stores(s)' = Stores(s)
                        /\ Joins(kind, s)' <=> Joins(kind, s)
                        /\ Joins(kind, s) => co'[s].after = co[s].after
                        /\ Leads(kind, s)' <=> Leads(kind, s)
    BY <1>2, <1>3, <2>1
  <2>3. \A p : Latest(kind, p)' <=> Latest(kind, p)
    BY <1>1, <2>1, <2>2 DEF Latest
  <2>4. \A p : Referred(kind, p)' <=> Referred(kind, p)
    BY <2>2, <2>3 DEF Referred
  <2>5. \A s \in Slot : First(kind, s)' <=> First(kind, s)
    <3>1. \A s \in Slot \ {r} : Leaves(kind, s)' <=> Leaves(kind, s)
      BY <1>1, <2>4 DEF Leaves
    <3>2. ~Leaves(kind, r)
      BY <1>4 DEF Leaves
    <3> QED
      BY <1>2, <2>2, <3>1, <3>2 DEF First
  <2>6. \A s \in Slot : Assigns(kind, s)' => Stores(s)' \in {s, last'[kind]}
    BY <1>1, <2>1, <2>2 DEF Chain
  <2>7. \A s \in Slot : Joins(kind, s)' => ~Latest(kind, co[s].after)'
    BY <2>2, <2>3 DEF Chain
  <2>8. \A s, q \in Slot : Joins(kind, s)' /\ Joins(kind, q)' /\ co'[s].after = co'[q].after => s = q
    BY <2>2 DEF Chain
  <2> QED
    BY <2>2, <2>3, <2>4, <2>5, <2>6, <2>7, <2>8 DEF Chain
<1>5. CASE Referred(kind, r)
  <2>1. Leaves(kind, r)
    BY <1>1, <1>5 DEF Leaves
  <2>2. \A s \in Slot : First(kind, s) => s = r
    BY <2>1 DEF First, Chain
  <2>3. \A s \in Slot : ~Leads(kind, s)
    BY <1>2, <2>2 DEF First
  <2>4. \A p \in Slot : Referred(kind, p) => p = r \/ Joins(kind, p)
    BY <2>2 DEF Chain
  <2>5. CASE Latest(kind, r)
    <3>1. \A s \in Slot : Joins(kind, s) => co[s].after # r
      BY <2>5 DEF Chain
    <3>2. \A s \in Slot : ~Joins(kind, s)
      <4> DEFINE jobs == {s \in Slot : Joins(kind, s)}
      <4>1. ASSUME NEW s \in jobs
            PROVE  co[s].pc = "join" /\ co[s].after \in jobs
        <5>1. co[s].after \in Slot
          BY DEF TypeOK, Coroutine, Joins
        <5>2. Referred(kind, co[s].after)
          BY DEF Referred
        <5> QED
          BY <2>4, <3>1, <5>1, <5>2 DEF Joins
      <4>2. jobs \in SUBSET Slot
        OBVIOUS
      <4> HIDE DEF jobs
      <4>3. jobs = {}
        BY <4>1, <4>2 DEF LineInv
      <4> QED
        BY <4>3 DEF jobs
    <3>3. \A s \in Slot : /\ Assigns(kind, s)' => Assigns(kind, s) /\ Stores(s)' = NoSlot
                          /\ ~Joins(kind, s)' /\ ~Leads(kind, s)'
      <4>1. ASSUME NEW s \in Slot, Assigns(kind, s)
            PROVE  Stores(s) = r
        BY <2>5, <4>1 DEF Latest, Chain
      <4> QED
        BY <1>2, <1>3, <2>3, <3>2, <4>1
    <3>4. last'[kind] = NoSlot
      <4>1. CASE \E s \in Slot : Assigns(kind, s)
        <5>1. PICK s \in Slot : Assigns(kind, s) /\ Stores(s) = r
          BY <2>5, <4>1 DEF Latest
        <5>2. last[kind] = r
          BY <1>2, <5>1 DEF Chain
        <5> QED
          BY <1>1, <5>2
      <4>2. CASE \A s \in Slot : ~Assigns(kind, s)
        BY <1>1, <2>5, <4>2 DEF Latest
      <4> QED
        BY <4>1, <4>2
    <3>5. \A p \in Slot : ~Referred(kind, p)'
      BY <3>3, <3>4, SlotAssumption DEF Referred, Latest
    <3>6. \A p \in Slot : ~First(kind, p)'
      BY <3>3, <3>5 DEF First, Leaves
    <3>7. \A p, s \in Slot : Assigns(kind, p)' /\ Assigns(kind, s)' => p = s
      BY <3>3 DEF Chain
    <3> QED
      BY <3>3, <3>4, <3>5, <3>6, <3>7 DEF Chain
  <2>6. CASE ~Latest(kind, r)
    <3>1. PICK q \in Slot : Joins(kind, q) /\ co[q].after = r
      BY <1>5, <2>6 DEF Referred
    <3>2. \A s \in Slot : Joins(kind, s) /\ co[s].after = r => s = q
      BY <3>1 DEF Chain
    <3>3. \A s \in Slot : Assigns(kind, s) => Stores(s) # r
      BY <2>6 DEF Latest
    <3>4. \A s \in Slot : /\ Assigns(kind, s)' <=> Assigns(kind, s)
                          /\ Assigns(kind, s) => Stores(s)' = Stores(s)
      BY <1>2, <1>3, <3>3
    <3>5. (\A s \in Slot : ~Assigns(kind, s)) => last[kind] # r
      BY <2>6 DEF Latest
    <3>6. \A p : Latest(kind, p)' <=> Latest(kind, p)
      BY <1>1, <3>4, <3>5 DEF Latest
    <3>7. \A s \in Slot : /\ Joins(kind, s)' <=> Joins(kind, s) /\ s # q
                          /\ Joins(kind, s)' => co'[s].after = co[s].after /\ co[s].after # r
                          /\ Leads(kind, s)' <=> s = q
      BY <1>2, <1>3, <2>3, <3>1, <3>2
    <3>8. \A p \in Slot : Referred(kind, p)' => Referred(kind, p) /\ p # r
      BY <2>6, <3>6, <3>7 DEF Referred
    <3>9. \A p \in Slot : Referred(kind, p)' => Joins(kind, p)
      BY <2>4, <3>8
    <3>10. \A p \in Slot : First(kind, p)' <=> p = q
      <4>1. ASSUME NEW p \in Slot, Leaves(kind, p)'
            PROVE  FALSE
        <5>1. Joins(kind, p) /\ p # r
          BY <3>8, <3>9, <4>1 DEF Leaves
        <5>2. co'[p].pc = "join"
          BY <1>1, <5>1 DEF Joins
        <5> QED
          BY <4>1, <5>2 DEF Leaves, Ended
      <4> QED
        BY <3>7, <4>1 DEF First
    <3>11. \A p \in Slot : Referred(kind, p)' => First(kind, p)' \/ Joins(kind, p)'
      BY <3>7, <3>9, <3>10
    <3>12. \A s \in Slot : Assigns(kind, s)' => Stores(s)' \in {s, last'[kind]}
      BY <1>1, <3>3, <3>4 DEF Chain
    <3>13. \A s \in Slot : Joins(kind, s)' => ~Latest(kind, co[s].after)'
      BY <3>6, <3>7 DEF Chain
    <3>14. \A s, p \in Slot : Joins(kind, s)' /\ Joins(kind, p)' /\ co'[s].after = co'[p].after => s = p
      BY <3>7 DEF Chain
    <3>15. ~Latest(kind, NoSlot)'
      BY <3>1, <3>6 DEF Chain
    <3> QED
      BY <3>4, <3>10, <3>11, <3>12, <3>13, <3>14, <3>15 DEF Chain
  <2> QED
    BY <2>5, <2>6
<1> QED
  BY <1>4, <1>5

(* Every step keeps the line of each kind that never raced. *)
LEMMA ChainStep ==
    ASSUME TypeOK, Shapes, Shapes', JobRefs, LineInv, ChainInv, [Next]_vars
    PROVE  ChainInv'
<1> SUFFICES ASSUME NEW kind \in QueuedKind, kind \notin raced'
    PROVE  Chain(kind)'
  BY DEF ChainInv
<1>1. CASE Steady
  <2>1. SteadyFor(kind) /\ kind \notin raced
    BY <1>1 DEF Steady, SteadyFor, Bystander, Apart
  <2> QED
    BY <2>1, SteadyChain DEF ChainInv
<1>2. ASSUME NEW r \in Slot, Queued(r)
      PROVE  Chain(kind)'
  <2>1. kind \notin raced
    BY <1>2, QueuedSlot
  <2>2. CASE co[r].kind = kind
    BY <1>2, <2>1, <2>2, QueuedChain DEF ChainInv
  <2>3. CASE co[r].kind # kind
    <3>1. SteadyFor(kind)
      BY <1>2, <2>3, QueuedSlot DEF SteadyFor, Kept, Apart
    <3> QED
      BY <2>1, <3>1, SteadyChain DEF ChainInv
  <2> QED
    BY <2>2, <2>3
<1>3. ASSUME NEW r \in Slot, Assign(r)
      PROVE  Chain(kind)'
  <2>1. kind \notin raced
    BY <1>3, AssignSlot
  <2>2. CASE co[r].kind = kind
    BY <1>3, <2>1, <2>2, AssignChain DEF ChainInv
  <2>3. CASE co[r].kind # kind
    <3>1. SteadyFor(kind)
      BY <1>3, <2>3, AssignSlot, Kinds DEF SteadyFor, Kept, Apart
    <3> QED
      BY <2>1, <3>1, SteadyChain DEF ChainInv
  <2> QED
    BY <2>2, <2>3
<1>4. ASSUME NEW r \in Slot, Finish(r)
      PROVE  Chain(kind)'
  <2>1. kind \notin raced
    BY <1>4, FinishSlot
  <2>2. CASE co[r].kind = kind
    BY <1>4, <2>1, <2>2, FinishChain DEF ChainInv
  <2>3. CASE co[r].kind # kind
    <3>1. last[kind] # r /\ last'[kind] = last[kind]
      BY <1>4, <2>3, FinishSlot, Kinds DEF JobRefs
    <3>2. Apart(kind, r) /\ Apart(kind, r)'
      BY <1>4, <2>3, FinishSlot DEF Apart
    <3>3. ASSUME NEW s \in Slot \ {r}
          PROVE  Kept(s) \/ (Apart(kind, s) /\ Apart(kind, s)')
      <4>1. /\ co'[s].pc = co[s].pc /\ co'[s].kind = co[s].kind
            /\ co'[s].after = IF co[s].after = r THEN NoSlot ELSE co[s].after
            /\ co'[s].assign = IF co[s].assign = r THEN Completed ELSE co[s].assign
        BY <1>4, FinishSlot
      <4>2. CASE co[s].kind = kind
        BY <2>3, <4>1, <4>2 DEF Kept, JobRefs
      <4>3. CASE co[s].kind # kind
        BY <4>1, <4>3 DEF Apart
      <4> QED
        BY <4>2, <4>3
    <3>4. SteadyFor(kind)
      BY <3>1, <3>2, <3>3 DEF SteadyFor
    <3> QED
      BY <2>1, <3>4, SteadyChain DEF ChainInv
  <2> QED
    BY <2>2, <2>3
<1> QED
  BY <1>1, <1>2, <1>3, <1>4, Steadies

-----------------------------------------------------------------------------
(* What a step does to the updates *)

Stays(s) == co[s].pc \notin Out => co'[s].pc \notin Out /\ co'[s].kind = co[s].kind

Calm(s) ==
    \/ co'[s].pc = co[s].pc /\ co'[s].kind = co[s].kind /\ co'[s].after = co[s].after
    \/ /\ ~Owner(s) /\ ~Owner(s)' /\ (Update(s)' <=> Update(s)) /\ Stays(s)
       /\ co[s].kind = "update" /\ co[s].pc = "sent" => co'[s].pc = "over" \/ refused'
       /\ co[s].kind = "update" => co[s].pc # "over"

Calms ==
    /\ updateJob' = updateJob /\ overlapped' = overlapped /\ crashed' = crashed
    /\ \A s \in Slot : Calm(s)

WaitKept(s) == co'[s].after \in {co[s].after, NoSlot}

(* Neither owner nor update, nor does it wait. *)
LEMMA CalmOther ==
    ASSUME NEW r \in Slot, \A s \in Slot \ {r} : co'[s] = co[s], Calm(r), WaitKept(r)
    PROVE  \A s \in Slot : Calm(s) /\ WaitKept(s)
BY DEF Calm, WaitKept

(* A coroutine outside of the updates moves. *)
LEMMA CalmGoto ==
    ASSUME TypeOK, NEW r \in Slot, NEW pc \in {"join"} \cup Running \cup Ended, Goto(r, pc),
           co[r].pc \notin {"free", "over"}, ~Owner(r), pc \notin {"own", "await own"},
           co[r].kind = "update" /\ co[r].pc = "sent" => pc = "over" \/ refused'
    PROVE  \A s \in Slot : Calm(s) /\ WaitKept(s)
<1>1. pc \notin Out /\ pc # "free"
  BY DEF Running, Ended, Out
<1>2. Calm(r) /\ WaitKept(r)
  BY <1>1, GotoSlot DEF Calm, WaitKept, Owner, Update, Stays
<1> QED
  BY <1>2, GotoSlot, CalmOther

(* updateToken returns to a caller that did not begin the update. *)
LEMMA CalmReturn ==
    ASSUME TypeOK, NEW r \in Slot, Return(r), co[r].pc \notin {"free", "over", "sent"}, ~Owner(r)
    PROVE  \A s \in Slot : Calm(s) /\ WaitKept(s)
<1> DEFINE pc == IF co[r].kind = "caller" THEN "over" ELSE "answered"
<1>1. Goto(r, pc) /\ pc \in Running \cup Ended /\ pc \notin {"own", "await own"}
  BY DEF Return, Running, Ended
<1> HIDE DEF pc
<1> QED
  BY <1>1, CalmGoto

(* A slot that was not yet queued, or is another one now. *)
LEMMA CalmSet ==
    ASSUME TypeOK, NEW r \in Slot, NEW c \in Coroutine, Set(r, c), co[r].pc \in Out,
           co[r].pc = "listen" => co[r].kind # "update",
           c.pc \notin {"own", "await own"}, c.pc = "free" \/ c.kind # "update", c.after = NoSlot
    PROVE  \A s \in Slot : Calm(s) /\ WaitKept(s)
<1>1. Calm(r) /\ WaitKept(r)
  BY SetSlot DEF Calm, WaitKept, Owner, Update, Stays, Out
<1> QED
  BY <1>1, SetSlot, CalmOther

(* The steps of events and jobs are calm, but for queueing and finishing. *)
LEMMA JobCalm ==
    ASSUME TypeOK, Shapes, NEW r \in Slot, Events(r) \/ queueJob(r)
    PROVE  \/ UNCHANGED token /\ \A s \in Slot : Calm(s) /\ WaitKept(s)
           \/ Queued(r) \/ Finish(r)
<1>0. co[r].pc = "listen" => co[r].kind \in Kind /\ co[r].kind # "update"
  BY Kinds DEF Shapes, Shape
<1>1. CASE AskToken(r)
  <2> DEFINE c == [Free EXCEPT !.pc = "check", !.kind = "caller"]
  <2>1. c \in Coroutine /\ c.kind = "caller" /\ c.pc = "check" /\ c.after = NoSlot
    BY NewSlot DEF Free, Coroutine, Running
  <2>2. Set(r, c) /\ co[r].pc = "free" /\ UNCHANGED token
    BY <1>1 DEF AskToken, Call
  <2> HIDE DEF c
  <2> QED
    BY <2>1, <2>2, CalmSet DEF Out
<1>2. ASSUME NEW kind \in Command \ {"block"}, Ask(r, kind)
      PROVE  UNCHANGED token /\ \A s \in Slot : Calm(s) /\ WaitKept(s)
  <2>1. /\ New(kind) \in Coroutine /\ New(kind).pc = "listen" /\ New(kind).kind # "update"
        /\ New(kind).after = NoSlot
    BY CommandAssumption, NewSlot, Kinds
  <2>2. Set(r, New(kind)) /\ co[r].pc = "free" /\ UNCHANGED token
    BY <1>2 DEF Ask
  <2> QED
    BY <2>1, <2>2, CalmSet DEF Out
<1>3. ASSUME NEW s \in Slot, AskBlock(r, s)
      PROVE  UNCHANGED token /\ \A q \in Slot : Calm(q) /\ WaitKept(q)
  <2>1. /\ New("block").pc = "listen" /\ New("block").kind # "update" /\ New("block").after = NoSlot
    BY Kinds, NewSlot
  <2>2. /\ co' = [co EXCEPT ![r] = New("block"), ![s] = New("block")]
        /\ co[r].pc = "free" /\ co[s].pc = "free" /\ UNCHANGED token
    BY <1>3 DEF AskBlock
  <2>3. \A q \in Slot : co'[q] = co[q] \/ (co'[q] = New("block") /\ q \in {r, s})
    BY <2>2 DEF TypeOK
  <2>4. ASSUME NEW q \in Slot
        PROVE  Calm(q) /\ WaitKept(q)
    BY <2>1, <2>2, <2>3 DEF Calm, WaitKept, Owner, Update, Stays, Out
  <2> QED
    BY <2>2, <2>4
<1>4. CASE Dropped(r)
  <2>1. Set(r, Free) /\ co[r].pc = "listen" /\ UNCHANGED token
    BY <1>4 DEF Dropped
  <2> QED
    BY <1>0, <2>1, NewSlot, CalmSet DEF Out
<1>5. CASE Launched(r)
  <2>1. Goto(r, "sent") /\ co[r].pc = "listen" /\ UNCHANGED token
    BY <1>5 DEF Launched, At
  <2> QED
    BY <2>1, Kinds, CalmGoto DEF Owner, Running
<1>6. CASE Assign(r)
  <2>1. UNCHANGED token
    BY <1>6, AssignSlot
  <2>2. ASSUME NEW s \in Slot
        PROVE  Calm(s) /\ WaitKept(s)
    BY <1>6, AssignSlot DEF Calm, WaitKept
  <2> QED
    BY <2>1, <2>2
<1>7. CASE Begin(r)
  <2> DEFINE pc == IF \/ co[r].kind = "login" /\ state = "Admin"
                      \/ co[r].kind = "logout" /\ state # "Admin" THEN "over" ELSE "sent"
  <2>1. /\ Goto(r, pc) /\ pc \in Running \cup Ended /\ pc \notin {"own", "await own"}
        /\ co[r].pc = "join" /\ UNCHANGED token
    BY <1>7 DEF Begin, Running, Ended
  <2> HIDE DEF pc
  <2> QED
    BY <2>1, CalmGoto DEF Owner
<1> QED
  BY <1>1, <1>2, <1>3, <1>4, <1>5, <1>6, <1>7 DEF Events, queueJob

(* So are the steps of a request. *)
LEMMA RequestCalm ==
    ASSUME TypeOK, Shapes, NEW r \in Slot, Request(r)
    PROVE  UNCHANGED token /\ \A s \in Slot : Calm(s) /\ WaitKept(s)
<1>1. CASE Serve(r)
  <2> DEFINE ok == co[r].kind = "login"
             c == [co[r] EXCEPT !.pc = "answered", !.ok = ok]
  <2>1. co[r] \in Coroutine /\ ok \in BOOLEAN
    BY DEF TypeOK
  <2> HIDE DEF ok
  <2>2. c \in Coroutine /\ c.pc = "answered" /\ c.kind = co[r].kind /\ c.after = co[r].after
    BY <2>1 DEF Coroutine, Running
  <2>3. Set(r, c) /\ co[r].pc = "sent" /\ co[r].kind \in Kind /\ UNCHANGED token
    BY <1>1 DEF Serve, At, ok
  <2> HIDE DEF c
  <2>4. Calm(r) /\ WaitKept(r) /\ \A s \in Slot \ {r} : co'[s] = co[s]
    BY <2>2, <2>3, SetSlot, Kinds DEF Calm, WaitKept, Owner, Update, Stays, Out
  <2> QED
    BY <2>3, <2>4, CalmOther
<1>2. CASE Fail(r)
  BY <1>2, Kinds, CalmGoto DEF Fail, At, Running, Owner
<1>3. CASE GiveUp(r)
  BY <1>3, Kinds, CalmGoto DEF GiveUp, At, Running, Owner
<1>4. CASE LoggedIn(r)
  BY <1>4, Kinds, CalmGoto DEF LoggedIn, At, Ended, Owner
<1>5. CASE LoggedOut(r)
  BY <1>5, Kinds, CalmGoto DEF LoggedOut, At, Ended, Owner
<1>6. CASE OtherReceived(r)
  BY <1>6, Kinds, CalmGoto DEF OtherReceived, At, Ended, Owner
<1> QED
  BY <1>1, <1>2, <1>3, <1>4, <1>5, <1>6 DEF Request

(* So are the steps of an update, and those of updateToken that leave updateJob alone. *)
LEMMA TokenCalm ==
    ASSUME TypeOK, Shapes, NEW r \in Slot, Check(r) \/ Awaited(r) \/ Identified(r) \/ Refused(r)
    PROVE  Calms /\ \A s \in Slot : WaitKept(s)
<1>1. updateJob' = updateJob /\ overlapped' = overlapped /\ crashed' = crashed
  BY DEF Check, Awaited, Identified, Refused, token
<1>2. CASE Check(r)
  <2> DEFINE pc == IF updateJob # NoSlot THEN "join update" ELSE "start"
  <2>1. Goto(r, pc) /\ pc \in Running /\ pc \notin {"own", "await own"} /\ co[r].pc = "check"
    BY <1>2 DEF Check, Running
  <2> HIDE DEF pc
  <2> QED
    BY <1>1, <2>1, CalmGoto DEF Owner, Calms
<1>3. CASE Awaited(r)
  BY <1>1, <1>3, CalmReturn DEF Awaited, Owner, Calms
<1>4. CASE Identified(r)
  BY <1>1, <1>4, CalmGoto DEF Identified, Ended, Owner, Calms
<1>5. CASE Refused(r)
  BY <1>1, <1>5, CalmGoto DEF Refused, Running, Owner, Calms
<1> QED
  BY <1>2, <1>3, <1>4, <1>5

(* The steps that touch an update or wait for one, and the others. *)
LEMMA Calmly ==
    ASSUME TypeOK, Shapes, [Next]_vars
    PROVE  \/ Calms /\ (refused => refused') /\ \A s \in Slot : WaitKept(s)
           \/ \E r \in Slot : \/ Queued(r) \/ Finish(r) \/ JoinUpdate(r) \/ AwaitOwn(r) \/ ClearOwn(r)
                              \/ \E s \in Slot : Start(r, s)
<1>1. ASSUME NEW kind \in {"login", "logout"}, ServeLate(kind)
      PROVE  Calms /\ refused' = refused /\ \A s \in Slot : WaitKept(s)
  BY <1>1 DEF ServeLate, Calms, Calm, WaitKept, token
<1>2. CASE UNCHANGED vars
  BY <1>2 DEF vars, Calms, Calm, WaitKept, token
<1>3. ASSUME NEW r \in Slot, Check(r) \/ Awaited(r) \/ Identified(r) \/ Refused(r)
      PROVE  Calms /\ (refused => refused') /\ \A s \in Slot : WaitKept(s)
  <2>1. refused => refused'
    BY <1>3 DEF Check, Awaited, Identified, Refused, token
  <2> QED
    BY <1>3, <2>1, TokenCalm
<1>4. ASSUME NEW r \in Slot, (Events(r) \/ queueJob(r)) \/ Request(r)
      PROVE  \/ Calms /\ (refused => refused') /\ \A s \in Slot : WaitKept(s)
             \/ Queued(r) \/ Finish(r)
  BY <1>4, JobCalm, RequestCalm DEF Calms, token
<1> QED
  BY <1>1, <1>2, <1>3, <1>4 DEF Next, Token, updateToken

(* Queueing is calm too, but for the wait it begins. *)
LEMMA QueuedCalm ==
    ASSUME TypeOK, Shapes, NEW r \in Slot, Queued(r)
    PROVE  Calms /\ refused' = refused
<1>1. /\ \A s \in Slot \ {r} : co'[s] = co[s]
      /\ co[r].pc = "listen" /\ co'[r].pc \in {"over", "join"} /\ co[r].kind \in QueuedKind
      /\ co'[r].kind = co[r].kind /\ UNCHANGED token
  BY QueuedSlot
<1>2. Calm(r)
  BY <1>1, Kinds DEF Calm, Owner, Update, Stays, Out
<1> QED
  BY <1>1, <1>2 DEF Calms, Calm, token

(* The four steps of updateToken that are not calm. *)
LEMMA ReturnSlot ==
    ASSUME TypeOK, NEW r \in Slot, Return(r)
    PROVE  /\ \A s \in Slot \ {r} : co'[s] = co[s]
           /\ co'[r].kind = co[r].kind /\ co'[r].after = co[r].after
           /\ co'[r].pc \in {"over", "answered"}
<1> DEFINE pc == IF co[r].kind = "caller" THEN "over" ELSE "answered"
<1>1. Goto(r, pc) /\ pc \in Running \cup Ended /\ pc \in {"over", "answered"}
  BY DEF Return, Running, Ended
<1> HIDE DEF pc
<1> QED
  BY <1>1, GotoSlot

(* updateToken finds an update: it waits for it, or goes on if it has ended. *)
LEMMA JoinUpdateSlot ==
    ASSUME TypeOK, NEW r \in Slot, JoinUpdate(r)
    PROVE  /\ \A s \in Slot \ {r} : co'[s] = co[s]
           /\ co[r].pc = "join update" /\ co'[r].pc \in {"await", "over", "answered"}
           /\ co'[r].kind = co[r].kind
           /\ co'[r].after \in {co[r].after, NoSlot, updateJob} /\ UNCHANGED token
<1>1. /\ co[r].pc = "join update" /\ UNCHANGED token
      /\ Return(r) \/ Waits(r, "await", updateJob)
  BY DEF JoinUpdate
<1>2. "await" \in Running /\ updateJob \in Slot \cup {NoSlot, Completed}
  BY DEF Running, TypeOK
<1> QED
  BY <1>1, <1>2, ReturnSlot, WaitSlot

(* updateToken waits for the update it began, finds the field empty, or finds it ended. *)
LEMMA AwaitOwnSlot ==
    ASSUME TypeOK, NEW r \in Slot, AwaitOwn(r)
    PROVE  /\ \A s \in Slot \ {r} : co'[s] = co[s]
           /\ co[r].pc = "own" /\ co'[r].kind = co[r].kind
           /\ UNCHANGED <<updateJob, overlapped, refused>>
           /\ \/ updateJob = NoSlot /\ co'[r].pc = "over" /\ co'[r].after = co[r].after
              \/ /\ updateJob # NoSlot /\ crashed' = crashed /\ co'[r].pc = "await own"
                 /\ co'[r].after = IF updateJob = Completed THEN NoSlot ELSE updateJob
<1>1. /\ co[r].pc = "own" /\ UNCHANGED <<updateJob, overlapped, refused>>
      /\ crashed' = (crashed \/ updateJob = NoSlot)
      /\ \/ updateJob = NoSlot /\ Goto(r, "over")
         \/ updateJob # NoSlot /\ Waits(r, "await own", updateJob)
  BY DEF AwaitOwn
<1>2. "await own" \in Running /\ "over" \in Ended /\ updateJob \in Slot \cup {NoSlot, Completed}
  BY DEF Running, Ended, TypeOK
<1>3. updateJob # NoSlot => crashed' = crashed
  BY <1>1 DEF TypeOK
<1> QED
  BY <1>1, <1>2, <1>3, GotoSlot, WaitSlot

(* It clears the field and returns. *)
LEMMA ClearOwnSlot ==
    ASSUME TypeOK, NEW r \in Slot, ClearOwn(r)
    PROVE  /\ \A s \in Slot \ {r} : co'[s] = co[s]
           /\ co[r].pc = "await own" /\ co[r].after = NoSlot
           /\ co'[r].kind = co[r].kind /\ co'[r].after = NoSlot /\ co'[r].pc \in {"over", "answered"}
           /\ updateJob' = NoSlot /\ UNCHANGED <<overlapped, refused, crashed>>
BY ReturnSlot DEF ClearOwn

(* It finds no update and makes one, in a slot that was free. *)
LEMMA StartSlot ==
    ASSUME TypeOK, NEW r \in Slot, NEW s \in Slot, Start(r, s)
    PROVE  /\ r # s /\ \A q \in Slot \ {r, s} : co'[q] = co[q]
           /\ co[r].pc = "start" /\ co'[r].pc = "own" /\ co'[r].kind = co[r].kind
           /\ co'[r].after = co[r].after
           /\ co[s].pc = "free" /\ co'[s].pc = "sent" /\ co'[s].kind = "update"
           /\ co'[s].after = NoSlot
           /\ updateJob' = s /\ UNCHANGED <<refused, crashed>>
           /\ ~overlapped' => ~overlapped /\ \A q \in Slot : ~Owner(q)
<1> DEFINE c == [co[r] EXCEPT !.pc = "own"]
           d == [Free EXCEPT !.pc = "sent"]
<1>1. /\ co[r].pc = "start" /\ co[s].pc = "free" /\ updateJob' = s /\ UNCHANGED <<refused, crashed>>
      /\ overlapped' = (overlapped \/ \E q \in Slot : co[q].pc \in {"own", "await own"})
  BY DEF Start
<1>2. co' = [co EXCEPT ![r] = c, ![s] = d]
  BY DEF Start, TypeOK
<1>3. co[r] \in Coroutine /\ r # s
  BY <1>1 DEF TypeOK
<1>4. /\ c.pc = "own" /\ c.kind = co[r].kind /\ c.after = co[r].after
      /\ d.pc = "sent" /\ d.kind = "update" /\ d.after = NoSlot
  BY <1>3 DEF Coroutine, Free
<1> HIDE DEF c, d
<1>5. co'[r] = c /\ co'[s] = d /\ \A q \in Slot \ {r, s} : co'[q] = co[q]
  BY <1>2, <1>3 DEF TypeOK
<1>6. ~overlapped' => ~overlapped /\ \A q \in Slot : ~Owner(q)
  BY <1>1 DEF Owner
<1> QED
  BY <1>1, <1>3, <1>4, <1>5, <1>6

-----------------------------------------------------------------------------
(* One update at a time *)

(* Every step keeps the update to its owner. *)
LEMMA UpdateStep ==
    ASSUME TypeOK, Shapes, Shapes', UpdateInv, [Next]_vars
    PROVE  UpdateInv'
<1> SUFFICES ASSUME ~overlapped'
    PROVE  /\ \A r, s \in Slot : Owner(r)' /\ Owner(s)' => r = s
           /\ \A r \in Slot : Owner(r)' => updateJob' # NoSlot
           /\ \A u \in Slot : Update(u)' =>
                 /\ updateJob' = u
                 /\ \E r \in Slot : co'[r].pc = "own" \/ (co'[r].pc = "await own" /\ co'[r].after = u)
           /\ ~crashed'
  BY DEF UpdateInv
<1>1. CASE Calms
  <2>1. /\ ~overlapped /\ updateJob' = updateJob /\ crashed' = crashed
        /\ \A s \in Slot : Calm(s)
    BY <1>1 DEF Calms
  <2>2. ASSUME NEW s \in Slot
        PROVE  /\ Owner(s)' <=> Owner(s)
               /\ Owner(s) => co'[s].pc = co[s].pc /\ co'[s].after = co[s].after
               /\ Update(s)' <=> Update(s)
    BY <2>1 DEF Calm, Owner, Update
  <2>3. ASSUME NEW u \in Slot, Update(u)'
        PROVE  \E r \in Slot : co'[r].pc = "own" \/ (co'[r].pc = "await own" /\ co'[r].after = u)
    <3>1. Update(u)
      BY <2>2, <2>3
    <3>2. PICK r \in Slot : co[r].pc = "own" \/ (co[r].pc = "await own" /\ co[r].after = u)
      BY <2>1, <3>1 DEF UpdateInv
    <3>3. Owner(r)
      BY <3>2 DEF Owner
    <3> QED
      BY <2>2, <3>2, <3>3
  <2> QED
    BY <2>1, <2>2, <2>3 DEF UpdateInv
<1>2. ASSUME NEW r \in Slot, Finish(r)
      PROVE  UpdateInv'
  <2>1. /\ co[r].pc \in Ended /\ co'[r].pc \in Out
        /\ co'[r].pc = "listen" => co'[r].kind \in Kind
        /\ \A s \in Slot \ {r} : /\ co'[s].pc = co[s].pc /\ co'[s].kind = co[s].kind
                                 /\ co'[s].after = IF co[s].after = r THEN NoSlot ELSE co[s].after
        /\ updateJob' = IF updateJob = r THEN Completed ELSE updateJob
        /\ UNCHANGED <<overlapped, crashed>>
    BY <1>2, FinishSlot
  <2>2. ~Owner(r) /\ ~Owner(r)' /\ ~Update(r)'
    BY <2>1, Kinds DEF Owner, Update, Ended, Out
  <2>3. \A s \in Slot : (Owner(s)' => Owner(s)) /\ (Update(s)' => Update(s) /\ s # r)
    BY <2>1, <2>2 DEF Owner, Update
  <2>4. \A s, u \in Slot : u # r /\ (co[s].pc = "own" \/ (co[s].pc = "await own" /\ co[s].after = u))
           => co'[s].pc = "own" \/ (co'[s].pc = "await own" /\ co'[s].after = u)
    BY <2>1 DEF Ended
  <2>5. ASSUME NEW u \in Slot, Update(u)'
        PROVE  \E s \in Slot : co'[s].pc = "own" \/ (co'[s].pc = "await own" /\ co'[s].after = u)
    <3>1. Update(u) /\ u # r /\ ~overlapped
      BY <2>1, <2>3, <2>5
    <3>2. PICK s \in Slot : co[s].pc = "own" \/ (co[s].pc = "await own" /\ co[s].after = u)
      BY <3>1 DEF UpdateInv
    <3> QED
      BY <2>4, <3>1, <3>2
  <2> QED
    BY <2>1, <2>3, <2>5, SlotAssumption DEF UpdateInv
<1>3. ASSUME NEW r \in Slot, JoinUpdate(r)
      PROVE  Calms
  <2>1. Calm(r)
    BY <1>3, JoinUpdateSlot DEF Calm, Owner, Update, Stays, Out
  <2> QED
    BY <1>3, <2>1, JoinUpdateSlot DEF Calms, Calm, token
<1>4. ASSUME NEW r \in Slot, AwaitOwn(r)
      PROVE  UpdateInv'
  <2>1. ~overlapped /\ Owner(r) /\ updateJob # NoSlot
    BY <1>4, AwaitOwnSlot DEF UpdateInv, Owner
  <2>2. /\ \A s \in Slot \ {r} : co'[s] = co[s]
        /\ co[r].pc = "own" /\ co'[r].kind = co[r].kind
        /\ co'[r].pc = "await own" /\ UNCHANGED <<updateJob, crashed>>
        /\ co'[r].after = IF updateJob = Completed THEN NoSlot ELSE updateJob
    BY <1>4, <2>1, AwaitOwnSlot
  <2>3. \A s \in Slot : (Owner(s)' => s = r) /\ (Update(s)' => Update(s))
    BY <2>1, <2>2 DEF UpdateInv, Owner, Update
  <2>4. \A u \in Slot : Update(u)' => updateJob = u /\ co'[r].after = u
    BY <2>1, <2>2, <2>3, SlotAssumption DEF UpdateInv
  <2> QED
    BY <2>1, <2>2, <2>3, <2>4 DEF UpdateInv
<1>5. ASSUME NEW r \in Slot, ClearOwn(r)
      PROVE  UpdateInv'
  <2>1. ~overlapped /\ Owner(r)
    BY <1>5, ClearOwnSlot DEF Owner
  <2>2. /\ \A s \in Slot \ {r} : co'[s] = co[s]
        /\ co[r].pc = "await own" /\ co[r].after = NoSlot /\ co'[r].kind = co[r].kind
        /\ co'[r].pc \in {"over", "answered"} /\ crashed' = crashed
    BY <1>5, ClearOwnSlot
  <2>3. \A s \in Slot : ~Owner(s)'
    BY <2>1, <2>2 DEF UpdateInv, Owner
  <2>4. \A u \in Slot : ~Update(u)
    BY <2>1, <2>2, SlotAssumption DEF UpdateInv, Owner
  <2>5. \A u \in Slot : ~Update(u)'
    BY <2>2, <2>4 DEF Update
  <2> QED
    BY <2>1, <2>2, <2>3, <2>5 DEF UpdateInv
<1>6. ASSUME NEW r \in Slot, NEW s \in Slot, Start(r, s)
      PROVE  UpdateInv'
  <2>1. ~overlapped /\ \A q \in Slot : ~Owner(q)
    BY <1>6, StartSlot
  <2>2. \A u \in Slot : ~Update(u)
    BY <2>1 DEF UpdateInv, Owner
  <2>3. /\ r # s /\ \A q \in Slot \ {r, s} : co'[q] = co[q]
        /\ co[r].pc = "start" /\ co'[r].pc = "own" /\ co'[r].kind = co[r].kind
        /\ co'[s].pc = "sent" /\ updateJob' = s /\ crashed' = crashed
    BY <1>6, StartSlot
  <2>4. \A q \in Slot : (Owner(q)' => q = r) /\ (Update(q)' => q = s)
    BY <2>1, <2>2, <2>3 DEF Owner, Update
  <2> QED
    BY <2>1, <2>3, <2>4, SlotAssumption DEF UpdateInv
<1>7. ASSUME NEW r \in Slot, Queued(r)
      PROVE  Calms
  BY <1>7, QueuedCalm
<1> QED
  BY <1>1, <1>2, <1>3, <1>4, <1>5, <1>6, <1>7, Calmly DEF UpdateInv

(* References to what is waited for outlive a step that completes nothing. *)
LEMMA RefsKept ==
    ASSUME UpdateRefs, \A s \in Slot : Stays(s),
           \A s \in Slot : \/ WaitKept(s)
                           \/ co'[s].after \in Slot => co[co'[s].after].pc \notin Out,
           updateJob' \in Slot => co'[updateJob'].pc \notin Out /\ co'[updateJob'].kind = "update"
    PROVE  UpdateRefs'
<1>1. ASSUME NEW s \in Slot, co'[s].after \in Slot
      PROVE  co[co'[s].after].pc \notin Out
  BY <1>1, SlotAssumption DEF WaitKept, UpdateRefs
<1> QED
  BY <1>1 DEF UpdateRefs, Stays

(* Every step keeps the references to what is waited for and to the update. *)
LEMMA UpdateRefsStep ==
    ASSUME TypeOK, Shapes, Shapes', JobRefs, UpdateRefs, [Next]_vars
    PROVE  UpdateRefs'
<1>1. ASSUME Calms
      PROVE  /\ \A s \in Slot : Stays(s)
             /\ updateJob' \in Slot =>
                   co'[updateJob'].pc \notin Out /\ co'[updateJob'].kind = "update"
  <2>1. \A s \in Slot : Calm(s) /\ updateJob' = updateJob
    BY <1>1 DEF Calms
  <2>2. \A s \in Slot : Stays(s)
    BY <2>1 DEF Calm, Stays
  <2> QED
    BY <2>1, <2>2 DEF Stays, UpdateRefs
<1>2. CASE Calms /\ \A s \in Slot : WaitKept(s)
  BY <1>1, <1>2, RefsKept
<1>3. ASSUME NEW r \in Slot, Queued(r)
      PROVE  UpdateRefs'
  <2>1. Calms /\ \A s \in Slot \ {r} : WaitKept(s)
    BY <1>3, QueuedCalm, QueuedSlot DEF WaitKept
  <2>2. co'[r].after \in {NoSlot, last[co[r].kind]} /\ co[r].kind \in QueuedKind
    BY <1>3, QueuedSlot
  <2>3. co'[r].after \in Slot => co[co'[r].after].pc \notin Out
    BY <2>2, SlotAssumption DEF JobRefs
  <2> QED
    BY <1>1, <2>1, <2>3, RefsKept
<1>4. ASSUME NEW r \in Slot, Finish(r)
      PROVE  UpdateRefs'
  <2>1. /\ co'[r].after = NoSlot
        /\ \A s \in Slot \ {r} : /\ co'[s].pc = co[s].pc /\ co'[s].kind = co[s].kind
                                 /\ co'[s].after = IF co[s].after = r THEN NoSlot ELSE co[s].after
        /\ updateJob' = IF updateJob = r THEN Completed ELSE updateJob
    BY <1>4, FinishSlot
  <2>2. ASSUME NEW s \in Slot, co'[s].after \in Slot
        PROVE  co'[co'[s].after].pc \notin Out
    <3>1. s # r /\ co'[s].after = co[s].after /\ co[s].after # r
      BY <2>1, <2>2, SlotAssumption
    <3> QED
      BY <2>1, <2>2, <3>1 DEF UpdateRefs
  <2>3. ASSUME updateJob' \in Slot
        PROVE  co'[updateJob'].pc \notin Out /\ co'[updateJob'].kind = "update"
    <3>1. updateJob' = updateJob /\ updateJob # r
      BY <2>1, <2>3, SlotAssumption
    <3> QED
      BY <2>1, <2>3, <3>1 DEF UpdateRefs
  <2> QED
    BY <2>2, <2>3 DEF UpdateRefs
<1>5. ASSUME NEW r \in Slot, JoinUpdate(r) \/ AwaitOwn(r) \/ ClearOwn(r)
      PROVE  UpdateRefs'
  <2>1. /\ \A s \in Slot \ {r} : co'[s] = co[s]
        /\ co'[r].pc \notin Out /\ co[r].pc \notin Out /\ co'[r].kind = co[r].kind
        /\ co'[r].after \in {co[r].after, NoSlot, updateJob}
        /\ updateJob' \in {updateJob, NoSlot}
    BY <1>5, JoinUpdateSlot, AwaitOwnSlot, ClearOwnSlot DEF Out, token
  <2>2. \A s \in Slot : Stays(s)
    BY <2>1 DEF Stays
  <2>3. \A s \in Slot : WaitKept(s) \/ (co'[s].after \in Slot => co[co'[s].after].pc \notin Out)
    BY <2>1 DEF WaitKept, UpdateRefs
  <2>4. updateJob' \in Slot => co'[updateJob'].pc \notin Out /\ co'[updateJob'].kind = "update"
    BY <2>1, <2>2, SlotAssumption DEF UpdateRefs, Stays
  <2> QED
    BY <2>2, <2>3, <2>4, RefsKept
<1>6. ASSUME NEW r \in Slot, NEW s \in Slot, Start(r, s)
      PROVE  UpdateRefs'
  <2>1. /\ r # s /\ \A q \in Slot \ {r, s} : co'[q] = co[q]
        /\ co'[r].pc = "own" /\ co'[r].kind = co[r].kind /\ co'[r].after = co[r].after
        /\ co[s].pc = "free" /\ co'[s].pc = "sent" /\ co'[s].kind = "update"
        /\ co'[s].after = NoSlot /\ updateJob' = s
    BY <1>6, StartSlot
  <2>2. \A q \in Slot : Stays(q) /\ WaitKept(q)
    BY <2>1 DEF Stays, WaitKept, Out
  <2> QED
    BY <2>1, <2>2, RefsKept DEF Out
<1> QED
  BY <1>2, <1>3, <1>4, <1>5, <1>6, Calmly

-----------------------------------------------------------------------------
(* No circle *)

NoCircles == \A circle \in SUBSET Slot : circle # {} => \E r \in circle : co[r].after \notin circle

(* Nobody new is waited for, or only one that waits for nobody.              *)
LEMMA CirclesKept ==
    ASSUME NoCircles, NEW r \in Slot, NEW t \in Slot \cup {NoSlot},
           \A s \in Slot \ {r} : WaitKept(s), co'[r].after \in {co[r].after, NoSlot, t},
           t \in Slot => co'[t].after = NoSlot
    PROVE  NoCircles'
<1> SUFFICES ASSUME NEW circle \in SUBSET Slot, circle # {}
    PROVE  \E s \in circle : co'[s].after \notin circle
  BY DEF NoCircles
<1>1. CASE t \in circle
  BY <1>1, SlotAssumption
<1>2. CASE t \notin circle
  <2>1. PICK s \in circle : co[s].after \notin circle
    BY DEF NoCircles
  <2> QED
    BY <1>2, <2>1, SlotAssumption DEF WaitKept
<1> QED
  BY <1>1, <1>2

(* A job that joins the last one is waited for by nobody.                    *)
LEMMA CirclesQueued ==
    ASSUME TypeOK, Shapes, JobRefs, UpdateRefs, NoCircles, NEW r \in Slot, Queued(r)
    PROVE  NoCircles'
<1>1. /\ co[r].pc = "listen" /\ co[r].kind \in QueuedKind
      /\ \A s \in Slot \ {r} : co'[s] = co[s]
      /\ co'[r].after \in {NoSlot, last[co[r].kind]}
  BY QueuedSlot
<1>2. last[co[r].kind] # r /\ \A s \in Slot : co[s].after # r
  BY <1>1 DEF JobRefs, UpdateRefs, Out
<1> SUFFICES ASSUME NEW circle \in SUBSET Slot, circle # {}
    PROVE  \E s \in circle : co'[s].after \notin circle
  BY DEF NoCircles
<1>3. CASE circle = {r}
  BY <1>1, <1>2, <1>3, SlotAssumption
<1>4. CASE circle # {r}
  <2>1. circle \ {r} # {} /\ circle \ {r} \in SUBSET Slot
    BY <1>4
  <2>2. PICK s \in circle \ {r} : co[s].after \notin circle \ {r}
    BY <2>1 DEF NoCircles
  <2> QED
    BY <1>1, <1>2, <2>2
<1> QED
  BY <1>3, <1>4

(* No step closes a circle, until an identification is refused. *)
LEMMA CircleStep ==
    ASSUME TypeOK, Shapes, Shapes', JobRefs, UpdateRefs, CircleInv, [Next]_vars
    PROVE  CircleInv'
<1> SUFFICES ASSUME ~refused'
    PROVE  /\ \A u \in Slot : Update(u)' => co'[u].after = NoSlot /\ co'[u].pc \in {"sent", "over"}
           /\ NoCircles'
  BY DEF CircleInv, NoCircles
<1> DEFINE Sinks == \A u \in Slot : Update(u) => co[u].after = NoSlot /\ co[u].pc \in {"sent", "over"}
<1>0. ~refused => Sinks /\ NoCircles
  BY DEF CircleInv, NoCircles
<1>1. ASSUME Calms, ~refused
      PROVE  \A u \in Slot : Update(u)' => Update(u) /\ co'[u].pc \in {"sent", "over"}
  <2> TAKE u \in Slot
  <2>1. Calm(u)
    BY <1>1 DEF Calms
  <2> QED
    BY <1>0, <1>1, <2>1 DEF Calm, Update
<1>2. CASE Calms /\ (refused => refused') /\ \A s \in Slot : WaitKept(s)
  <2>1. Sinks /\ NoCircles /\ ~refused
    BY <1>0, <1>2
  <2>2. ASSUME NEW u \in Slot, Update(u)'
        PROVE  co'[u].after = NoSlot /\ co'[u].pc \in {"sent", "over"}
    BY <1>1, <1>2, <2>1, <2>2 DEF WaitKept
  <2>3. NoCircles'
    <3> SUFFICES ASSUME NEW circle \in SUBSET Slot, circle # {}
        PROVE  \E s \in circle : co'[s].after \notin circle
      BY DEF NoCircles
    <3>1. PICK s \in circle : co[s].after \notin circle
      BY <2>1 DEF NoCircles
    <3> QED
      BY <1>2, <3>1, SlotAssumption DEF WaitKept
  <2> QED
    BY <2>2, <2>3
<1>3. ASSUME NEW r \in Slot, Queued(r)
      PROVE  /\ \A u \in Slot : Update(u)' => co'[u].after = NoSlot /\ co'[u].pc \in {"sent", "over"}
             /\ NoCircles'
  <2>1. Sinks /\ NoCircles /\ ~refused /\ Calms
    BY <1>0, <1>3, QueuedCalm
  <2>2. NoCircles'
    BY <1>3, <2>1, CirclesQueued
  <2>3. ASSUME NEW u \in Slot, Update(u)'
        PROVE  co'[u].after = NoSlot /\ co'[u].pc \in {"sent", "over"}
    <3>1. Update(u) /\ co'[u].pc \in {"sent", "over"}
      BY <1>1, <2>1, <2>3
    <3>2. co[r].kind # "update" /\ \A s \in Slot \ {r} : co'[s] = co[s]
      <4>1. co[r].kind \in QueuedKind /\ \A s \in Slot \ {r} : co'[s] = co[s]
        BY <1>3, QueuedSlot
      <4>2. "update" \notin QueuedKind
        BY Kinds
      <4> QED
        BY <4>1, <4>2
    <3>3. u # r
      BY <3>1, <3>2 DEF Update
    <3> QED
      BY <2>1, <3>1, <3>2, <3>3
  <2> QED
    BY <2>2, <2>3
<1>4. ASSUME NEW r \in Slot, Finish(r)
      PROVE  /\ \A u \in Slot : Update(u)' => co'[u].after = NoSlot /\ co'[u].pc \in {"sent", "over"}
             /\ NoCircles'
  <2>1. Sinks /\ NoCircles
    BY <1>0, <1>4, FinishSlot
  <2>2. /\ co'[r].pc \in Out /\ co'[r].after = NoSlot
        /\ co'[r].pc = "listen" => co'[r].kind \in Kind
        /\ \A s \in Slot \ {r} : /\ co'[s].pc = co[s].pc /\ co'[s].kind = co[s].kind
                                 /\ co'[s].after = IF co[s].after = r THEN NoSlot ELSE co[s].after
    BY <1>4, FinishSlot
  <2>3. ASSUME NEW u \in Slot, Update(u)'
        PROVE  co'[u].after = NoSlot /\ co'[u].pc \in {"sent", "over"}
    <3>1. u # r
      BY <2>2, <2>3, Kinds DEF Update, Out
    <3> QED
      BY <2>1, <2>2, <2>3, <3>1 DEF Update
  <2>4. \A s \in Slot \ {r} : WaitKept(s)
    BY <2>2 DEF WaitKept
  <2>5. NoCircles'
    BY <2>1, <2>2, <2>4, CirclesKept, SlotAssumption
  <2> QED
    BY <2>3, <2>5
<1>5. ASSUME NEW r \in Slot, JoinUpdate(r) \/ AwaitOwn(r) \/ ClearOwn(r)
      PROVE  /\ \A u \in Slot : Update(u)' => co'[u].after = NoSlot /\ co'[u].pc \in {"sent", "over"}
             /\ NoCircles'
  <2>1. /\ \A s \in Slot \ {r} : co'[s] = co[s]
        /\ co[r].pc \in {"join update", "own", "await own"} /\ co'[r].kind = co[r].kind
        /\ co'[r].after \in {co[r].after, NoSlot, updateJob} /\ refused' = refused
    BY <1>5, JoinUpdateSlot, AwaitOwnSlot, ClearOwnSlot DEF token
  <2>2. Sinks /\ NoCircles
    BY <1>0, <2>1
  <2>3. ~Update(r) /\ ~Update(r)'
    BY <2>1, <2>2 DEF Update
  <2>4. ASSUME NEW u \in Slot, Update(u)'
        PROVE  co'[u].after = NoSlot /\ co'[u].pc \in {"sent", "over"}
    <3>1. u # r
      BY <2>3, <2>4
    <3> QED
      BY <2>1, <2>2, <2>4, <3>1 DEF Update
  <2>5. PICK t \in Slot \cup {NoSlot} :
            co'[r].after \in {co[r].after, NoSlot, t} /\ (t \in Slot => t = updateJob)
    <3>1. CASE updateJob \in Slot
      BY <2>1, <3>1
    <3>2. CASE updateJob \notin Slot
      <4>1. co'[r].after \in Slot \cup {NoSlot} /\ co[r].after \in Slot \cup {NoSlot}
        BY TypeStep DEF TypeOK, Coroutine
      <4>2. co'[r].after \in {co[r].after, NoSlot, NoSlot}
        BY <2>1, <3>2, <4>1
      <4> QED
        BY <4>2, SlotAssumption
    <3> QED
      BY <3>1, <3>2
  <2>6. t \in Slot => co'[t].after = NoSlot
    <3> HAVE t \in Slot
    <3>1. Update(t)
      BY <2>5 DEF UpdateRefs, Update, Out
    <3>2. t # r
      BY <2>3, <3>1
    <3> QED
      BY <2>1, <2>2, <3>1, <3>2
  <2>7. \A s \in Slot \ {r} : WaitKept(s)
    BY <2>1 DEF WaitKept
  <2>8. NoCircles'
    BY <2>2, <2>5, <2>6, <2>7, CirclesKept
  <2> QED
    BY <2>4, <2>8
<1>6. ASSUME NEW r \in Slot, NEW s \in Slot, Start(r, s)
      PROVE  /\ \A u \in Slot : Update(u)' => co'[u].after = NoSlot /\ co'[u].pc \in {"sent", "over"}
             /\ NoCircles'
  <2>1. /\ r # s /\ \A q \in Slot \ {r, s} : co'[q] = co[q]
        /\ co[r].pc = "start" /\ co'[r].kind = co[r].kind /\ co'[r].after = co[r].after
        /\ co'[s].pc = "sent" /\ co'[s].after = NoSlot /\ refused' = refused
    BY <1>6, StartSlot
  <2>2. Sinks /\ NoCircles
    BY <1>0, <2>1
  <2>3. \A q \in Slot \ {r} : WaitKept(q)
    BY <2>1 DEF WaitKept
  <2>4. NoCircles'
    BY <2>1, <2>2, <2>3, CirclesKept, SlotAssumption
  <2>5. ASSUME NEW u \in Slot, Update(u)'
        PROVE  co'[u].after = NoSlot /\ co'[u].pc \in {"sent", "over"}
    <3>1. u # r
      BY <2>1, <2>2, <2>5 DEF Update
    <3> QED
      BY <2>1, <2>2, <2>5, <3>1 DEF Update
  <2> QED
    BY <2>4, <2>5
<1> QED
  BY <1>2, <1>3, <1>4, <1>5, <1>6, Calmly

-----------------------------------------------------------------------------
(* Logins and logouts *)

(* A slot whose login or logout does not begin, nor is answered, nor acted on. *)
Quiet(s) ==
    /\ co'[s].kind \in {"login", "logout"} /\ co'[s].pc \in Running =>
          co[s].kind = co'[s].kind /\ co[s].pc \in Running
    /\ co'[s].pc = "answered" /\ co'[s].ok => co[s].pc = "answered" /\ co[s].ok
    /\ At(s, "answered", {"logout"}) => At(s, "answered", {"logout"})'

Quietly ==
    /\ state' = state /\ serverAdmin' = serverAdmin
    /\ raced \subseteq raced' /\ (givenUp => givenUp')
    /\ "logout" \in late' => "logout" \in late \/ givenUp'
    /\ \A s \in Slot : Quiet(s)

(* A coroutine moves, other than a login or logout that was answered. *)
LEMMA QuietGoto ==
    ASSUME TypeOK, Shapes, NEW r \in Slot,
           NEW pc \in Out \cup {"join"} \cup Running \cup Ended, Goto(r, pc),
           \/ co[r].pc \in Running \ {"answered"}
           \/ co[r].kind \notin {"login", "logout"}
    PROVE  \A s \in Slot : Quiet(s)
<1>1. Shape(co[r]) /\ "answered" \in Running /\ "done" \notin Running
  BY DEF Shapes, Running
<1>2. Quiet(r)
  BY <1>1, GotoSlot DEF Quiet, Shape, At
<1>3. \A s \in Slot \ {r} : Quiet(s)
  BY GotoSlot DEF Quiet, At
<1> QED
  BY <1>2, <1>3

(* The same, when updateToken returns. *)
LEMMA QuietReturn ==
    ASSUME TypeOK, Shapes, NEW r \in Slot, Return(r), co[r].pc \in Running \ {"answered"}
    PROVE  \A s \in Slot : Quiet(s)
<1> DEFINE pc == IF co[r].kind = "caller" THEN "over" ELSE "answered"
<1>1. Goto(r, pc) /\ pc \in Out \cup {"join"} \cup Running \cup Ended
  BY DEF Return, Running, Ended
<1> HIDE DEF pc
<1> QED
  BY <1>1, QuietGoto

(* The same, when it begins to wait. *)
LEMMA QuietWait ==
    ASSUME TypeOK, Shapes, NEW r \in Slot, NEW pc \in Running \ {"answered"}, Waits(r, pc, updateJob),
           co[r].pc \in Running \ {"answered"}
    PROVE  \A s \in Slot : Quiet(s)
<1>1. updateJob \in Slot \cup {NoSlot, Completed} /\ pc \in Running
  BY DEF TypeOK
<1>2. Quiet(r)
  BY <1>1, WaitSlot DEF Quiet, At
<1>3. \A s \in Slot \ {r} : Quiet(s)
  BY <1>1, WaitSlot DEF Quiet, At
<1> QED
  BY <1>2, <1>3

(* A slot that does not run, before and after. *)
LEMMA QuietOther ==
    ASSUME NEW s \in Slot, co'[s] = co[s] \/ (co[s].pc # "answered" /\ co'[s].pc \notin Running)
    PROVE  Quiet(s)
BY DEF Quiet, At, Running

(* The steps of events and jobs are quiet, but for the one that begins a request. *)
LEMMA JobQuiet ==
    ASSUME TypeOK, Shapes, NEW r \in Slot, Events(r) \/ queueJob(r)
    PROVE  Quietly \/ Begin(r)
<1>1. CASE AskToken(r)
  <2> DEFINE c == [Free EXCEPT !.pc = "check", !.kind = "caller"]
  <2>1. c \in Coroutine /\ c.kind = "caller" /\ c.pc = "check"
    BY NewSlot DEF Free, Coroutine, Running
  <2>2. Set(r, c) /\ co[r].pc = "free" /\ UNCHANGED <<state, external, raced, givenUp>>
    BY <1>1 DEF AskToken, Call
  <2> HIDE DEF c
  <2>3. \A s \in Slot : Quiet(s)
    BY <2>1, <2>2, SetSlot DEF Quiet, At
  <2> QED
    BY <2>2, <2>3 DEF Quietly, external
<1>2. ASSUME NEW kind \in Command \ {"block"}, Ask(r, kind)
      PROVE  Quietly
  <2>1. New(kind) \in Coroutine /\ New(kind).pc = "listen"
    BY CommandAssumption, NewSlot
  <2>2. Set(r, New(kind)) /\ co[r].pc = "free" /\ UNCHANGED <<state, external, raced, givenUp>>
    BY <1>2 DEF Ask
  <2>3. \A s \in Slot : Quiet(s)
    BY <2>1, <2>2, SetSlot, QuietOther DEF Running
  <2> QED
    BY <2>2, <2>3 DEF Quietly, external
<1>3. ASSUME NEW s \in Slot, AskBlock(r, s)
      PROVE  Quietly
  <2>1. New("block").pc = "listen"
    BY Kinds, NewSlot
  <2>2. /\ co' = [co EXCEPT ![r] = New("block"), ![s] = New("block")]
        /\ co[r].pc = "free" /\ co[s].pc = "free" /\ UNCHANGED <<state, external, raced, givenUp>>
    BY <1>3 DEF AskBlock
  <2>3. \A q \in Slot : co'[q] = co[q] \/ (co'[q] = New("block") /\ q \in {r, s})
    BY <2>2 DEF TypeOK
  <2>4. ASSUME NEW q \in Slot
        PROVE  Quiet(q)
    BY <2>1, <2>2, <2>3, QuietOther DEF Running
  <2> QED
    BY <2>2, <2>4 DEF Quietly, external
<1>4. CASE Dropped(r)
  <2>1. Set(r, Free) /\ co[r].pc = "listen" /\ UNCHANGED <<state, external, raced, givenUp>>
    BY <1>4 DEF Dropped
  <2>2. \A s \in Slot : Quiet(s)
    BY <2>1, SetSlot, NewSlot, QuietOther DEF Running
  <2> QED
    BY <2>1, <2>2 DEF Quietly, external
<1>5. CASE Launched(r)
  <2>1. Goto(r, "sent") /\ co[r].kind = "delete" /\ UNCHANGED <<state, external, raced, givenUp>>
    BY <1>5 DEF Launched, At
  <2>2. \A s \in Slot : Quiet(s)
    BY <2>1, QuietGoto DEF Running
  <2> QED
    BY <2>1, <2>2 DEF Quietly, external
<1>6. CASE Queued(r)
  <2>1. /\ \A s \in Slot \ {r} : co'[s] = co[s]
        /\ co[r].pc = "listen" /\ co'[r].pc \in {"over", "join"}
        /\ UNCHANGED <<state, external, givenUp>>
        /\ raced' = IF Assigning(co[r].kind) # {} THEN raced \cup {co[r].kind} ELSE raced
    BY <1>6, QueuedSlot
  <2>2. \A s \in Slot : Quiet(s)
    BY <2>1, QuietOther DEF Running
  <2> QED
    BY <2>1, <2>2 DEF Quietly, external
<1>7. CASE Assign(r)
  <2>1. UNCHANGED <<state, external, raced, givenUp>>
    BY <1>7, AssignSlot
  <2>2. ASSUME NEW s \in Slot
        PROVE  Quiet(s)
    BY <1>7, AssignSlot DEF Quiet, At
  <2> QED
    BY <2>1, <2>2 DEF Quietly, external
<1>8. CASE Finish(r)
  <2>1. /\ co[r].pc \in Ended /\ co'[r].pc \in Out
        /\ UNCHANGED <<state, external, raced, givenUp>>
        /\ \A s \in Slot \ {r} : co'[s].pc = co[s].pc /\ co'[s].kind = co[s].kind /\ co'[s].ok = co[s].ok
    BY <1>8, FinishSlot
  <2>2. Quiet(r)
    BY <2>1, QuietOther DEF Running, Ended, Out
  <2>3. \A s \in Slot \ {r} : Quiet(s)
    BY <2>1 DEF Quiet, At
  <2> QED
    BY <2>1, <2>2, <2>3 DEF Quietly, external
<1> QED
  BY <1>1, <1>2, <1>3, <1>4, <1>5, <1>6, <1>7, <1>8 DEF Events, queueJob

(* The steps of a request are quiet, but for its being served and its answers. *)
LEMMA RequestQuiet ==
    ASSUME TypeOK, Shapes, NEW r \in Slot, Request(r)
    PROVE  Quietly \/ Serve(r) \/ LoggedIn(r) \/ LoggedOut(r)
<1>1. CASE Fail(r)
  <2>1. Goto(r, "answered") /\ co[r].pc = "sent" /\ UNCHANGED <<state, external, raced, givenUp>>
    BY <1>1 DEF Fail, At
  <2>2. \A s \in Slot : Quiet(s)
    BY <2>1, QuietGoto DEF Running
  <2> QED
    BY <2>1, <2>2 DEF Quietly, external
<1>2. CASE GiveUp(r)
  <2>1. /\ Goto(r, "answered") /\ co[r].pc = "sent" /\ UNCHANGED <<state, serverAdmin, raced>>
        /\ late' = late \cup {co[r].kind} /\ givenUp' = (givenUp \/ co[r].kind = "logout")
    BY <1>2 DEF GiveUp, At
  <2>2. \A s \in Slot : Quiet(s)
    BY <2>1, QuietGoto DEF Running
  <2> QED
    BY <2>1, <2>2 DEF Quietly
<1>3. CASE OtherReceived(r)
  <2>1. /\ Goto(r, "done") /\ co[r].kind \notin {"login", "logout"}
        /\ UNCHANGED <<state, external, raced, givenUp>>
    BY <1>3 DEF OtherReceived, At
  <2>2. \A s \in Slot : Quiet(s)
    BY <2>1, QuietGoto DEF Ended
  <2> QED
    BY <2>1, <2>2 DEF Quietly, external
<1> QED
  BY <1>1, <1>2, <1>3 DEF Request

(* The steps of updateToken and of an update are quiet. *)
LEMMA TokenQuiet ==
    ASSUME TypeOK, Shapes, NEW r \in Slot, Token(r)
    PROVE  Quietly
<1> SUFFICES \A s \in Slot : Quiet(s)
  BY DEF Quietly, Token, external
<1>1. CASE Check(r)
  <2> DEFINE pc == IF updateJob # NoSlot THEN "join update" ELSE "start"
  <2>1. Goto(r, pc) /\ pc \in Running /\ co[r].pc = "check"
    BY <1>1 DEF Check, Running
  <2> HIDE DEF pc
  <2> QED
    BY <2>1, QuietGoto DEF Running
<1>2. CASE JoinUpdate(r)
  <2>1. Return(r) \/ Waits(r, "await", updateJob)
    BY <1>2 DEF JoinUpdate
  <2>2. co[r].pc \in Running \ {"answered"} /\ "await" \in Running \ {"answered"}
    BY <1>2 DEF JoinUpdate, Running
  <2> QED
    BY <2>1, <2>2, QuietReturn, QuietWait
<1>3. CASE AwaitOwn(r)
  <2>1. Goto(r, "over") \/ Waits(r, "await own", updateJob)
    BY <1>3 DEF AwaitOwn
  <2>2. co[r].pc \in Running \ {"answered"} /\ "await own" \in Running \ {"answered"} /\ "over" \in Ended
    BY <1>3 DEF AwaitOwn, Running, Ended
  <2> QED
    BY <2>1, <2>2, QuietGoto, QuietWait
<1>4. CASE Awaited(r)
  BY <1>4, QuietReturn DEF Awaited, Running
<1>5. CASE ClearOwn(r)
  BY <1>5, QuietReturn DEF ClearOwn, Running
<1>6. ASSUME NEW s \in Slot, Start(r, s)
      PROVE  \A q \in Slot : Quiet(q)
  <2>1. /\ \A q \in Slot \ {r, s} : co'[q] = co[q]
        /\ co[r].pc = "start" /\ co'[r].pc = "own" /\ co'[r].kind = co[r].kind
        /\ co[s].pc = "free" /\ co'[s].pc = "sent" /\ co'[s].kind = "update"
    BY <1>6, StartSlot
  <2>2. ASSUME NEW q \in Slot
        PROVE  Quiet(q)
    BY <2>1 DEF Quiet, At, Running
  <2> QED
    BY <2>2
<1>7. CASE Identified(r)
  BY <1>7, QuietGoto DEF Identified, Ended
<1>8. CASE Refused(r)
  BY <1>8, QuietGoto DEF Refused, Running
<1> QED
  BY <1>1, <1>2, <1>3, <1>4, <1>5, <1>6, <1>7, <1>8 DEF Token, updateToken

(* Hence every step is quiet, but for those that begin, serve or end a login or a logout. *)
LEMMA Quieter ==
    ASSUME TypeOK, Shapes, [Next]_vars
    PROVE  \/ Quietly
           \/ \E r \in Slot : Begin(r) \/ Serve(r) \/ LoggedIn(r) \/ LoggedOut(r)
           \/ \E kind \in {"login", "logout"} : ServeLate(kind)
<1>1. CASE UNCHANGED vars
  BY <1>1 DEF vars, Quietly, Quiet, At, external
<1> QED
  BY <1>1, JobQuiet, RequestQuiet, TokenQuiet DEF Next

(* At most one login runs at a time, and one logout.                         *)
LEMMA OneRuns ==
    ASSUME ChainInv, NEW kind \in {"login", "logout"}, kind \notin raced,
           NEW r \in Slot, NEW s \in Slot, co[r].kind = kind, co[s].kind = kind,
           co[r].pc \in Running, co[s].pc \in Running
    PROVE  r = s
<1>1. kind \in QueuedKind
  BY Kinds
<1>2. Leads(kind, r) /\ Leads(kind, s)
  BY DEF Leads
<1> QED
  BY <1>1, <1>2 DEF ChainInv, Chain, First

(* What holds while no jobs of the two kinds raced and no logout was given up. *)
AdminAgrees ==
    /\ \A r \in Slot : co[r].kind = "login" /\ co[r].pc \in Running => state = "User"
    /\ \A r \in Slot : co[r].kind = "logout" /\ co[r].pc \in Running => state = "Admin"
    /\ \A r \in Slot : co[r].pc = "answered" /\ co[r].ok => serverAdmin
    /\ state = "Admin" => serverAdmin \/ \E r \in Slot : At(r, "answered", {"logout"})

(* Every step keeps what the phone shows to what the server has. *)
LEMMA AdminStep ==
    ASSUME TypeOK, Shapes, Shapes', ChainInv, AdminInv, [Next]_vars
    PROVE  AdminInv'
<1>0. "answered" \in Running /\ "sent" \in Running /\ "done" \notin Running /\ "over" \notin Running
      /\ "login" # "logout"
  BY DEF Running
<1>1. CASE Quietly
  <2>1. "logout" \in late' => givenUp'
    BY <1>1 DEF Quietly, AdminInv
  <2>2. ASSUME Alone', ~givenUp'
        PROVE  AdminAgrees'
    <3>1. Alone /\ ~givenUp /\ state' = state /\ serverAdmin' = serverAdmin /\ \A s \in Slot : Quiet(s)
      BY <1>1, <2>2 DEF Quietly, Alone
    <3>2. AdminAgrees
      BY <3>1 DEF AdminInv, AdminAgrees
    <3>3. \A r \in Slot : co'[r].kind = "login" /\ co'[r].pc \in Running => state = "User"
      BY <3>1, <3>2 DEF AdminAgrees, Quiet
    <3>4. \A r \in Slot : co'[r].kind = "logout" /\ co'[r].pc \in Running => state = "Admin"
      BY <3>1, <3>2 DEF AdminAgrees, Quiet
    <3>5. \A r \in Slot : co'[r].pc = "answered" /\ co'[r].ok => serverAdmin
      BY <3>1, <3>2 DEF AdminAgrees, Quiet
    <3>6. state = "Admin" => serverAdmin \/ \E r \in Slot : At(r, "answered", {"logout"})'
      BY <3>1, <3>2 DEF AdminAgrees, Quiet
    <3> QED
      BY <3>1, <3>3, <3>4, <3>5, <3>6 DEF AdminAgrees
  <2> QED
    BY <2>1, <2>2 DEF AdminInv, AdminAgrees
<1>2. ASSUME NEW r \in Slot, Begin(r)
      PROVE  AdminInv'
  <2> DEFINE pc == IF \/ co[r].kind = "login" /\ state = "Admin"
                      \/ co[r].kind = "logout" /\ state # "Admin" THEN "over" ELSE "sent"
  <2>1. /\ Goto(r, pc) /\ pc \in Running \cup Ended /\ co[r].pc = "join"
        /\ UNCHANGED <<state, external, raced, givenUp>>
    BY <1>2 DEF Begin, Running, Ended
  <2>2. /\ pc \in Running /\ co[r].kind = "login" => state = "User"
        /\ pc \in Running /\ co[r].kind = "logout" => state = "Admin"
        /\ pc # "answered"
    BY <1>0 DEF TypeOK
  <2> HIDE DEF pc
  <2>3. /\ \A s \in Slot \ {r} : co'[s] = co[s]
        /\ co'[r].pc = pc /\ co'[r].kind = co[r].kind
    BY <2>1, GotoSlot
  <2>4. ASSUME Alone, ~givenUp
        PROVE  AdminAgrees'
    <3>1. AdminAgrees
      BY <2>4 DEF AdminInv, AdminAgrees
    <3>2. \A s \in Slot : At(s, "answered", {"logout"}) => At(s, "answered", {"logout"})'
      BY <2>1, <2>3 DEF At
    <3>3. ASSUME NEW s \in Slot
          PROVE  /\ co'[s].kind = "login" /\ co'[s].pc \in Running => state' = "User"
                 /\ co'[s].kind = "logout" /\ co'[s].pc \in Running => state' = "Admin"
                 /\ co'[s].pc = "answered" /\ co'[s].ok => serverAdmin'
      BY <2>1, <2>2, <2>3, <3>1 DEF AdminAgrees, external
    <3>4. state' = "Admin" => serverAdmin' \/ \E s \in Slot : At(s, "answered", {"logout"})'
      BY <2>1, <3>1, <3>2 DEF AdminAgrees, external
    <3> QED
      BY <3>3, <3>4 DEF AdminAgrees
  <2> QED
    BY <2>1, <2>4 DEF AdminInv, AdminAgrees, Alone, external
<1>3. ASSUME NEW r \in Slot, Serve(r)
      PROVE  AdminInv'
  <2> DEFINE ok == co[r].kind = "login"
             c == [co[r] EXCEPT !.pc = "answered", !.ok = ok]
  <2>1. co[r] \in Coroutine /\ ok \in BOOLEAN
    BY DEF TypeOK
  <2>2. /\ Set(r, c) /\ co[r].pc = "sent" /\ UNCHANGED <<state, late, raced, givenUp>>
        /\ serverAdmin' = CASE co[r].kind = "login"  -> TRUE
                            [] co[r].kind = "logout" -> FALSE
                            [] OTHER                 -> serverAdmin
    BY <1>3 DEF Serve, At, Effect
  <2> HIDE DEF ok
  <2>3. c \in Coroutine /\ c.pc = "answered" /\ c.kind = co[r].kind /\ c.ok = ok
    BY <2>1 DEF Coroutine, Running
  <2> HIDE DEF c
  <2>4. /\ \A s \in Slot \ {r} : co'[s] = co[s]
        /\ co'[r].pc = "answered" /\ co'[r].kind = co[r].kind
        /\ co'[r].ok = (co[r].kind = "login")
    BY <2>2, <2>3, SetSlot DEF ok
  <2>5. ASSUME Alone, ~givenUp
        PROVE  AdminAgrees'
    <3>1. AdminAgrees
      BY <2>5 DEF AdminInv, AdminAgrees
    <3>2. \A s \in Slot : co'[s].kind = co[s].kind /\ (co'[s].pc \in Running <=> co[s].pc \in Running)
      BY <1>0, <2>2, <2>4
    <3>3. /\ \A s \in Slot : co'[s].kind = "login" /\ co'[s].pc \in Running => state' = "User"
          /\ \A s \in Slot : co'[s].kind = "logout" /\ co'[s].pc \in Running => state' = "Admin"
      BY <2>2, <3>1, <3>2 DEF AdminAgrees
    <3>4. CASE co[r].kind = "login"
      BY <2>2, <3>3, <3>4 DEF AdminAgrees
    <3>5. CASE co[r].kind = "logout"
      <4>1. state = "Admin"
        BY <1>0, <2>2, <3>1, <3>5 DEF AdminAgrees
      <4>2. At(r, "answered", {"logout"})'
        BY <2>4, <3>5 DEF At
      <4>3. ASSUME NEW s \in Slot, co'[s].pc = "answered", co'[s].ok
            PROVE  FALSE
        <5>1. co'[s].kind = "login"
          BY <4>3 DEF Shapes, Shape
        <5> QED
          BY <1>0, <2>2, <3>3, <4>1, <4>3, <5>1
      <4> QED
        BY <3>3, <4>2, <4>3 DEF AdminAgrees
    <3>6. CASE co[r].kind \notin {"login", "logout"}
      <4>1. serverAdmin' = serverAdmin
        BY <2>2, <3>6
      <4>2. \A s \in Slot : co'[s].pc = "answered" /\ co'[s].ok => serverAdmin
        BY <2>4, <3>1, <3>6 DEF AdminAgrees
      <4>3. \A s \in Slot : At(s, "answered", {"logout"}) => At(s, "answered", {"logout"})'
        BY <2>2, <2>4 DEF At
      <4>4. ASSUME state' = "Admin", ~serverAdmin'
            PROVE  \E s \in Slot : At(s, "answered", {"logout"})'
        <5>1. state = "Admin"
          BY <2>2, <4>4
        <5>2. ~serverAdmin
          BY <4>1, <4>4, Zenon
        <5>3. PICK s \in Slot : At(s, "answered", {"logout"})
          BY <3>1, <5>1, <5>2 DEF AdminAgrees
        <5> QED
          BY <4>3, <5>3
      <4> QED
        BY <3>3, <4>1, <4>2, <4>4 DEF AdminAgrees
    <3> QED
      BY <3>4, <3>5, <3>6
  <2> QED
    BY <2>2, <2>5 DEF AdminInv, AdminAgrees, Alone
<1>4. ASSUME NEW r \in Slot, LoggedIn(r)
      PROVE  AdminInv'
  <2>1. /\ co[r].pc = "answered" /\ co[r].kind = "login" /\ Goto(r, "done")
        /\ state' = IF co[r].ok THEN "Admin" ELSE state
        /\ UNCHANGED <<external, raced, givenUp>>
    BY <1>4 DEF LoggedIn, At
  <2>2. /\ \A s \in Slot \ {r} : co'[s] = co[s]
        /\ co'[r].pc = "done" /\ co'[r].kind = "login"
    BY <2>1, GotoSlot DEF Ended
  <2>3. ASSUME Alone, ~givenUp
        PROVE  AdminAgrees'
    <3>1. AdminAgrees /\ state = "User" /\ (co[r].ok => serverAdmin)
      BY <1>0, <2>1, <2>3 DEF AdminInv, AdminAgrees
    <3>2. \A s \in Slot : co'[s].pc \in Running => s # r /\ co'[s] = co[s]
      BY <1>0, <2>2
    <3>3. \A s \in Slot : ~(co'[s].kind = "login" /\ co'[s].pc \in Running)
      <4> SUFFICES ASSUME NEW s \in Slot, co'[s].kind = "login", co'[s].pc \in Running
          PROVE  FALSE
        OBVIOUS
      <4>1. s # r /\ co[s].kind = "login" /\ co[s].pc \in Running
        BY <3>2
      <4>2. "login" \notin raced
        BY <2>3 DEF Alone
      <4> QED
        BY <1>0, <2>1, <4>1, <4>2, OneRuns
    <3>4. \A s \in Slot : ~(co'[s].kind = "logout" /\ co'[s].pc \in Running)
      BY <3>1, <3>2 DEF AdminAgrees
    <3>5. \A s \in Slot : co'[s].pc = "answered" /\ co'[s].ok => serverAdmin
      BY <1>0, <3>1, <3>2 DEF AdminAgrees
    <3>6. state' = "Admin" => serverAdmin
      BY <2>1, <3>1
    <3> QED
      BY <2>1, <3>3, <3>4, <3>5, <3>6 DEF AdminAgrees, external
  <2> QED
    BY <2>1, <2>3 DEF AdminInv, AdminAgrees, Alone, external
<1>5. ASSUME NEW r \in Slot, LoggedOut(r)
      PROVE  AdminInv'
  <2>1. /\ co[r].pc = "answered" /\ co[r].kind = "logout" /\ Goto(r, "done") /\ state' = "User"
        /\ UNCHANGED <<external, raced, givenUp>>
    BY <1>5 DEF LoggedOut, At
  <2>2. /\ \A s \in Slot \ {r} : co'[s] = co[s]
        /\ co'[r].pc = "done" /\ co'[r].kind = "logout"
    BY <2>1, GotoSlot DEF Ended
  <2>3. ASSUME Alone, ~givenUp
        PROVE  AdminAgrees'
    <3>1. AdminAgrees
      BY <2>3 DEF AdminInv, AdminAgrees
    <3>2. \A s \in Slot : co'[s].pc \in Running => s # r /\ co'[s] = co[s]
      BY <1>0, <2>2
    <3>3. \A s \in Slot : ~(co'[s].kind = "logout" /\ co'[s].pc \in Running)
      <4> SUFFICES ASSUME NEW s \in Slot, co'[s].kind = "logout", co'[s].pc \in Running
          PROVE  FALSE
        OBVIOUS
      <4>1. s # r /\ co[s].kind = "logout" /\ co[s].pc \in Running
        BY <3>2
      <4>2. "logout" \notin raced
        BY <2>3 DEF Alone
      <4> QED
        BY <1>0, <2>1, <4>1, <4>2, OneRuns
    <3>4. \A s \in Slot : co'[s].pc = "answered" /\ co'[s].ok => serverAdmin
      BY <1>0, <3>1, <3>2 DEF AdminAgrees
    <3> QED
      BY <2>1, <3>3, <3>4 DEF AdminAgrees, external
  <2> QED
    BY <2>1, <2>3 DEF AdminInv, AdminAgrees, Alone, external
<1>6. ASSUME NEW kind \in {"login", "logout"}, ServeLate(kind)
      PROVE  AdminInv'
  <2>1. /\ kind \in late /\ late' = late \ {kind} /\ UNCHANGED <<co, state, raced, givenUp>>
        /\ serverAdmin' = CASE kind = "login"  -> TRUE
                            [] kind = "logout" -> FALSE
                            [] OTHER           -> serverAdmin
    BY <1>6 DEF ServeLate, Effect
  <2>2. CASE kind = "logout"
    BY <2>1, <2>2 DEF AdminInv
  <2>3. CASE kind = "login"
    <3>1. serverAdmin'
      BY <2>1, <2>3
    <3> QED
      BY <2>1, <3>1 DEF AdminInv, Alone, At
  <2> QED
    BY <2>2, <2>3
<1> QED
  BY <1>1, <1>2, <1>3, <1>4, <1>5, <1>6, Quieter

-----------------------------------------------------------------------------
(* The theorems *)

IInv == /\ TypeOK /\ Shapes /\ JobRefs /\ LineInv /\ ChainInv
        /\ UpdateInv /\ UpdateRefs /\ CircleInv /\ AdminInv

(* The initial state satisfies the invariant. *)
LEMMA InvInit == Init => IInv
<1> SUFFICES ASSUME Init
    PROVE  IInv
  OBVIOUS
<1>1. TypeOK /\ Shapes
  BY TypeInit
<1>2. /\ \A r \in Slot : /\ co[r].pc = "free" /\ co[r].kind = "update" /\ co[r].after = NoSlot
                         /\ co[r].assign = NoSlot
      /\ \A kind \in Kind : last[kind] = NoSlot
      /\ updateJob = NoSlot /\ ~crashed /\ state = "User" /\ late = {}
  BY NewSlot DEF Init
<1>3. JobRefs /\ UpdateRefs /\ LineInv
  BY <1>2, Kinds, SlotAssumption DEF JobRefs, UpdateRefs, LineInv
<1>4. ChainInv
  <2> SUFFICES ASSUME NEW kind \in QueuedKind
      PROVE  Chain(kind)
    BY DEF ChainInv
  <2>1. \A r \in Slot : ~Assigns(kind, r) /\ ~Joins(kind, r) /\ ~Leads(kind, r)
    BY <1>2 DEF Assigns, Joins, Leads, Running
  <2>2. \A p \in Slot : ~Referred(kind, p)
    BY <1>2, <2>1, Kinds, SlotAssumption DEF Referred, Latest
  <2>3. \A p \in Slot : ~First(kind, p)
    BY <2>1, <2>2 DEF First, Leaves
  <2> QED
    BY <2>1, <2>2, <2>3 DEF Chain
<1>5. UpdateInv
  BY <1>2 DEF UpdateInv, Owner, Update
<1>6. CircleInv
  BY <1>2, SlotAssumption DEF CircleInv, Update
<1>7. AdminInv
  BY <1>2 DEF AdminInv, Running
<1> QED
  BY <1>1, <1>3, <1>4, <1>5, <1>6, <1>7 DEF IInv

(* Every step keeps it. *)
LEMMA InvStep == IInv /\ [Next]_vars => IInv'
<1> SUFFICES ASSUME IInv, [Next]_vars
    PROVE  IInv'
  OBVIOUS
<1>1. TypeOK' /\ Shapes'
  BY TypeStep DEF IInv
<1>2. JobRefs' /\ LineInv'
  BY <1>1, LineStep DEF IInv
<1>3. ChainInv'
  BY <1>1, ChainStep DEF IInv
<1>4. UpdateInv'
  BY <1>1, UpdateStep DEF IInv
<1>5. UpdateRefs'
  BY <1>1, UpdateRefsStep DEF IInv
<1>6. CircleInv'
  BY <1>1, CircleStep DEF IInv
<1>7. AdminInv'
  BY <1>1, AdminStep DEF IInv
<1> QED
  BY <1>1, <1>2, <1>3, <1>4, <1>5, <1>6, <1>7 DEF IInv

(* A set whose elements are all the same one has at most one.                *)
LEMMA AtMostOne ==
    ASSUME NEW S, \A x, y \in S : x = y
    PROVE  Cardinality(S) <= 1
<1>1. CASE S = {}
  BY <1>1, FS_EmptySet
<1>2. CASE S # {}
  <2>1. PICK x \in S : S = {x}
    BY <1>2
  <2> QED
    BY <2>1, FS_Singleton
<1> QED
  BY <1>1, <1>2

(* The coroutines, the fields of the controller and what the server has are   *)
(* what they are declared to be.                                              *)
THEOREM TypeCorrect == Spec => []TypeOK
<1>1. IInv => TypeOK
  BY DEF IInv
<1> QED
  BY <1>1, InvInit, InvStep, PTL DEF Spec

(* Of each kind that queues its jobs one request is under way at a time, for  *)
(* any number of events, unless two listeners of the kind overlapped.         *)
THEOREM OneRequestOfAKind == Spec => []OneAtATime
<1>1. IInv => OneAtATime
  <2> SUFFICES ASSUME IInv, NEW kind \in Kind \ raced, Handler[kind].queue # "none"
      PROVE  Cardinality({r \in Slot : co[r].kind = kind /\ co[r].pc \in {"sent", "answered"}}) <= 1
    BY DEF OneAtATime
  <2> DEFINE S == {r \in Slot : co[r].kind = kind /\ co[r].pc \in {"sent", "answered"}}
  <2>1. Chain(kind)
    BY Kinds DEF IInv, ChainInv
  <2>2. \A r \in S : First(kind, r)
    BY DEF First, Leads, Running
  <2>3. \A r, s \in S : r = s
    BY <2>1, <2>2 DEF Chain
  <2> HIDE DEF S
  <2>4. Cardinality(S) <= 1
    BY <2>3, AtMostOne
  <2> QED
    BY <2>4 DEF S
<1> QED
  BY <1>1, InvInit, InvStep, PTL DEF Spec

(* The client shows an administrator only while the server has it as one, or  *)
(* until its logout is answered.                                              *)
THEOREM AdminIsShown == Spec => []AdminIsAdmin
<1>1. IInv => AdminIsAdmin
  BY DEF IInv, AdminInv, AdminIsAdmin, Alone
<1> QED
  BY <1>1, InvInit, InvStep, PTL DEF Spec

(* No job waits for itself through others, unless an identification was       *)
(* refused.                                                                   *)
THEOREM NobodyWaitsForHimself == Spec => []NoCircle
<1>1. IInv => NoCircle
  <2> SUFFICES ASSUME IInv, ~refused, NEW circle \in SUBSET Slot, circle # {}
      PROVE  \E r \in circle : co[r].after \notin circle
    BY DEF NoCircle
  <2> QED
    BY DEF IInv, CircleInv
<1> QED
  BY <1>1, InvInit, InvStep, PTL DEF Spec

(* While no call of updateToken starts an update of its own beside another's, *)
(* one update is under way at a time, and updateJob!! finds it.               *)
THEOREM OneUpdate == Spec => []UpdatesAlone
<1>1. IInv => UpdatesAlone
  <2> SUFFICES ASSUME IInv, ~overlapped
      PROVE  Cardinality(Updates) <= 1 /\ ~crashed
    BY DEF UpdatesAlone
  <2>1. \A u, v \in Updates : u = v
    BY DEF IInv, UpdateInv, Updates, Update
  <2> QED
    BY <2>1, AtMostOne DEF IInv, UpdateInv
<1> QED
  BY <1>1, InvInit, InvStep, PTL DEF Spec
=============================================================================
