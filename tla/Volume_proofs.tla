---------------------------- MODULE Volume_proofs ----------------------------
(***************************************************************************)
(* The volume, from the keys of the phone to the sink of the player and    *)
(* back to the screen, for any number of steps, posts and polls; then the   *)
(* pure functions of the player behind it: the packets its events travel    *)
(* in, and the samples it gives to PulseAudio.                              *)
(*                                                                         *)
(* The changes under way to the sink are counted (CountInv).  A request     *)
(* that found the way empty stays the only one until it is answered         *)
(* (HandlerInv), so that its answer says every change that was sent.  A     *)
(* poll that began and ended with no post under way found the player        *)
(* settled (AloneInv): from then on what the phone shows is true, until the *)
(* next key (TrustInv).  Raise therefore starts from the volume itself, and *)
(* the event that sets the step keeps it at or above that volume until it   *)
(* is written (RaiseInv, FloorInv).                                         *)
(***************************************************************************)
EXTENDS VolumeKeys, Mp3Packets, AudioOutput, SequenceTheorems, TLAPS

GetRequest == [type |-> "VOLUME_GET_REQUEST"]
Events == [type : {"VOLUME_CHANGE"}, volume : Volume] \cup {Mute, Unmute}
Steps == 0 .. MaxStep
Readings == Volume \cup {Reading(volume) : volume \in Volume}
Levels == Steps \cup Readings
Data == [volume : Readings, isMuted : BOOLEAN, changes : Nat]
PhoneVolume == [level : Levels, mute : BOOLEAN]
Keys == {SetCurrent, Mute, Unmute} \cup {Set(step) : step \in Steps}

ServerTypeOK ==
    /\ handler \in [pc : {"idle", "requested", "waiting"}, quiet : BOOLEAN, before : Nat]
    /\ toPlayer \in Seq(Events \cup {GetRequest}) /\ toServer \in Seq(Data)
    /\ sink \in [volume : Volume, isMuted : BOOLEAN, changes : Nat]
    /\ m_wasVolumeDataUpdated \in BOOLEAN /\ m_lastVolumeData \in Data /\ sent \in Nat

PhoneTypeOK ==
    /\ currentVolume \in Steps
    /\ press \in {<<>>} \cup {<<key>> : key \in Keys} \cup {<<Unmute, Set(step)>> : step \in Steps}
    /\ post \in [Posts -> [pc : {"unused", "listen", "queued", "late", "done"}, event : Events]]
    /\ poll \in [pc : {"idle", "sent", "over"}, number : Nat, alone : BOOLEAN, volume : PhoneVolume]
    /\ changed \in SUBSET [poll : Nat, volume : PhoneVolume]
    /\ gets \in SUBSET Nat /\ serving \in Nat /\ trusted \in BOOLEAN /\ floor \in Volume

One(event) == IF event = GetRequest THEN 0 ELSE 1

(* at[i] changes were sent before the event at i. *)
Counts(at, events, first, last) ==
    /\ at[1] = first /\ at[Len(events) + 1] = last
    /\ \A i \in 1 .. Len(events) : at[i + 1] = at[i] + One(events[i])

(* The changes the sink has seen and those under way are all that were sent. *)
CountInv == \E at \in [Nat -> Nat] : Counts(at, toPlayer, sink.changes, sent)

(* What the player answers now. *)
Shown == [sink EXCEPT !.volume = Reading(@)]
Truth == [level |-> Reading(sink.volume), mute |-> sink.isMuted]

(* Nothing is sent to the player while the handler waits.  The answer to a   *)
(* request that found the way empty is the only one there is.                *)
Asked == /\ toPlayer # <<>> /\ toPlayer[Len(toPlayer)] = GetRequest
         /\ \A i \in 1 .. Len(toPlayer) - 1 : toPlayer[i] # GetRequest
         /\ toServer = <<>>
Answered == toPlayer = <<>> /\ toServer = <<Shown>>
Known == toPlayer = <<>> /\ toServer = <<>> /\ m_lastVolumeData = Shown

HandlerInv ==
    handler.pc # "idle" =>
       /\ handler.before = sent
       /\ handler.quiet => \/ Known
                           \/ /\ Asked \/ Answered
                              /\ handler.pc = "waiting" => ~m_wasVolumeDataUpdated

(* No change is under way, and whatever is said of the volume is true. *)
Settled == /\ \A i \in 1 .. Len(toPlayer) : toPlayer[i] = GetRequest
           /\ \A i \in 1 .. Len(toServer) : toServer[i] = Shown
           /\ m_lastVolumeData = Shown

AloneInv ==
    poll.alone => /\ poll.pc # "idle" /\ AllTaken /\ changed = {}
                  /\ poll.pc = "over" => Settled /\ poll.volume = Truth

Screen == \/ currentVolume = IF sink.isMuted THEN 0 ELSE sink.volume \div PERCENTAGE_MULTIPLIER
          \/ currentVolume = Reading(sink.volume)

Truths == \A event \in changed : event.volume = Truth

TrustInv ==
    trusted => /\ AllTaken /\ Settled /\ Truths
               /\ changed = {} => Screen
               /\ poll.pc # "idle" => changed = {}
               /\ poll.pc = "sent" => poll.volume.level = currentVolume
               /\ poll.pc = "over" => poll.volume.level = currentVolume \/ poll.volume = Truth

(* The volume when raise was pressed, and what may come below it. *)
Above(event, volume) == event.type = "VOLUME_CHANGE" => event.volume >= volume

FloorInv ==
    /\ sink.volume >= floor
    /\ \A i \in 1 .. Len(toPlayer) : Above(toPlayer[i], floor)
    /\ \A k \in Posts : post[k].pc \in {"unused", "done"} \/ Above(post[k].event, floor)

RaiseInv ==
    floor # 0 /\ press # <<>> =>
       /\ press = <<SetCurrent>> /\ Percent(currentVolume) >= floor
       /\ sink.volume = floor /\ ~sink.isMuted
       /\ \A k \in Posts : post[k].pc \in {"unused", "done"}
       /\ Settled /\ Truths
       /\ poll.pc = "over" => poll.volume = Truth

IInv == /\ ServerTypeOK /\ PhoneTypeOK /\ CountInv /\ HandlerInv
        /\ AloneInv /\ TrustInv /\ FloorInv /\ RaiseInv

-----------------------------------------------------------------------------
(* The quotient between two multiples. *)
LEMMA Quotient ==
    ASSUME NEW m \in Nat \ {0}, NEW q \in Nat, NEW a \in Nat, m * q <= a, a < m * q + m
    PROVE  a \div m = q
<1>1. m * (a \div m) <= a /\ a < m * (a \div m) + m /\ a \div m \in Nat
  BY SMT
<1> DEFINE p == a \div m
<1>2. p \in Nat /\ m * p <= a /\ a < m * p + m
  BY <1>1
<1> HIDE DEF p
<1>3. ~(p < q)
  <2> SUFFICES ASSUME p < q PROVE FALSE
    OBVIOUS
  <2>1. m * (p + 1) <= m * q
    BY <1>2, SMT
  <2> QED
    BY <1>2, <2>1, SMT
<1>4. ~(q < p)
  <2> SUFFICES ASSUME q < p PROVE FALSE
    OBVIOUS
  <2>1. m * (q + 1) <= m * p
    BY <1>2, SMT
  <2> QED
    BY <1>2, <2>1, SMT
<1> QED
  BY <1>2, <1>3, <1>4 DEF p

(* The volumes are the steps, and a reading counts as the step it was.       *)
LEMMA VolumeOfStep ==
    ASSUME NEW volume \in Volume
    PROVE  /\ volume \in Nat /\ Reading(volume) \in {volume, volume - 1} /\ Reading(volume) \in Nat
           /\ volume \div PERCENTAGE_MULTIPLIER \in Steps
           /\ Percent(volume \div PERCENTAGE_MULTIPLIER) = volume
           /\ Step(Reading(volume)) = volume \div PERCENTAGE_MULTIPLIER /\ Step(volume) \in Steps
           /\ volume <= Percent(MaxStep)
<1> DEFINE m == PERCENTAGE_MULTIPLIER
<1>1. m \in Nat /\ m >= 2 /\ MaxStep \in Nat
  BY KeysAssumption
<1>2. PICK q \in 0 .. MaxStep : volume = m * q
  BY KeysAssumption
<1> HIDE DEF m
<1>3. volume \in Nat /\ q \in Nat
  BY <1>1, <1>2, SMT
<1>4. volume \div m = q
  BY <1>1, <1>2, <1>3, Quotient
<1>5. (volume + 1) \div m = q
  BY <1>1, <1>2, <1>3, Quotient
<1>6. volume \in Truncated => volume # 0
  BY KeysAssumption
<1>7. Reading(volume) \in {volume, volume - 1} /\ Reading(volume) \in Nat
  BY <1>3, <1>6 DEF Reading
<1>8. Step(Reading(volume)) = q
  <2>1. Reading(volume) + 1 = volume \/ Reading(volume) + 1 = volume + 1
    BY <1>3, <1>7
  <2> QED
    BY <1>4, <1>5, <2>1 DEF Step, m
<1>9. m * q <= m * MaxStep
  BY <1>1, <1>3, SMT
<1> QED
  BY <1>2, <1>3, <1>4, <1>5, <1>7, <1>8, <1>9 DEF Steps, Percent, Step, m

(* A step taken for a percentage gives a step. *)
LEMMA StepOfLevel ==
    ASSUME NEW level \in Levels
    PROVE  Step(level) \in Steps
<1>1. CASE level \in Steps
  <2> DEFINE m == PERCENTAGE_MULTIPLIER
             q == (level + 1) \div m
  <2>1. m \in Nat /\ m >= 2 /\ MaxStep \in Nat /\ level \in Nat /\ level <= MaxStep
    BY <1>1, KeysAssumption DEF Steps
  <2> HIDE DEF m
  <2>2. q \in Nat /\ m * q <= level + 1
    BY <2>1, SMT
  <2> HIDE DEF q
  <2>3. 2 * q <= m * q
    BY <2>1, <2>2, SMT
  <2>4. q <= level
    BY <2>1, <2>2, <2>3
  <2> QED
    BY <2>1, <2>2, <2>4 DEF Step, Steps, m, q
<1>2. CASE level \in Readings
  <2>1. PICK volume \in Volume : level = volume \/ level = Reading(volume)
    BY <1>2 DEF Readings
  <2> QED
    BY <2>1, VolumeOfStep
<1> QED
  BY <1>1, <1>2 DEF Levels

(* What a step asks the player for. *)
LEMMA PercentOfStep ==
    ASSUME NEW step \in Steps
    PROVE  Percent(step) \in Volume
BY KeysAssumption DEF Percent, Steps

-----------------------------------------------------------------------------
(* Sequences, element by element. *)
LEMMA Appended ==
    ASSUME NEW S, NEW s \in Seq(S), NEW e \in S
    PROVE  /\ Append(s, e) \in Seq(S) /\ Len(Append(s, e)) = Len(s) + 1 /\ Append(s, e) # <<>>
           /\ \A i \in 1 .. Len(s) : Append(s, e)[i] = s[i]
           /\ Append(s, e)[Len(s) + 1] = e
OBVIOUS

(* What is left of a sequence when its first element is taken. *)
LEMMA Taken ==
    ASSUME NEW S, NEW s \in Seq(S), s # <<>>
    PROVE  /\ Tail(s) \in Seq(S) /\ Len(Tail(s)) = Len(s) - 1 /\ Len(s) \in Nat /\ Len(s) >= 1
           /\ Head(s) = s[1] /\ Head(s) \in S
           /\ \A i \in 1 .. Len(Tail(s)) : i + 1 \in 1 .. Len(s) /\ Tail(s)[i] = s[i + 1]
OBVIOUS

(* An event and a request differ. *)
LEMMA EventsDiffer ==
    /\ \A event \in Events : event # GetRequest /\ event.type # "VOLUME_GET_REQUEST"
    /\ \A event \in Events : event.type = "VOLUME_CHANGE" => event.volume \in Volume
    /\ \A event \in Events : event.type \in {"VOLUME_CHANGE", "MUTE", "UNMUTE"}
    /\ GetRequest.type = "VOLUME_GET_REQUEST"
BY DEF Events, GetRequest, Mute, Unmute

(* What the server and the player do when they are not asked for a change. *)
Modest == \/ UNCHANGED server \/ Request \/ Clear \/ Return \/ Timeout
          \/ SetVolumeData \/ OnChange \/ OnVolumeGetRequest

ServerStep == Modest \/ \E event \in Events : Change(event)

(* Only the request of a post changes the volume; what else a step does to  *)
(* the server and the player is modest.                                     *)
LEMMA ServerSteps ==
    ASSUME PhoneTypeOK, [Next]_vars
    PROVE  ServerStep /\ (Modest \/ \E k \in Posts : ServePost(k))
<1>1. CASE Phone
  <2>1. UNCHANGED server
    BY <1>1 DEF Phone, Key, onSetVolumeTo, Raise, Lower, MuteKeys, Press, Dispatch, StartPoll, GiveUpPoll,
                EndPoll, onVolumeChanged, onVolumeChangeRequest, GiveUp
  <2> QED
    BY <2>1 DEF ServerStep, Modest
<1>2. CASE Handler
  BY <1>2 DEF Handler, Answer, AnswerError, ServerStep, Modest
<1>3. ASSUME NEW k \in Posts, ServePost(k)
      PROVE  ServerStep
  BY <1>3 DEF ServePost, ServerStep, PhoneTypeOK
<1>4. ASSUME NEW n \in gets, ServeGet(n)
      PROVE  Modest
  BY <1>4 DEF ServeGet, Modest
<1>5. CASE Others
  BY <1>5 DEF Others, Player, ServerStep, Modest
<1>6. CASE UNCHANGED vars
  BY <1>6 DEF vars, ServerStep, Modest
<1> QED
  BY <1>1, <1>2, <1>3, <1>4, <1>5, <1>6 DEF Next, Serve, ServerStep

(* A step of the server or of the player keeps the types. *)
LEMMA ServerType ==
    ASSUME ServerTypeOK, ServerStep
    PROVE  ServerTypeOK'
<1>1. CASE UNCHANGED server
  BY <1>1 DEF server, adapter, ServerTypeOK
<1>2. ASSUME NEW event \in Events, Change(event)
      PROVE  ServerTypeOK'
  BY <1>2 DEF Change, Send, ServerTypeOK, adapter
<1>3. CASE Request
  BY <1>3 DEF Request, Send, ServerTypeOK, adapter, GetRequest, Quiet
<1>4. CASE Clear
  BY <1>4 DEF Clear, ServerTypeOK
<1>8. CASE Leave
  BY <1>8 DEF Leave, NoRequest, ServerTypeOK, adapter
<1>5. CASE SetVolumeData
  <2>1. toServer # <<>> /\ toServer \in Seq(Data)
    BY <1>5 DEF SetVolumeData, ServerTypeOK
  <2>2. Tail(toServer) \in Seq(Data) /\ Head(toServer) \in Data
    BY <2>1
  <2> QED
    BY <1>5, <2>2 DEF SetVolumeData, ServerTypeOK
<1>6. CASE OnChange
  <2>1. toPlayer # <<>> /\ toPlayer \in Seq(Events \cup {GetRequest}) /\ toPlayer' = Tail(toPlayer)
    BY <1>6 DEF OnChange, Take, ServerTypeOK
  <2>2. Tail(toPlayer) \in Seq(Events \cup {GetRequest}) /\ Head(toPlayer) \in Events \cup {GetRequest}
    BY <2>1
  <2>3. Head(toPlayer).type = "VOLUME_CHANGE" => Head(toPlayer).volume \in Volume
    BY <2>2, EventsDiffer
  <2>4. sink' \in [volume : Volume, isMuted : BOOLEAN, changes : Nat]
    <3>1. /\ sink.volume \in Volume /\ sink.isMuted \in BOOLEAN /\ sink.changes \in Nat
          /\ sink = [volume |-> sink.volume, isMuted |-> sink.isMuted, changes |-> sink.changes]
      BY DEF ServerTypeOK
    <3>2. sink.changes + 1 \in Nat
      BY <3>1
    <3> QED
      BY <1>6, <2>3, <3>1, <3>2 DEF OnChange, Take, ServerTypeOK
  <2> QED
    BY <1>6, <2>1, <2>2, <2>4 DEF OnChange, ServerTypeOK, adapter
<1>7. CASE OnVolumeGetRequest
  <2>1. toPlayer # <<>> /\ toPlayer \in Seq(Events \cup {GetRequest}) /\ toPlayer' = Tail(toPlayer)
    BY <1>7 DEF OnVolumeGetRequest, Take, ServerTypeOK
  <2>2. Tail(toPlayer) \in Seq(Events \cup {GetRequest})
    BY <2>1
  <2>3. [sink EXCEPT !.volume = Reading(@)] \in Data
    BY DEF ServerTypeOK, Data, Readings
  <2> QED
    BY <1>7, <2>1, <2>2, <2>3 DEF OnVolumeGetRequest, ServerTypeOK, adapter
<1> QED
  BY <1>1, <1>2, <1>3, <1>4, <1>5, <1>6, <1>7, <1>8 DEF ServerStep, Modest, Return, Timeout

-----------------------------------------------------------------------------
(* The count of changes *)

(* The changes counted along a sequence, when an event is added or taken. *)
LEMMA AppendCount ==
    ASSUME NEW S, NEW s \in Seq(S), NEW e \in S, NEW first \in Nat, NEW last \in Nat,
           NEW at \in [Nat -> Nat], Counts(at, s, first, last)
    PROVE  \E new \in [Nat -> Nat] : Counts(new, Append(s, e), first, last + One(e))
<1>1. PICK n \in Nat : n = Len(s)
  OBVIOUS
<1>2. last + One(e) \in Nat
  BY DEF One
<1> DEFINE new == [i \in Nat |-> IF i = n + 2 THEN last + One(e) ELSE at[i]]
<1>3. new \in [Nat -> Nat] /\ new[n + 2] = last + One(e)
  <2>1. n + 2 \in Nat
    OBVIOUS
  <2> QED
    BY <1>2, <2>1
<1>4. \A i \in 1 .. n + 1 : new[i] = at[i]
  OBVIOUS
<1> HIDE DEF new
<1>5. at[1] = first /\ at[n + 1] = last /\ \A i \in 1 .. n : at[i + 1] = at[i] + One(s[i])
  BY <1>1 DEF Counts
<1>6. Len(Append(s, e)) = n + 1 /\ Append(s, e)[n + 1] = e /\ \A i \in 1 .. n : Append(s, e)[i] = s[i]
  BY <1>1, Appended
<1>7. ASSUME NEW i \in 1 .. n + 1
      PROVE  new[i + 1] = new[i] + One(Append(s, e)[i])
  <2>1. CASE i = n + 1
    <3>1. new[i] = last /\ Append(s, e)[i] = e /\ i + 1 = n + 2
      BY <1>4, <1>5, <1>6, <2>1
    <3> QED
      BY <1>3, <3>1
  <2>2. CASE i \in 1 .. n
    <3>1. new[i] = at[i] /\ new[i + 1] = at[i + 1]
      BY <1>4, <2>2
    <3>2. Append(s, e)[i] = s[i] /\ at[i + 1] = at[i] + One(s[i])
      BY <1>5, <1>6, <2>2
    <3> QED
      BY <3>1, <3>2
  <2>3. i = n + 1 \/ i \in 1 .. n
    BY <1>7
  <2> QED
    BY <2>1, <2>2, <2>3
<1>8. new[1] = first /\ new[Len(Append(s, e)) + 1] = last + One(e)
  <2>1. (n + 1) + 1 = n + 2
    OBVIOUS
  <2> QED
    BY <1>3, <1>4, <1>5, <1>6, <2>1
<1>9. Counts(new, Append(s, e), first, last + One(e))
  BY <1>3, <1>6, <1>7, <1>8 DEF Counts
<1> QED
  BY <1>3, <1>9

(* The first event taken from a sequence leaves the counts behind it. *)
LEMMA TakeCount ==
    ASSUME NEW S, NEW s \in Seq(S), s # <<>>, NEW first \in Nat, NEW last \in Nat,
           NEW at \in [Nat -> Nat], Counts(at, s, first, last)
    PROVE  \E new \in [Nat -> Nat] : Counts(new, Tail(s), first + One(Head(s)), last)
<1>1. PICK n \in Nat : n = Len(s)
  OBVIOUS
<1> DEFINE new == [i \in Nat |-> at[i + 1]]
<1>2. new \in [Nat -> Nat] /\ \A i \in Nat : new[i] = at[i + 1]
  <2>1. \A i \in Nat : i + 1 \in Nat
    OBVIOUS
  <2> QED
    BY <2>1, Zenon
<1> HIDE DEF new
<1>3. at[1] = first /\ at[n + 1] = last /\ \A i \in 1 .. n : at[i + 1] = at[i] + One(s[i])
  BY <1>1 DEF Counts
<1>4. /\ n >= 1 /\ Len(Tail(s)) = n - 1 /\ Head(s) = s[1]
      /\ \A i \in 1 .. n - 1 : i + 1 \in 1 .. n /\ Tail(s)[i] = s[i + 1]
  BY <1>1, Taken
<1>5. new[1] = first + One(Head(s))
  <2>1. new[1] = at[2]
    BY <1>2
  <2>2. at[2] = at[1] + One(s[1])
    BY <1>3, <1>4
  <2> QED
    BY <1>3, <1>4, <2>1, <2>2
<1>6. new[Len(Tail(s)) + 1] = last
  BY <1>2, <1>3, <1>4
<1>7. ASSUME NEW i \in 1 .. n - 1
      PROVE  new[i + 1] = new[i] + One(Tail(s)[i])
  <2>1. new[i] = at[i + 1] /\ new[i + 1] = at[(i + 1) + 1]
    <3>1. i \in Nat /\ i + 1 \in Nat
      BY <1>4
    <3> QED
      BY <1>2, <3>1, Zenon
  <2>2. at[(i + 1) + 1] = at[i + 1] + One(s[i + 1]) /\ Tail(s)[i] = s[i + 1]
    BY <1>3, <1>4
  <2> QED
    BY <2>1, <2>2
<1>8. Counts(new, Tail(s), first + One(Head(s)), last)
  BY <1>4, <1>5, <1>6, <1>7 DEF Counts
<1> QED
  BY <1>2, <1>8

(* No change is lost on the way to the sink, and none comes twice. *)
LEMMA CountStep ==
    ASSUME ServerTypeOK, CountInv, ServerStep
    PROVE  CountInv'
<1>1. PICK at \in [Nat -> Nat] : Counts(at, toPlayer, sink.changes, sent)
  BY DEF CountInv
<1>2. /\ toPlayer \in Seq(Events \cup {GetRequest}) /\ sink.changes \in Nat /\ sent \in Nat
  BY DEF ServerTypeOK
<1>3. CASE toPlayer' = toPlayer /\ sink' = sink /\ sent' = sent
  BY <1>1, <1>3 DEF CountInv
<1>4. ASSUME NEW event \in Events \cup {GetRequest}, toPlayer' = Append(toPlayer, event),
             sink' = sink, sent' = sent + One(event)
      PROVE  CountInv'
  <2>1. \E new \in [Nat -> Nat] : Counts(new, Append(toPlayer, event), sink.changes, sent + One(event))
    BY <1>1, <1>2, AppendCount
  <2> QED
    BY <1>4, <2>1 DEF CountInv
<1>5. ASSUME toPlayer # <<>>, toPlayer' = Tail(toPlayer), sent' = sent,
             sink'.changes = sink.changes + One(Head(toPlayer))
      PROVE  CountInv'
  <2>1. \E new \in [Nat -> Nat] : Counts(new, Tail(toPlayer), sink.changes + One(Head(toPlayer)), sent)
    BY <1>1, <1>2, <1>5, TakeCount
  <2> QED
    BY <1>5, <2>1 DEF CountInv
<1>6. ASSUME NEW event \in Events, Change(event)
      PROVE  CountInv'
  <2>1. One(event) = 1
    BY EventsDiffer DEF One
  <2> QED
    BY <1>4, <1>6, <2>1 DEF Change, Send
<1>7. CASE Request
  <2>1. toPlayer' = Append(toPlayer, GetRequest) /\ sink' = sink /\ sent' = sent + One(GetRequest)
    BY <1>2, <1>7 DEF Request, Send, GetRequest, One
  <2> QED
    BY <1>4, <2>1
<1>8. CASE OnChange
  <2>1. /\ toPlayer # <<>> /\ toPlayer' = Tail(toPlayer) /\ sent' = sent
        /\ Head(toPlayer).type # "VOLUME_GET_REQUEST"
    BY <1>8 DEF OnChange, Take
  <2>2. sink'.changes = sink.changes + 1
    BY <1>8 DEF OnChange, ServerTypeOK
  <2>3. One(Head(toPlayer)) = 1
    BY <2>1, EventsDiffer DEF One
  <2> QED
    BY <1>5, <2>1, <2>2, <2>3
<1>9. CASE OnVolumeGetRequest
  <2>1. /\ toPlayer # <<>> /\ toPlayer' = Tail(toPlayer) /\ sent' = sent /\ sink' = sink
        /\ Head(toPlayer).type = "VOLUME_GET_REQUEST" /\ Head(toPlayer) \in Events \cup {GetRequest}
    BY <1>2, <1>9, Taken DEF OnVolumeGetRequest, Take
  <2>2. One(Head(toPlayer)) = 0
    BY <2>1, EventsDiffer DEF One
  <2> QED
    BY <1>2, <1>5, <2>1, <2>2
<1> QED
  BY <1>3, <1>6, <1>7, <1>8, <1>9
     DEF ServerStep, Modest, server, Clear, Return, Timeout, Leave, SetVolumeData

-----------------------------------------------------------------------------
(* The request under way *)

(* What is under way to the player and back, as the handler and the phone see it. *)
LEMMA RequestAsked ==
    ASSUME ServerTypeOK, Request
    PROVE  /\ handler' = [pc |-> "requested", quiet |-> Quiet, before |-> sent]
           /\ sent' = sent /\ sink' = sink /\ toServer' = toServer /\ m_lastVolumeData' = m_lastVolumeData
           /\ toPlayer' # <<>> /\ Len(toPlayer') = Len(toPlayer) + 1
           /\ toPlayer'[Len(toPlayer')] = GetRequest
           /\ \A i \in 1 .. Len(toPlayer) : toPlayer'[i] = toPlayer[i]
<1>1. toPlayer' = Append(toPlayer, GetRequest)
  BY DEF Request, Send, GetRequest
<1>2. /\ toPlayer' # <<>> /\ Len(toPlayer') = Len(toPlayer) + 1
      /\ toPlayer'[Len(toPlayer) + 1] = GetRequest
      /\ \A i \in 1 .. Len(toPlayer) : toPlayer'[i] = toPlayer[i]
  BY <1>1, Appended DEF ServerTypeOK
<1> QED
  BY <1>2 DEF Request, adapter

(* The player takes the first of what is under way to it. *)
LEMMA PlayerTakes ==
    ASSUME ServerTypeOK, OnChange \/ OnVolumeGetRequest
    PROVE  /\ toPlayer # <<>> /\ Len(toPlayer) \in Nat /\ Len(toPlayer) >= 1
           /\ Len(toPlayer') = Len(toPlayer) - 1
           /\ \A i \in 1 .. Len(toPlayer') : i + 1 \in 1 .. Len(toPlayer) /\ toPlayer'[i] = toPlayer[i + 1]
           /\ Len(toPlayer) = 1 => toPlayer' = <<>>
           /\ UNCHANGED <<handler, adapter, sent>>
           /\ OnChange => toPlayer[1] \in Events /\ toServer' = toServer
           /\ OnVolumeGetRequest => toPlayer[1] = GetRequest /\ sink' = sink
                                    /\ toServer' = Append(toServer, Shown)
<1>1. toPlayer # <<>> /\ toPlayer' = Tail(toPlayer) /\ UNCHANGED <<handler, adapter, sent>>
  BY DEF OnChange, OnVolumeGetRequest, Take
<1>2. /\ Tail(toPlayer) \in Seq(Events \cup {GetRequest})
      /\ Len(Tail(toPlayer)) = Len(toPlayer) - 1 /\ Len(toPlayer) \in Nat /\ Len(toPlayer) >= 1
      /\ Head(toPlayer) = toPlayer[1] /\ Head(toPlayer) \in Events \cup {GetRequest}
      /\ \A i \in 1 .. Len(Tail(toPlayer)) : i + 1 \in 1 .. Len(toPlayer) /\ Tail(toPlayer)[i] = toPlayer[i + 1]
  BY <1>1, Taken DEF ServerTypeOK
<1>3. Len(toPlayer) = 1 => Tail(toPlayer) = <<>>
  BY <1>2
<1>4. OnChange => toPlayer[1] \in Events /\ toServer' = toServer
  BY <1>2, EventsDiffer DEF OnChange, Take
<1>5. OnVolumeGetRequest => toPlayer[1] = GetRequest /\ sink' = sink /\ toServer' = Append(toServer, Shown)
  BY <1>2, EventsDiffer DEF OnVolumeGetRequest, Take, Shown
<1> QED
  BY <1>1, <1>2, <1>3, <1>4, <1>5

(* The request that found the way empty stays the only one until its answer *)
(* is there: the handler keeps the others out.                              *)
LEMMA HandlerStep ==
    ASSUME ServerTypeOK, HandlerInv, ServerStep
    PROVE  HandlerInv'
<1>1. CASE UNCHANGED server
  BY <1>1 DEF server, adapter, HandlerInv, Known, Asked, Answered, Shown
<1>2. ASSUME NEW event \in Events, Change(event)
      PROVE  HandlerInv'
  BY <1>2 DEF Change, HandlerInv
<1>3. CASE Request
  <2>1. handler'.pc = "requested" /\ handler'.quiet = Quiet /\ handler'.before = sent'
    BY <1>3, RequestAsked
  <2>2. ASSUME Quiet PROVE Asked'
    <3>1. toServer = <<>> /\ \A i \in 1 .. Len(toPlayer) : toPlayer[i] # GetRequest
      BY <2>2 DEF Quiet, ToSet, GetRequest, ServerTypeOK
    <3>2. Len(toPlayer) \in Nat /\ Len(toPlayer') - 1 = Len(toPlayer)
      BY <1>3, RequestAsked DEF ServerTypeOK
    <3> QED
      BY <1>3, <3>1, <3>2, RequestAsked DEF Asked
  <2> QED
    BY <2>1, <2>2 DEF HandlerInv
<1>4. CASE Clear
  <2>1. /\ handler'.pc = "waiting" /\ handler'.quiet = handler.quiet /\ handler'.before = handler.before
        /\ handler.pc = "requested" /\ ~m_wasVolumeDataUpdated'
        /\ UNCHANGED <<toPlayer, toServer, sink, m_lastVolumeData, sent>>
    BY <1>4 DEF Clear, ServerTypeOK
  <2>2. (Known' <=> Known) /\ (Asked' <=> Asked) /\ (Answered' <=> Answered)
    BY <2>1 DEF Known, Asked, Answered, Shown
  <2> QED
    BY <2>1, <2>2 DEF HandlerInv
<1>5. CASE Leave
  BY <1>5 DEF Leave, NoRequest, HandlerInv
<1>6. CASE SetVolumeData
  <2>1. /\ toServer # <<>> /\ toServer' = Tail(toServer) /\ m_lastVolumeData' = Head(toServer)
        /\ UNCHANGED <<handler, toPlayer, sink, sent>>
    BY <1>6 DEF SetVolumeData
  <2>2. ~Known /\ ~Asked
    BY <2>1 DEF Known, Asked
  <2>3. Answered => Known'
    BY <2>1 DEF Answered, Known, Shown
  <2> QED
    BY <2>1, <2>2, <2>3 DEF HandlerInv
<1>7. CASE OnChange
  <2>1. ~Known /\ ~Answered
    BY <1>7, PlayerTakes DEF Known, Answered
  <2>2. ASSUME Asked PROVE Asked'
    <3>1. toPlayer[1] # GetRequest
      BY <1>7, PlayerTakes, EventsDiffer
    <3>2. Len(toPlayer) # 1
      BY <2>2, <3>1 DEF Asked
    <3>3. Len(toPlayer') >= 1 /\ toPlayer'[Len(toPlayer')] = toPlayer[Len(toPlayer)]
      BY <1>7, <3>2, PlayerTakes
    <3>4. \A i \in 1 .. Len(toPlayer') - 1 : i \in 1 .. Len(toPlayer') /\ i + 1 \in 1 .. Len(toPlayer) - 1
      BY <1>7, PlayerTakes
    <3>5. \A i \in 1 .. Len(toPlayer') - 1 : toPlayer'[i] # GetRequest
      BY <1>7, <2>2, <3>4, PlayerTakes DEF Asked
    <3>6. toPlayer' # <<>> /\ toServer' = <<>>
      BY <1>7, <2>2, <3>3, PlayerTakes DEF Asked
    <3> QED
      BY <2>2, <3>3, <3>5, <3>6 DEF Asked
  <2> QED
    BY <1>7, <2>1, <2>2, PlayerTakes DEF HandlerInv, adapter
<1>8. CASE OnVolumeGetRequest
  <2>1. ~Known /\ ~Answered
    BY <1>8, PlayerTakes DEF Known, Answered
  <2>2. ASSUME Asked PROVE Answered'
    <3>1. toPlayer[1] = GetRequest
      BY <1>8, PlayerTakes
    <3>2. Len(toPlayer) \in Nat /\ Len(toPlayer) >= 1
      BY <1>8, PlayerTakes
    <3>6. 1 \notin 1 .. Len(toPlayer) - 1
      BY <2>2, <3>1 DEF Asked
    <3>5. Len(toPlayer) = 1
      BY <3>2, <3>6
    <3>3. toPlayer' = <<>> /\ toServer' = <<Shown>>
      BY <1>8, <2>2, <3>5, PlayerTakes DEF Asked
    <3>4. sink' = sink
      BY <1>8, PlayerTakes
    <3> QED
      BY <3>3, <3>4 DEF Answered, Shown
  <2> QED
    BY <1>8, <2>1, <2>2, PlayerTakes DEF HandlerInv, adapter
<1> QED
  BY <1>1, <1>2, <1>3, <1>4, <1>5, <1>6, <1>7, <1>8 DEF ServerStep, Modest, Return, Timeout

(* An answer to a request that found the way empty says all that was sent. *)
LEMMA FreshAnswer ==
    ASSUME ServerTypeOK, CountInv, HandlerInv, Return, handler.quiet
    PROVE  /\ Known /\ m_lastVolumeData.changes = handler.before
<1>1. Known /\ handler.before = sent
  BY DEF Return, HandlerInv
<1>2. PICK at \in [Nat -> Nat] : Counts(at, toPlayer, sink.changes, sent)
  BY DEF CountInv
<1>3. Len(toPlayer) + 1 = 1
  BY <1>1 DEF Known
<1>4. sink.changes = sent
  BY <1>2, <1>3 DEF Counts
<1>5. m_lastVolumeData.changes = sink.changes
  BY <1>1 DEF Known, Shown, ServerTypeOK
<1> QED
  BY <1>1, <1>4, <1>5

(* While nobody changes the volume, what is said of it stays true. *)
LEMMA SettledStays ==
    ASSUME ServerTypeOK, Settled, Modest
    PROVE  Settled' /\ sink' = sink
<1>1. CASE UNCHANGED <<toPlayer, toServer, sink, m_lastVolumeData>>
  BY <1>1 DEF Settled, Shown
<1>2. CASE Request
  <2>1. \A i \in 1 .. Len(toPlayer') : toPlayer'[i] = GetRequest
    <3>1. Len(toPlayer) \in Nat
      BY DEF ServerTypeOK
    <3>2. \A i \in 1 .. Len(toPlayer') : i = Len(toPlayer') \/ i \in 1 .. Len(toPlayer)
      BY <1>2, <3>1, RequestAsked
    <3> QED
      BY <1>2, <3>2, RequestAsked DEF Settled
  <2> QED
    BY <1>2, <2>1, RequestAsked DEF Settled, Shown
<1>3. CASE SetVolumeData
  <2>1. /\ toServer # <<>> /\ toServer' = Tail(toServer) /\ m_lastVolumeData' = Head(toServer)
        /\ UNCHANGED <<toPlayer, sink>>
    BY <1>3 DEF SetVolumeData
  <2>2. /\ Head(toServer) = toServer[1] /\ 1 \in 1 .. Len(toServer)
        /\ \A i \in 1 .. Len(toServer') : i + 1 \in 1 .. Len(toServer) /\ toServer'[i] = toServer[i + 1]
    BY <2>1, Taken DEF ServerTypeOK
  <2>3. m_lastVolumeData' = Shown /\ \A i \in 1 .. Len(toServer') : toServer'[i] = Shown
    BY <2>1, <2>2 DEF Settled
  <2> QED
    BY <2>1, <2>3 DEF Settled, Shown
<1>4. CASE OnChange
  <2>1. toPlayer[1] \in Events /\ 1 \in 1 .. Len(toPlayer)
    BY <1>4, PlayerTakes
  <2> QED
    BY <2>1, EventsDiffer DEF Settled
<1>5. CASE OnVolumeGetRequest
  <2>1. \A i \in 1 .. Len(toPlayer') : toPlayer'[i] = GetRequest
    BY <1>5, PlayerTakes DEF Settled
  <2>2. Shown \in Data
    BY DEF ServerTypeOK, Data, Readings, Shown
  <2>3. toServer' = Append(toServer, Shown) /\ toServer \in Seq(Data) /\ sink' = sink /\ m_lastVolumeData' = m_lastVolumeData
    BY <1>5, PlayerTakes DEF ServerTypeOK, adapter
  <2>4. /\ Len(toServer') = Len(toServer) + 1 /\ Len(toServer) \in Nat
        /\ \A i \in 1 .. Len(toServer) : toServer'[i] = toServer[i]
        /\ toServer'[Len(toServer) + 1] = Shown
    BY <2>2, <2>3, Appended
  <2>5. \A i \in 1 .. Len(toServer') : i = Len(toServer) + 1 \/ i \in 1 .. Len(toServer)
    BY <2>4
  <2>6. \A i \in 1 .. Len(toServer') : toServer'[i] = Shown
    BY <2>4, <2>5 DEF Settled
  <2> QED
    BY <2>1, <2>3, <2>6 DEF Settled, Shown
<1> QED
  BY <1>1, <1>2, <1>3, <1>4, <1>5 DEF Modest, server, adapter, Clear, Return, Timeout, Leave

-----------------------------------------------------------------------------
(* The types of the phone *)

(* Zero is a volume, a step and a level. *)
LEMMA ZeroVolume == 0 \in Volume /\ 0 \in Steps /\ MaxStep \in Nat /\ 0 \in Levels
<1>1. 0 \in Steps /\ MaxStep \in Nat
  BY KeysAssumption DEF Steps
<1>2. Percent(0) = 0
  BY KeysAssumption DEF Percent
<1> QED
  BY <1>1, <1>2, PercentOfStep DEF Levels

(* A key has one event, or two of which the second sets a step. *)
LEMMA Pressed ==
    ASSUME PhoneTypeOK, press # <<>>
    PROVE  /\ Tail(press) \in {<<>>} \cup {<<key>> : key \in Keys}
           /\ Len(press) = 2 => press[2].step \in Steps
           /\ Len(press) # 2 => Tail(press) = <<>>
           /\ EventOf(Head(press)) \in Events
<1>1. ASSUME NEW key \in Keys
      PROVE  EventOf(key) \in Events
  <2>1. CASE key = SetCurrent
    <3>1. Percent(currentVolume) \in Volume
      BY PercentOfStep DEF PhoneTypeOK
    <3> QED
      BY <2>1, <3>1 DEF EventOf, Events, SetCurrent
  <2>2. CASE key \in {Mute, Unmute}
    BY <2>2 DEF EventOf, Events, Mute, Unmute
  <2>3. ASSUME NEW step \in Steps, key = Set(step)
        PROVE  EventOf(key) \in Events
    <3>1. Percent(step) \in Volume
      BY PercentOfStep
    <3> QED
      BY <2>3, <3>1 DEF EventOf, Events, Set
  <2> QED
    BY <2>1, <2>2, <2>3 DEF Keys
<1>2. ASSUME NEW key \in Keys, press = <<key>>
      PROVE  Tail(press) = <<>> /\ Len(press) = 1 /\ Head(press) = key
  BY <1>2
<1>3. ASSUME NEW step \in Steps, press = <<Unmute, Set(step)>>
      PROVE  Tail(press) = <<Set(step)>> /\ Len(press) = 2 /\ Head(press) = Unmute /\ press[2].step = step
  BY <1>3 DEF Set
<1>4. Unmute \in Keys /\ \A step \in Steps : Set(step) \in Keys
  BY DEF Keys
<1>5. \/ \E key \in Keys : press = <<key>>
      \/ \E step \in Steps : press = <<Unmute, Set(step)>>
  BY DEF PhoneTypeOK
<1> QED
  BY <1>1, <1>2, <1>3, <1>4, <1>5

(* A key changes the phone alone, and what it shows is no longer trusted. *)
LEMMA KeyType ==
    ASSUME ServerTypeOK, PhoneTypeOK, Key
    PROVE  /\ PhoneTypeOK' /\ press = <<>> /\ press' # <<>> /\ UNCHANGED <<server, post, queue, changed>>
           /\ ~trusted' /\ ~poll'.alone
<1>1. ASSUME NEW events, Press(events)
      PROVE  /\ press = <<>> /\ press' = events /\ events # <<>> /\ ~trusted' /\ ~poll'.alone
             /\ UNCHANGED <<server, post, queue, changed, gets, serving>>
             /\ trusted' \in BOOLEAN
             /\ poll' \in [pc : {"idle", "sent", "over"}, number : Nat, alone : BOOLEAN, volume : PhoneVolume]
  BY <1>1 DEF Press, PhoneTypeOK
<1>2. \E events : Press(events)
  BY DEF Key, onSetVolumeTo, Raise, Lower, MuteKeys
<1>3. press' \in {<<key>> : key \in Keys} \cup {<<Unmute, Set(step)>> : step \in Steps}
      /\ currentVolume' \in Steps /\ floor' \in Volume
  <2>1. ASSUME NEW step \in 0 .. MaxStep, onSetVolumeTo(step)
        PROVE  /\ press' \in {<<key>> : key \in Keys} \cup {<<Unmute, Set(s)>> : s \in Steps}
               /\ currentVolume' \in Steps /\ floor' \in Volume
    <3>1. press' \in {<<Mute>>, <<Set(step)>>, <<Unmute, Set(step)>>}
      BY <2>1 DEF onSetVolumeTo, Press
    <3>2. step \in Steps /\ Mute \in Keys /\ Set(step) \in Keys
      BY DEF Steps, Keys
    <3> QED
      BY <2>1, <3>1, <3>2, ZeroVolume DEF onSetVolumeTo, PhoneTypeOK
  <2>2. CASE Raise
    <3>1. press' = <<SetCurrent>> /\ SetCurrent \in Keys
      BY <2>2 DEF Raise, Press, Keys
    <3>2. currentVolume' \in Steps
      BY <2>2, ZeroVolume DEF Raise, PhoneTypeOK, Steps
    <3>3. floor' \in Volume
      BY <2>2, ZeroVolume DEF Raise, ServerTypeOK
    <3> QED
      BY <3>1, <3>2, <3>3
  <2>3. CASE Lower
    <3>1. press' = <<SetCurrent>> /\ SetCurrent \in Keys
      BY <2>3 DEF Lower, Press, Keys
    <3>2. currentVolume' \in Steps
      BY <2>3, ZeroVolume DEF Lower, PhoneTypeOK, Steps
    <3>3. floor' \in Volume
      BY <2>3, ZeroVolume DEF Lower
    <3> QED
      BY <3>1, <3>2, <3>3
  <2>4. CASE MuteKeys
    <3>1. press' \in {<<Mute>>, <<Unmute>>} /\ Mute \in Keys /\ Unmute \in Keys
      BY <2>4 DEF MuteKeys, Press, Keys
    <3> QED
      BY <2>4, <3>1, ZeroVolume DEF MuteKeys, PhoneTypeOK
  <2> QED
    BY <2>1, <2>2, <2>3, <2>4 DEF Key
<1> QED
  BY <1>1, <1>2, <1>3 DEF PhoneTypeOK

(* The event of a key becomes a post, and nothing else of the posts changes. *)
LEMMA DispatchType ==
    ASSUME PhoneTypeOK, Dispatch
    PROVE  /\ PhoneTypeOK'
           /\ press # <<>> /\ UNCHANGED <<server, poll, changed, trusted, floor>>
           /\ \A k \in Posts : \/ post'[k] = post[k]
                              \/ post'[k] = [pc |-> "listen", event |-> EventOf(Head(press))]
           /\ Len(press) # 2 => press' = <<>> /\ currentVolume' = currentVolume
<1>1. press # <<>>
  BY DEF Dispatch
<1>2. PICK k : post' = [post EXCEPT ![k] = [pc |-> "listen", event |-> EventOf(Head(press))]]
  BY DEF Dispatch
<1>3. post' \in [Posts -> [pc : {"unused", "listen", "queued", "late", "done"}, event : Events]]
  BY <1>1, <1>2, Pressed DEF PhoneTypeOK
<1>4. \A j \in Posts : \/ post'[j] = post[j]
                       \/ post'[j] = [pc |-> "listen", event |-> EventOf(Head(press))]
  BY <1>2 DEF PhoneTypeOK
<1>5. /\ currentVolume' = (IF Len(press) = 2 THEN press[2].step ELSE currentVolume)
      /\ press' = Tail(press) /\ UNCHANGED <<server, poll, changed, gets, serving, trusted, floor>>
  BY DEF Dispatch, history
<1> QED
  BY <1>1, <1>3, <1>4, <1>5, Pressed DEF PhoneTypeOK

(* The posts on their way to the server. *)
LEMMA PostType ==
    ASSUME PhoneTypeOK, NEW k \in Posts, onVolumeChangeRequest(k) \/ GiveUp(k) \/ ServePost(k)
    PROVE  /\ PhoneTypeOK' /\ post[k].pc \in {"listen", "queued", "late"}
           /\ UNCHANGED <<currentVolume, press, poll, changed, trusted, floor>>
           /\ \A j \in Posts \ {k} : post'[j] = post[j]
           /\ post'[k].pc = "done" \/ post'[k].event = post[k].event
<1>1. /\ post[k].pc \in {"listen", "queued", "late"}
      /\ UNCHANGED <<currentVolume, press, poll, changed, gets, serving, trusted, floor>>
  BY DEF onVolumeChangeRequest, GiveUp, ServePost, Posted, history
<1>2. \/ \E pc \in {"queued", "late"} : post' = [post EXCEPT ![k].pc = pc]
      \/ post' = [post EXCEPT ![k] = [pc |-> "done", event |-> Mute]]
  BY DEF onVolumeChangeRequest, GiveUp, ServePost, Goto, Done
<1>3. post' \in [Posts -> [pc : {"unused", "listen", "queued", "late", "done"}, event : Events]]
  BY <1>2 DEF PhoneTypeOK, Events
<1>4. /\ \A j \in Posts \ {k} : post'[j] = post[j]
      /\ post'[k].pc = "done" \/ post'[k].event = post[k].event
  BY <1>2 DEF PhoneTypeOK
<1> QED
  BY <1>1, <1>3, <1>4 DEF PhoneTypeOK

(* The polls. *)
Polls == StartPoll \/ GiveUpPoll \/ Answer \/ AnswerError \/ EndPoll \/ onVolumeChanged

(* A step of a poll touches no key and no post. *)
LEMMA PollType ==
    ASSUME ServerTypeOK, PhoneTypeOK, Polls
    PROVE  PhoneTypeOK' /\ UNCHANGED <<press, post>>
<1>1. UNCHANGED <<press, post>>
  BY DEF Polls, StartPoll, GiveUpPoll, Answer, AnswerError, EndPoll, onVolumeChanged
<1> DEFINE Poll == [pc : {"idle", "sent", "over"}, number : Nat, alone : BOOLEAN, volume : PhoneVolume]
<1>2. /\ poll \in Poll /\ poll.number \in Nat /\ poll.alone \in BOOLEAN /\ poll.volume \in PhoneVolume
      /\ currentVolume \in Levels
  BY DEF PhoneTypeOK, Levels
<1>3. CASE StartPoll
  <2>1. poll' \in Poll
    BY <1>2, <1>3 DEF StartPoll, AllTaken, PhoneVolume
  <2>2. poll.number + 1 \in Nat
    BY <1>2
  <2>3. gets' \in SUBSET Nat
    BY <1>3, <2>2 DEF StartPoll, PhoneTypeOK
  <2> QED
    BY <1>1, <1>3, <2>1, <2>3 DEF StartPoll, PhoneTypeOK
<1>4. Fail => poll' \in Poll /\ floor' \in Volume
  BY <1>2, ZeroVolume DEF Fail, PhoneTypeOK
<1>5. CASE GiveUpPoll
  BY <1>1, <1>4, <1>5 DEF GiveUpPoll, PhoneTypeOK
<1>6. CASE Answer
  <2>1. m_lastVolumeData.volume \in Levels /\ m_lastVolumeData.isMuted \in BOOLEAN
    BY DEF ServerTypeOK, Data, Levels
  <2>2. [level |-> m_lastVolumeData.volume, mute |-> m_lastVolumeData.isMuted] \in PhoneVolume
    BY <2>1 DEF PhoneVolume
  <2>3. handler.quiet \in BOOLEAN
    BY DEF ServerTypeOK
  <2>4. poll' \in Poll
    BY <1>2, <1>6, <2>2, <2>3 DEF Answer
  <2> QED
    BY <1>1, <1>6, <2>4 DEF Answer, PhoneTypeOK, history
<1>7. CASE AnswerError
  BY <1>1, <1>4, <1>7 DEF AnswerError, PhoneTypeOK
<1>8. CASE EndPoll
  <2>1. poll' \in Poll
    BY <1>2, <1>8, ZeroVolume DEF EndPoll, NoPoll, PhoneVolume
  <2>2. [poll |-> poll.number, volume |-> poll.volume] \in [poll : Nat, volume : PhoneVolume]
    BY <1>2
  <2>3. changed' \in SUBSET [poll : Nat, volume : PhoneVolume]
    BY <1>8, <2>2 DEF EndPoll, PhoneTypeOK
  <2>4. trusted' \in BOOLEAN
    BY <1>2, <1>8 DEF EndPoll, PhoneTypeOK
  <2> QED
    BY <1>1, <1>8, <2>1, <2>3, <2>4 DEF EndPoll, PhoneTypeOK
<1>9. CASE onVolumeChanged
  <2>1. PICK event \in changed :
           /\ currentVolume' = (IF event.volume.mute THEN 0 ELSE Step(event.volume.level))
           /\ changed' = changed \ {event}
    BY <1>9 DEF onVolumeChanged
  <2>2. event.volume.level \in Levels
    BY <2>1 DEF PhoneTypeOK, PhoneVolume
  <2>3. currentVolume' \in Steps
    BY <2>1, <2>2, StepOfLevel, ZeroVolume
  <2> QED
    BY <1>1, <1>9, <2>1, <2>3 DEF onVolumeChanged, PhoneTypeOK, history
<1> QED
  BY <1>1, <1>3, <1>5, <1>6, <1>7, <1>8, <1>9 DEF Polls

(* The phone does not notice the other steps. *)
Unnoticed == UNCHANGED <<currentVolume, press, post, poll, changed, trusted, floor>>

(* What a step does to the phone. *)
LEMMA PhoneSteps ==
    ASSUME ServerTypeOK, PhoneTypeOK, [Next]_vars
    PROVE  /\ PhoneTypeOK'
           /\ \/ Key \/ Dispatch \/ Polls \/ Unnoticed
              \/ \E k \in Posts : onVolumeChangeRequest(k) \/ GiveUp(k) \/ ServePost(k)
<1>1. CASE Phone
  <2>1. Key \/ Dispatch \/ Polls \/ \E k \in Posts : onVolumeChangeRequest(k) \/ GiveUp(k)
    BY <1>1 DEF Phone, Polls
  <2> QED
    BY <2>1, KeyType, DispatchType, PostType, PollType
<1>2. CASE Handler
  <2>1. CASE Clear /\ UNCHANGED <<phone, gets, serving, history>>
    BY <2>1 DEF phone, history, Unnoticed, PhoneTypeOK
  <2>2. CASE Answer \/ AnswerError
    BY <2>2, PollType DEF Polls
  <2> QED
    BY <1>2, <2>1, <2>2 DEF Handler
<1>3. ASSUME NEW k \in Posts, ServePost(k)
      PROVE  PhoneTypeOK'
  BY <1>3, PostType
<1>4. ASSUME NEW n \in gets, ServeGet(n)
      PROVE  PhoneTypeOK' /\ Unnoticed
  <2>1. UNCHANGED <<phone, history>> /\ gets' = gets \ {n} /\ serving' = n
    BY <1>4 DEF ServeGet
  <2> QED
    BY <2>1 DEF phone, history, Unnoticed, PhoneTypeOK
<1>5. CASE Others
  BY <1>5 DEF Others, phone, history, Unnoticed, PhoneTypeOK
<1>6. CASE UNCHANGED vars
  BY <1>6 DEF vars, phone, history, Unnoticed, PhoneTypeOK
<1> QED
  BY <1>1, <1>2, <1>3, <1>4, <1>5, <1>6 DEF Next, Serve

-----------------------------------------------------------------------------
(* No change is asked for *)

Idle == \A k \in Posts : post[k].pc \in {"unused", "done"}

(* With no post under way, a step leaves the volume alone. *)
LEMMA IdleSteps ==
    ASSUME ServerTypeOK, PhoneTypeOK, Idle, [Next]_vars
    PROVE  Modest /\ (Key \/ Dispatch \/ Polls \/ Unnoticed)
<1>1. \A k \in Posts : ~(onVolumeChangeRequest(k) \/ GiveUp(k) \/ ServePost(k))
  <2>1. ASSUME NEW k \in Posts, onVolumeChangeRequest(k) \/ GiveUp(k) \/ ServePost(k)
        PROVE  FALSE
    <3>1. post[k].pc \in {"listen", "queued", "late"}
      BY <2>1, PostType
    <3> QED
      BY <3>1 DEF Idle
  <2> QED
    BY <2>1
<1>2. Modest
  BY <1>1, ServerSteps
<1>3. Key \/ Dispatch \/ Polls \/ Unnoticed
  BY <1>1, PhoneSteps
<1> QED
  BY <1>2, <1>3

(* The phone and the server at rest: what is said of the volume is true, and  *)
(* nobody but a key changes it.                                              *)
LEMMA RestStays ==
    ASSUME ServerTypeOK, PhoneTypeOK, Idle, Settled, [Next]_vars
    PROVE  Settled' /\ sink' = sink /\ Truth' = Truth
<1>1. Settled' /\ sink' = sink
  BY IdleSteps, SettledStays
<1> QED
  BY <1>1 DEF Truth

(* A poll that is alone from its start is answered with what the player has. *)
LEMMA AloneStep ==
    ASSUME ServerTypeOK, PhoneTypeOK, CountInv, HandlerInv, AloneInv, [Next]_vars
    PROVE  AloneInv'
<1>1. SUFFICES ASSUME poll'.alone
               PROVE  /\ poll'.pc # "idle" /\ AllTaken' /\ changed' = {}
                      /\ poll'.pc = "over" => Settled' /\ poll'.volume = Truth'
  BY DEF AloneInv
<1>2. CASE StartPoll
  <2>1. poll'.pc = "sent" /\ AllTaken /\ changed = {} /\ UNCHANGED <<press, post, changed>>
    BY <1>1, <1>2 DEF StartPoll
  <2> QED
    BY <2>1 DEF AllTaken
<1>3. poll.alone \/ StartPoll
  <2>1. CASE Polls
    <3>1. ~Fail /\ ~EndPoll
      BY <1>1 DEF Fail, EndPoll, NoPoll, PhoneTypeOK
    <3>2. CASE Answer
      BY <1>1, <3>2 DEF Answer, PhoneTypeOK
    <3>3. CASE AnswerError
      BY <1>1, <3>1, <3>3 DEF AnswerError
    <3>4. CASE onVolumeChanged
      BY <1>1, <3>4 DEF onVolumeChanged
    <3> QED
      BY <2>1, <3>1, <3>2, <3>3, <3>4 DEF Polls, GiveUpPoll
  <2>2. ~Key
    BY <1>1, KeyType
  <2>3. Dispatch => poll' = poll
    BY DispatchType
  <2>4. \A k \in Posts : onVolumeChangeRequest(k) \/ GiveUp(k) \/ ServePost(k) => poll' = poll
    BY PostType
  <2> QED
    BY <1>1, <2>1, <2>2, <2>3, <2>4, PhoneSteps DEF Unnoticed
<1>4. CASE poll.alone /\ ~StartPoll
  <2>1. /\ poll.pc # "idle" /\ press = <<>> /\ Idle /\ changed = {}
        /\ poll.pc = "over" => Settled /\ poll.volume = Truth
    BY <1>4 DEF AloneInv, AllTaken, Idle
  <2>2. Modest /\ (Polls \/ Unnoticed)
    BY <1>1, <2>1, IdleSteps, KeyType, DispatchType
  <2>3. UNCHANGED <<press, post>>
    BY <2>2, PollType DEF Unnoticed
  <2>4. AllTaken'
    BY <2>1, <2>3 DEF AllTaken, Idle
  <2>5. CASE Unnoticed
    <3>1. poll'.pc = "over" => Settled' /\ poll'.volume = Truth'
      BY <2>1, <2>5, RestStays DEF Unnoticed
    <3> QED
      BY <2>1, <2>4, <2>5, <3>1 DEF Unnoticed
  <2>6. CASE Answer
    <3>1. changed' = {}
      BY <2>1, <2>6 DEF Answer
    <3>2. CASE Awaited
      <4>1. /\ handler.quiet /\ Return /\ poll'.pc = "over"
            /\ poll'.volume = [level |-> m_lastVolumeData.volume, mute |-> m_lastVolumeData.isMuted]
        BY <1>1, <2>6, <3>2 DEF Answer, PhoneTypeOK
      <4>2. Known
        BY <4>1, FreshAnswer
      <4>3. Settled /\ poll'.volume = Truth
        BY <4>1, <4>2 DEF Known, Settled, Shown, Truth, ServerTypeOK
      <4>4. Settled' /\ Truth' = Truth
        BY <2>1, <4>3, RestStays
      <4> QED
        BY <2>4, <3>1, <4>1, <4>3, <4>4
    <3>3. CASE ~Awaited
      <4>1. poll' = poll
        BY <2>6, <3>3 DEF Answer
      <4> QED
        BY <2>1, <2>4, <3>1, <4>1, RestStays
    <3> QED
      BY <3>2, <3>3
  <2>7. CASE AnswerError
    <3>1. poll' = poll /\ changed' = changed
      BY <1>1, <2>7 DEF AnswerError, Fail, PhoneTypeOK
    <3> QED
      BY <2>1, <2>4, <3>1, RestStays
  <2>8. CASE GiveUpPoll \/ EndPoll
    BY <1>1, <2>8 DEF GiveUpPoll, Fail, EndPoll, NoPoll, PhoneTypeOK
  <2>9. ~onVolumeChanged
    BY <2>1 DEF onVolumeChanged
  <2> QED
    BY <1>4, <2>2, <2>5, <2>6, <2>7, <2>8, <2>9 DEF Polls
<1> QED
  BY <1>2, <1>3, <1>4

-----------------------------------------------------------------------------
(* What the phone shows *)

(* An event that tells the truth sets the step of the player. *)
LEMMA TrueStep ==
    ASSUME ServerTypeOK, NEW event, event.volume = Truth
    PROVE  (IF event.volume.mute THEN 0 ELSE Step(event.volume.level))
              = (IF sink.isMuted THEN 0 ELSE sink.volume \div PERCENTAGE_MULTIPLIER)
<1>1. event.volume.mute = sink.isMuted /\ event.volume.level = Reading(sink.volume)
  BY DEF Truth
<1>2. Step(Reading(sink.volume)) = sink.volume \div PERCENTAGE_MULTIPLIER
  BY VolumeOfStep DEF ServerTypeOK
<1> QED
  BY <1>1, <1>2

(* An answer says the truth while all that is under way does. *)
LEMMA TrueAnswer ==
    ASSUME ServerTypeOK, PhoneTypeOK, Settled, Answer
    PROVE  /\ currentVolume' = currentVolume /\ changed' = changed /\ floor' = floor /\ trusted' = trusted
           /\ \/ poll' = poll
              \/ poll.pc = "sent" /\ poll'.pc = "over" /\ poll'.volume = Truth
<1>1. m_lastVolumeData.volume = Reading(sink.volume) /\ m_lastVolumeData.isMuted = sink.isMuted
  BY DEF Settled, Shown, ServerTypeOK
<1>2. \/ poll' = poll
      \/ poll.pc = "sent" /\ poll'.pc = "over" /\ poll'.volume = Truth
  BY <1>1 DEF Answer, Awaited, Truth, PhoneTypeOK
<1> QED
  BY <1>2 DEF Answer, history

(* A poll that fails keeps the volume it began with. *)
LEMMA FailedPoll ==
    ASSUME PhoneTypeOK, GiveUpPoll \/ AnswerError
    PROVE  /\ currentVolume' = currentVolume /\ changed' = changed /\ press' = press /\ trusted' = trusted
           /\ \/ poll' = poll /\ floor' = floor
              \/ /\ poll.pc = "sent" /\ poll'.pc = "over" /\ poll'.volume = poll.volume
                 /\ floor' = IF press = <<>> THEN floor ELSE 0
BY DEF GiveUpPoll, AnswerError, Fail, Awaited, PhoneTypeOK

(* The poll's result is told when it differs from the step. *)
LEMMA EndedPoll ==
    ASSUME PhoneTypeOK, EndPoll
    PROVE  /\ poll.pc = "over" /\ poll'.pc = "idle"
           /\ \/ poll.volume.level = currentVolume /\ changed' = changed
              \/ changed' = changed \cup {[poll |-> poll.number, volume |-> poll.volume]}
           /\ trusted' = (trusted \/ poll.alone)
           /\ UNCHANGED <<currentVolume, press, post, floor>>
BY DEF EndPoll, NoPoll

(* What the phone shows, once trusted, is kept true by every event and poll. *)
LEMMA TrustStep ==
    ASSUME ServerTypeOK, PhoneTypeOK, AloneInv, TrustInv, [Next]_vars
    PROVE  TrustInv'
<1> SUFFICES ASSUME trusted'
             PROVE  TrustInv'
  BY DEF TrustInv
<1>1. ASSUME ~trusted
      PROVE  TrustInv'
  <2>1. EndPoll
    <3>1. ~Key
      BY KeyType
    <3>2. Dispatch => trusted' = trusted
      BY DispatchType
    <3>3. \A k \in Posts : onVolumeChangeRequest(k) \/ GiveUp(k) \/ ServePost(k) => trusted' = trusted
      BY PostType
    <3>4. Polls => EndPoll \/ ~trusted'
      BY <1>1 DEF Polls, StartPoll, GiveUpPoll, Answer, AnswerError, onVolumeChanged, history
    <3> QED
      BY <1>1, <3>1, <3>2, <3>3, <3>4, PhoneSteps DEF Unnoticed
  <2>2. poll.alone /\ poll.pc = "over" /\ poll'.pc = "idle" /\ UNCHANGED <<currentVolume, press, post>>
    BY <1>1, <2>1, EndedPoll
  <2>3. AllTaken /\ changed = {} /\ Settled /\ poll.volume = Truth
    BY <2>2 DEF AloneInv
  <2>4. Settled' /\ sink' = sink /\ Truth' = Truth
    BY <2>3, RestStays DEF AllTaken, Idle
  <2>5. AllTaken'
    BY <2>2, <2>3 DEF AllTaken
  <2>6. CASE poll.volume.level = currentVolume /\ changed' = changed
    <3>1. currentVolume' = Reading(sink'.volume)
      BY <2>2, <2>3, <2>4, <2>6 DEF Truth
    <3> QED
      BY <2>2, <2>3, <2>4, <2>5, <2>6, <3>1 DEF TrustInv, Screen, Truths
  <2>7. CASE changed' = changed \cup {[poll |-> poll.number, volume |-> poll.volume]}
    <3>1. changed' # {} /\ \A event \in changed' : event.volume = Truth
      BY <2>3, <2>7
    <3> QED
      BY <2>2, <2>4, <2>5, <3>1 DEF TrustInv, Truths
  <2> QED
    BY <2>1, <2>6, <2>7, EndedPoll
<1>2. ASSUME trusted
      PROVE  TrustInv'
  <2>1. /\ AllTaken /\ Settled /\ Truths /\ Idle /\ press = <<>>
        /\ changed = {} => Screen
        /\ poll.pc # "idle" => changed = {}
        /\ poll.pc = "sent" => poll.volume.level = currentVolume
        /\ poll.pc = "over" => poll.volume.level = currentVolume \/ poll.volume = Truth
    BY <1>2 DEF TrustInv, AllTaken, Idle
  <2>2. Settled' /\ sink' = sink /\ Truth' = Truth
    BY <2>1, RestStays
  <2>3. Polls \/ Unnoticed
    BY <2>1, IdleSteps, KeyType, DispatchType
  <2>4. AllTaken'
    BY <2>1, <2>3, PollType DEF AllTaken, Unnoticed
  <2>5. ASSUME changed' = changed, currentVolume' = currentVolume
        PROVE  Truths' /\ (changed' = {} => Screen')
    BY <2>1, <2>2, <2>5 DEF Truths, Screen
  <2>6. CASE Unnoticed
    BY <2>1, <2>2, <2>4, <2>5, <2>6 DEF Unnoticed, TrustInv
  <2>7. CASE StartPoll
    <3>1. /\ changed = {} /\ changed' = changed /\ currentVolume' = currentVolume
          /\ poll'.pc = "sent" /\ poll'.volume.level = currentVolume
      BY <2>7 DEF StartPoll
    <3> QED
      BY <2>2, <2>4, <2>5, <3>1 DEF TrustInv
  <2>8. CASE Answer
    <3>1. /\ changed' = changed /\ currentVolume' = currentVolume
          /\ \/ poll' = poll
             \/ poll.pc = "sent" /\ poll'.pc = "over" /\ poll'.volume = Truth
      BY <2>1, <2>8, TrueAnswer
    <3> QED
      BY <2>1, <2>2, <2>4, <2>5, <3>1 DEF TrustInv
  <2>9. CASE GiveUpPoll \/ AnswerError
    <3>1. /\ changed' = changed /\ currentVolume' = currentVolume
          /\ \/ poll' = poll
             \/ poll.pc = "sent" /\ poll'.pc = "over" /\ poll'.volume = poll.volume
      BY <2>9, FailedPoll
    <3> QED
      BY <2>1, <2>2, <2>4, <2>5, <3>1 DEF TrustInv
  <2>10. CASE EndPoll
    <3>1. poll.pc = "over" /\ poll'.pc = "idle" /\ currentVolume' = currentVolume /\ changed = {}
      BY <2>1, <2>10, EndedPoll
    <3>2. CASE changed' = changed
      BY <2>2, <2>4, <2>5, <3>1, <3>2 DEF TrustInv
    <3>3. CASE poll.volume = Truth /\ changed' = changed \cup {[poll |-> poll.number, volume |-> poll.volume]}
      <4>1. changed' # {} /\ \A event \in changed' : event.volume = Truth
        BY <3>1, <3>3
      <4> QED
        BY <2>2, <2>4, <3>1, <4>1 DEF TrustInv, Truths
    <3>4. poll.volume.level = currentVolume => changed' = changed
      BY <2>10 DEF EndPoll
    <3> QED
      BY <2>1, <2>10, <3>1, <3>2, <3>3, <3>4, EndedPoll
  <2>11. CASE onVolumeChanged
    <3>1. PICK event \in changed :
             /\ currentVolume' = (IF event.volume.mute THEN 0 ELSE Step(event.volume.level))
             /\ changed' = changed \ {event}
      BY <2>11 DEF onVolumeChanged
    <3>2. poll' = poll /\ poll.pc = "idle"
      BY <2>1, <2>11, <3>1 DEF onVolumeChanged, PhoneTypeOK
    <3>3. currentVolume' = (IF sink.isMuted THEN 0 ELSE sink.volume \div PERCENTAGE_MULTIPLIER)
      BY <2>1, <3>1, TrueStep DEF Truths
    <3>4. Screen' /\ Truths'
      BY <2>1, <2>2, <3>1, <3>3 DEF Screen, Truths
    <3> QED
      BY <2>2, <2>4, <3>2, <3>4 DEF TrustInv
  <2> QED
    BY <2>3, <2>6, <2>7, <2>8, <2>9, <2>10, <2>11 DEF Polls
<1> QED
  BY <1>1, <1>2

-----------------------------------------------------------------------------
(* The floor *)

(* Raise asks for no less than what the phone shows, in percent or as a step. *)
LEMMA RaisedAbove ==
    ASSUME NEW volume \in Volume, NEW step \in Steps,
           step = volume \div PERCENTAGE_MULTIPLIER \/ step = Reading(volume)
    PROVE  Percent(IF step < MaxStep THEN step + 1 ELSE step) >= volume
<1> DEFINE m == PERCENTAGE_MULTIPLIER
<1>1. m \in Nat /\ m >= 2 /\ step \in Nat /\ volume \in Nat /\ MaxStep \in Nat /\ step <= MaxStep
  BY VolumeOfStep, KeysAssumption DEF Steps
<1>2. Percent(MaxStep) >= volume /\ Percent(volume \div m) = volume /\ Reading(volume) \in {volume, volume - 1}
  BY VolumeOfStep
<1> HIDE DEF m
<1>3. CASE ~(step < MaxStep)
  <2>1. step = MaxStep
    BY <1>1, <1>3
  <2> QED
    BY <1>2, <1>3, <2>1
<1>4. CASE step < MaxStep /\ step = volume \div PERCENTAGE_MULTIPLIER
  <2>1. m * step = volume
    BY <1>2, <1>4 DEF Percent, m
  <2>2. m * (step + 1) >= m * step
    BY <1>1, SMT
  <2> QED
    BY <1>4, <2>1, <2>2 DEF Percent, m
<1>5. CASE step < MaxStep /\ step = Reading(volume)
  <2>1. step + 1 >= volume
    BY <1>1, <1>2, <1>5
  <2>2. m * (step + 1) >= step + 1
    BY <1>1, SMT
  <2>3. m * (step + 1) >= volume
    <3>1. m * (step + 1) \in Nat
      BY <1>1, SMT
    <3> QED
      BY <1>1, <2>1, <2>2, <3>1
  <2> QED
    BY <1>5, <2>3 DEF Percent, m
<1> QED
  BY <1>3, <1>4, <1>5

(* Every volume is above zero. *)
LEMMA NoFloor ==
    ASSUME ServerTypeOK, PhoneTypeOK, floor = 0
    PROVE  FloorInv
<1>1. \A event \in Events \cup {GetRequest} : Above(event, floor)
  BY EventsDiffer, VolumeOfStep DEF Above
<1>2. sink.volume >= floor
  BY VolumeOfStep DEF ServerTypeOK
<1>3. \A i \in 1 .. Len(toPlayer) : toPlayer[i] \in Events \cup {GetRequest}
  BY DEF ServerTypeOK
<1>4. \A k \in Posts : post[k].event \in Events
  BY DEF PhoneTypeOK
<1> QED
  BY <1>1, <1>2, <1>3, <1>4 DEF FloorInv

(* Raise, and the other keys. *)
LEMMA KeyFloor ==
    ASSUME ServerTypeOK, PhoneTypeOK, TrustInv, Key, floor' # 0
    PROVE  /\ press' = <<SetCurrent>> /\ floor' = sink.volume /\ ~sink.isMuted
           /\ trusted /\ changed = {} /\ poll'.pc = "idle"
           /\ Percent(currentVolume') >= floor'
<1>1. Raise
  BY DEF Key, onSetVolumeTo, Lower, MuteKeys
<1>2. /\ floor' = sink.volume /\ trusted /\ changed = {} /\ poll.pc = "idle" /\ ~sink.isMuted
      /\ currentVolume' = (IF currentVolume < MaxStep THEN currentVolume + 1 ELSE currentVolume)
      /\ press' = <<SetCurrent>> /\ poll' = [poll EXCEPT !.alone = FALSE]
  BY <1>1 DEF Raise, Press
<1>3. Screen
  BY <1>2 DEF TrustInv
<1>4. Percent(currentVolume') >= floor'
  BY <1>2, <1>3, RaisedAbove DEF Screen, ServerTypeOK, PhoneTypeOK
<1>5. poll'.pc = "idle"
  BY <1>2 DEF PhoneTypeOK
<1> QED
  BY <1>2, <1>4, <1>5

(* A step of the server keeps what is above the floor above it. *)
LEMMA ServerFloor ==
    ASSUME ServerTypeOK, FloorInv, floor' = floor, Modest \/ \E event \in Events : Change(event) /\ Above(event, floor)
    PROVE  sink'.volume >= floor' /\ \A i \in 1 .. Len(toPlayer') : Above(toPlayer'[i], floor')
<1>2. ASSUME sink' = sink, NEW event \in Events \cup {GetRequest}, Above(event, floor),
             toPlayer' = Append(toPlayer, event)
      PROVE  sink'.volume >= floor' /\ \A i \in 1 .. Len(toPlayer') : Above(toPlayer'[i], floor')
  <2>1. /\ Len(toPlayer') = Len(toPlayer) + 1 /\ Len(toPlayer) \in Nat
        /\ \A i \in 1 .. Len(toPlayer) : toPlayer'[i] = toPlayer[i]
        /\ toPlayer'[Len(toPlayer) + 1] = event
    BY <1>2, Appended DEF ServerTypeOK
  <2>2. \A i \in 1 .. Len(toPlayer') : i = Len(toPlayer) + 1 \/ i \in 1 .. Len(toPlayer)
    BY <2>1
  <2>3. \A i \in 1 .. Len(toPlayer') : Above(toPlayer'[i], floor)
    BY <1>2, <2>1, <2>2 DEF FloorInv
  <2> QED
    BY <1>2, <2>3 DEF FloorInv
<1>3. ASSUME OnChange \/ OnVolumeGetRequest
      PROVE  sink'.volume >= floor' /\ \A i \in 1 .. Len(toPlayer') : Above(toPlayer'[i], floor')
  <2>1. \A i \in 1 .. Len(toPlayer') : Above(toPlayer'[i], floor)
    BY <1>3, PlayerTakes DEF FloorInv
  <2>2. toPlayer \in Seq(Events \cup {GetRequest}) /\ toPlayer # <<>>
    BY <1>3, PlayerTakes DEF ServerTypeOK
  <2>3. Head(toPlayer) = toPlayer[1] /\ 1 \in 1 .. Len(toPlayer)
    BY <2>2, Taken
  <2>4. Above(Head(toPlayer), floor)
    BY <2>3 DEF FloorInv
  <2>5. \/ sink'.volume = sink.volume
        \/ Head(toPlayer).type = "VOLUME_CHANGE" /\ sink'.volume = Head(toPlayer).volume
    BY <1>3 DEF OnChange, OnVolumeGetRequest, Take, ServerTypeOK
  <2>6. sink'.volume >= floor
    BY <2>4, <2>5 DEF Above, FloorInv
  <2> QED
    BY <2>1, <2>6
<1>4. CASE UNCHANGED <<toPlayer, sink>>
  BY <1>4 DEF FloorInv
<1>5. CASE Request
  <2>1. sink' = sink /\ toPlayer' = Append(toPlayer, GetRequest) /\ Above(GetRequest, floor)
    BY <1>5 DEF Request, Send, GetRequest, Above
  <2> QED
    BY <1>2, <2>1
<1>6. ASSUME NEW event \in Events, Change(event), Above(event, floor)
      PROVE  sink'.volume >= floor' /\ \A i \in 1 .. Len(toPlayer') : Above(toPlayer'[i], floor')
  BY <1>2, <1>6 DEF Change, Send
<1> QED
  BY <1>3, <1>4, <1>5, <1>6 DEF Modest, server, Clear, Return, Timeout, Leave, SetVolumeData

(* Nothing comes below the volume raise was pressed at. *)
LEMMA FloorStep ==
    ASSUME ServerTypeOK, PhoneTypeOK, ServerTypeOK', PhoneTypeOK', TrustInv, FloorInv, RaiseInv, [Next]_vars
    PROVE  FloorInv'
<1>1. CASE floor' = 0
  <2>1. \A event \in Events \cup {GetRequest} : Above(event, 0)
    BY EventsDiffer, VolumeOfStep DEF Above
  <2>2. sink'.volume >= floor'
    BY <1>1, VolumeOfStep DEF ServerTypeOK
  <2>3. \A i \in 1 .. Len(toPlayer') : toPlayer'[i] \in Events \cup {GetRequest}
    BY DEF ServerTypeOK
  <2>4. \A k \in Posts : post'[k].event \in Events
    BY DEF PhoneTypeOK
  <2> QED
    BY <1>1, <2>1, <2>2, <2>3, <2>4 DEF FloorInv
<1>2. CASE floor' # 0 /\ Key
  <2>1. /\ floor' = sink.volume /\ trusted /\ UNCHANGED <<server, post>>
    BY <1>2, KeyFloor, KeyType
  <2>2. AllTaken /\ Settled
    BY <2>1 DEF TrustInv
  <2>3. sink' = sink /\ toPlayer' = toPlayer /\ post' = post
    BY <2>1 DEF server
  <2>4. \A i \in 1 .. Len(toPlayer') : Above(toPlayer'[i], floor')
    BY <2>2, <2>3 DEF Settled, Above, GetRequest
  <2>5. sink'.volume >= floor'
    BY <2>1, <2>3, VolumeOfStep DEF ServerTypeOK
  <2>6. \A k \in Posts : post'[k].pc \in {"unused", "done"}
    BY <2>2, <2>3 DEF AllTaken
  <2> QED
    BY <2>4, <2>5, <2>6 DEF FloorInv
<1>3. CASE floor' # 0 /\ ~Key
  <2>1. floor' = floor
    <3>1. Polls => floor' \in {floor, 0}
      BY DEF Polls, StartPoll, GiveUpPoll, Fail, Answer, AnswerError, EndPoll, onVolumeChanged, history
    <3> QED
      BY <1>3, <3>1, PhoneSteps, DispatchType, PostType DEF Unnoticed
  <2>3. Modest \/ \E event \in Events : Change(event) /\ Above(event, floor)
    <3>1. ASSUME NEW k \in Posts, ServePost(k)
          PROVE  \E event \in Events : Change(event) /\ Above(event, floor)
      <4>1. post[k].pc \notin {"unused", "done"} /\ post[k].event \in Events
        BY <3>1, PostType DEF PhoneTypeOK
      <4>2. Above(post[k].event, floor)
        BY <4>1 DEF FloorInv
      <4> QED
        BY <3>1, <4>1, <4>2 DEF ServePost
    <3> QED
      BY <3>1, ServerSteps
  <2>4. sink'.volume >= floor' /\ \A i \in 1 .. Len(toPlayer') : Above(toPlayer'[i], floor')
    BY <2>1, <2>3, ServerFloor
  <2>5. ASSUME NEW k \in Posts
        PROVE  post'[k].pc \in {"unused", "done"} \/ Above(post'[k].event, floor')
    <3>1. post[k].pc \in {"unused", "done"} \/ Above(post[k].event, floor)
      BY DEF FloorInv
    <3>2. CASE post'[k] = post[k]
      BY <2>1, <3>1, <3>2
    <3>3. CASE Dispatch
      <4>1. press = <<SetCurrent>> /\ Percent(currentVolume) >= floor
        BY <1>3, <2>1, <3>3, DispatchType DEF RaiseInv
      <4>2. EventOf(Head(press)) = [type |-> "VOLUME_CHANGE", volume |-> Percent(currentVolume)]
        BY <4>1 DEF EventOf, SetCurrent
      <4>3. Above(EventOf(Head(press)), floor)
        BY <4>1, <4>2 DEF Above
      <4>4. post'[k] = post[k] \/ post'[k].event = EventOf(Head(press))
        BY <3>3, DispatchType
      <4> QED
        BY <2>1, <3>1, <3>2, <4>3, <4>4
    <3>4. ASSUME NEW j \in Posts, onVolumeChangeRequest(j) \/ GiveUp(j) \/ ServePost(j)
          PROVE  post'[k].pc \in {"unused", "done"} \/ Above(post'[k].event, floor')
      <4>1. CASE k # j
        BY <3>2, <3>4, <4>1, PostType
      <4>2. CASE k = j
        <5>1. post[k].pc \notin {"unused", "done"}
          BY <3>4, <4>2, PostType
        <5> QED
          BY <2>1, <3>1, <3>4, <4>2, <5>1, PostType
      <4> QED
        BY <4>1, <4>2
    <3>5. Polls \/ Unnoticed => post' = post
      BY PollType DEF Unnoticed
    <3> QED
      BY <1>3, <3>2, <3>3, <3>4, <3>5, PhoneSteps
  <2> QED
    BY <2>4, <2>5 DEF FloorInv
<1> QED
  BY <1>1, <1>2, <1>3

(* Until the event of raise is written, the step it will be written with is *)
(* not below the volume.                                                    *)
LEMMA RaiseStep ==
    ASSUME ServerTypeOK, PhoneTypeOK, TrustInv, RaiseInv, [Next]_vars
    PROVE  RaiseInv'
<1> SUFFICES ASSUME floor' # 0, press' # <<>>
             PROVE  RaiseInv'
  BY DEF RaiseInv
<1>1. CASE Key
  <2>1. /\ press' = <<SetCurrent>> /\ floor' = sink.volume /\ ~sink.isMuted /\ trusted
        /\ changed = {} /\ poll'.pc = "idle" /\ Percent(currentVolume') >= floor'
        /\ UNCHANGED <<server, post, changed>>
    BY <1>1, KeyFloor, KeyType
  <2>2. Idle /\ Settled
    BY <2>1 DEF TrustInv, AllTaken, Idle
  <2>3. Settled' /\ sink' = sink
    BY <2>1, <2>2 DEF Settled, Shown, server, adapter
  <2> QED
    BY <2>1, <2>2, <2>3 DEF RaiseInv, Idle, Truths
<1>2. CASE ~Key
  <2>1. press # <<>>
    BY <1>2, PhoneSteps, DispatchType, PostType, PollType DEF Unnoticed
  <2>2. floor # 0
    <3>1. Polls => floor' \in {floor, 0}
      BY DEF Polls, StartPoll, GiveUpPoll, Fail, Answer, AnswerError, EndPoll, onVolumeChanged, history
    <3> QED
      BY <1>2, <3>1, PhoneSteps, DispatchType, PostType DEF Unnoticed
  <2>3. /\ press = <<SetCurrent>> /\ Percent(currentVolume) >= floor
        /\ sink.volume = floor /\ ~sink.isMuted /\ Idle /\ Settled /\ Truths
        /\ poll.pc = "over" => poll.volume = Truth
    BY <2>1, <2>2 DEF RaiseInv, Idle
  <2>4. Settled' /\ sink' = sink /\ Truth' = Truth
    BY <2>3, RestStays
  <2>5. ~Dispatch
    <3>1. Len(press) # 2
      BY <2>3
    <3> QED
      BY <3>1, DispatchType
  <2>6. (Polls \/ Unnoticed) /\ UNCHANGED <<press, post>>
    BY <1>2, <2>3, <2>5, IdleSteps, PollType DEF Unnoticed
  <2>7. ASSUME floor' = floor, Percent(currentVolume') >= floor, Truths', poll'.pc = "over" => poll'.volume = Truth
        PROVE  RaiseInv'
    BY <2>3, <2>4, <2>6, <2>7 DEF RaiseInv, Idle
  <2>8. changed' = changed => Truths'
    BY <2>3, <2>4 DEF Truths
  <2>9. CASE Unnoticed
    BY <2>3, <2>7, <2>8, <2>9 DEF Unnoticed
  <2>10. CASE StartPoll
    <3>1. poll'.pc = "sent" /\ UNCHANGED <<changed, currentVolume, floor>>
      BY <2>10 DEF StartPoll
    <3> QED
      BY <2>3, <2>7, <2>8, <3>1
  <2>11. CASE GiveUpPoll \/ AnswerError
    <3>1. poll' = poll /\ floor' = floor /\ UNCHANGED <<changed, currentVolume>>
      BY <2>1, <2>11, FailedPoll
    <3> QED
      BY <2>3, <2>7, <2>8, <3>1
  <2>12. CASE Answer
    <3>1. /\ UNCHANGED <<changed, currentVolume, floor>>
          /\ poll' = poll \/ poll'.volume = Truth
      BY <2>3, <2>12, TrueAnswer
    <3> QED
      BY <2>3, <2>7, <2>8, <3>1
  <2>13. CASE EndPoll
    <3>1. /\ poll.pc = "over" /\ poll'.pc = "idle" /\ UNCHANGED <<currentVolume, floor>>
          /\ \/ changed' = changed
             \/ changed' = changed \cup {[poll |-> poll.number, volume |-> poll.volume]}
      BY <2>13, EndedPoll
    <3>2. Truths'
      BY <2>3, <2>4, <3>1 DEF Truths
    <3> QED
      BY <2>3, <2>7, <3>1, <3>2
  <2>14. CASE onVolumeChanged
    <3>1. PICK event \in changed :
             /\ currentVolume' = (IF event.volume.mute THEN 0 ELSE Step(event.volume.level))
             /\ changed' = changed \ {event}
      BY <2>14 DEF onVolumeChanged
    <3>2. poll' = poll /\ floor' = floor
      BY <2>14 DEF onVolumeChanged, history
    <3>3. currentVolume' = sink.volume \div PERCENTAGE_MULTIPLIER
      BY <2>3, <3>1, TrueStep DEF Truths
    <3>4. Percent(currentVolume') = sink.volume
      BY <3>3, VolumeOfStep DEF ServerTypeOK
    <3>5. Percent(currentVolume') >= floor
      BY <2>3, <3>4, VolumeOfStep DEF ServerTypeOK
    <3>6. Truths'
      BY <2>3, <2>4, <3>1 DEF Truths
    <3> QED
      BY <2>3, <2>7, <3>2, <3>5, <3>6
  <2> QED
    BY <2>6, <2>9, <2>10, <2>11, <2>12, <2>13, <2>14 DEF Polls
<1> QED
  BY <1>1, <1>2

-----------------------------------------------------------------------------
(* The theorems *)

(* The invariant holds at the start, ... *)
LEMMA InvInit == Init => IInv
<1> SUFFICES ASSUME Init PROVE IInv
  OBVIOUS
<1>1. /\ sink \in [volume : Volume, isMuted : BOOLEAN, changes : {0}] /\ toPlayer = <<>> /\ toServer = <<>>
      /\ handler = NoRequest /\ m_wasVolumeDataUpdated \in BOOLEAN /\ m_lastVolumeData = sink /\ sent = 0
  BY DEF Init, ServerInit, VolumeData
<1>2. ServerTypeOK
  BY <1>1 DEF ServerTypeOK, NoRequest, Data, Readings
<1>3. Mute \in Events /\ [level |-> 0, mute |-> TRUE] \in PhoneVolume
  BY ZeroVolume DEF Events, PhoneVolume
<1>4. PhoneTypeOK
  BY <1>3, ZeroVolume DEF Init, PhoneTypeOK, NoPoll
<1>5. CountInv
  <2> DEFINE at == [i \in Nat |-> 0]
  <2>1. at \in [Nat -> Nat] /\ at[1] = 0
    OBVIOUS
  <2>2. Len(toPlayer) = 0
    BY <1>1
  <2>3. sink.changes = 0 /\ Len(toPlayer) + 1 = 1 /\ 1 .. Len(toPlayer) = {}
    BY <1>1, <2>2
  <2> HIDE DEF at
  <2> QED
    BY <1>1, <2>1, <2>3 DEF CountInv, Counts
<1>6. HandlerInv
  BY <1>1 DEF HandlerInv, NoRequest
<1>7. ~poll.alone /\ ~trusted /\ floor = 0 /\ press = <<>>
  BY DEF Init, NoPoll
<1>8. FloorInv
  BY <1>2, <1>4, <1>7, NoFloor
<1> QED
  BY <1>2, <1>4, <1>5, <1>6, <1>7, <1>8 DEF IInv, AloneInv, TrustInv, RaiseInv

(* ... and every step keeps it. *)
LEMMA InvStep == IInv /\ [Next]_vars => IInv'
<1> SUFFICES ASSUME IInv, [Next]_vars PROVE IInv'
  OBVIOUS
<1>1. /\ ServerTypeOK /\ PhoneTypeOK /\ CountInv /\ HandlerInv
      /\ AloneInv /\ TrustInv /\ FloorInv /\ RaiseInv
  BY DEF IInv
<1>2. ServerTypeOK' /\ CountInv' /\ HandlerInv'
  BY <1>1, ServerSteps, ServerType, CountStep, HandlerStep
<1>3. PhoneTypeOK'
  BY <1>1, PhoneSteps
<1>4. AloneInv' /\ TrustInv'
  BY <1>1, AloneStep, TrustStep
<1>5. FloorInv' /\ RaiseInv'
  BY <1>1, <1>2, <1>3, FloorStep, RaiseStep
<1> QED
  BY <1>2, <1>3, <1>4, <1>5 DEF IInv

(* What the phone, the server and the player hold is what it is declared to   *)
(* be, and a step that is made of any level, a failed poll's too, is one.     *)
THEOREM TypesCorrect == Spec => [](ServerTypeOK /\ PhoneTypeOK)
<1>1. IInv => ServerTypeOK /\ PhoneTypeOK
  BY DEF IInv
<1> QED
  BY <1>1, InvInit, InvStep, PTL DEF Spec

(* The phone comes to show what the player plays, for any number of steps,    *)
(* of keys and of polls.                                                      *)
THEOREM TrustedScreenIsTrue == Spec => []ScreenIsTrue
<1>1. IInv => ScreenIsTrue
  BY DEF IInv, TrustInv, Screen, ScreenIsTrue
<1> QED
  BY <1>1, InvInit, InvStep, PTL DEF Spec

(* An answer that had the way for itself counts every change sent before it   *)
(* was asked for, however late the player is.                                 *)
THEOREM QuietAnswerIsFresh == Spec => QuietIsFresh
<1>1. IInv /\ [Next]_vars => [Answer /\ handler.quiet => m_lastVolumeData.changes >= handler.before]_vars
  <2> SUFFICES ASSUME IInv, Answer, handler.quiet
               PROVE  m_lastVolumeData.changes >= handler.before
    OBVIOUS
  <2>1. ServerTypeOK /\ CountInv /\ HandlerInv /\ Return
    BY DEF IInv, Answer
  <2>2. m_lastVolumeData.changes = handler.before /\ handler.before \in Nat
    BY <2>1, FreshAnswer DEF ServerTypeOK
  <2> QED
    BY <2>2
<1> QED
  BY <1>1, InvInit, InvStep, PTL DEF Spec, QuietIsFresh

(* Raise never makes the music quieter, unless a poll fails before its        *)
(* request is written.                                                        *)
THEOREM RaiseIsNoLower == Spec => RaiseNeverLowers
<1>1. IInv /\ [Next]_vars => [sink' # sink => sink'.volume >= floor]_vars
  <2> SUFFICES ASSUME IInv, [Next]_vars, sink' # sink
               PROVE  sink'.volume >= floor
    OBVIOUS
  <2>1. ServerTypeOK /\ PhoneTypeOK /\ FloorInv
    BY DEF IInv
  <2>2. OnChange
    BY <2>1, ServerSteps DEF ServerStep, Modest, server, Change, Request, Clear, Return, Timeout, Leave,
          SetVolumeData, OnVolumeGetRequest
  <2>3. toPlayer \in Seq(Events \cup {GetRequest}) /\ toPlayer # <<>>
    BY <2>1, <2>2, PlayerTakes DEF ServerTypeOK
  <2>4. Head(toPlayer) = toPlayer[1] /\ 1 \in 1 .. Len(toPlayer)
    BY <2>3, Taken
  <2>5. Above(Head(toPlayer), floor) /\ sink.volume >= floor
    BY <2>1, <2>4 DEF FloorInv
  <2>6. \/ sink'.volume = sink.volume
        \/ Head(toPlayer).type = "VOLUME_CHANGE" /\ sink'.volume = Head(toPlayer).volume
    BY <2>1, <2>2 DEF OnChange, Take, ServerTypeOK
  <2> QED
    BY <2>5, <2>6 DEF Above
<1> QED
  BY <1>1, InvInit, InvStep, PTL DEF Spec, RaiseNeverLowers

-----------------------------------------------------------------------------
(* Mp3Packets.  An event that is written whole is read whole, wherever it  *)
(* lies in the stream, and a type that is not known leaves the reader at    *)
(* the next event.                                                          *)

(* The number of a type is that of the enumeration. *)
LEMMA TypesNumbered ==
    ASSUME NEW type \in {EventTypes[k] : k \in 1 .. 6}
    PROVE  EventType(type) \in 1 .. 6 /\ EventTypes[EventType(type)] = type
<1>1. \E code \in 1 .. 6 : EventTypes[code] = type
  OBVIOUS
<1> QED BY <1>1 DEF EventType

(* So is that of every event, which is one of six. *)
LEMMA TypesOfEvents ==
    ASSUME NEW event \in Mp3Event
    PROVE  /\ EventType(event.type) \in 1 .. 6
           /\ EventTypes[EventType(event.type)] = event.type
           /\ event.type \in Payloadless \cup {"VOLUME_CHANGE", "VOLUME_GET_RESPONSE"}
<1>1. event.type \in Payloadless \cup {"VOLUME_CHANGE", "VOLUME_GET_RESPONSE"}
  BY DEF Mp3Event
<1>2. event.type \in {EventTypes[k] : k \in 1 .. 6}
  BY <1>1 DEF Payloadless, EventTypes
<1> QED BY <1>1, <1>2, TypesNumbered

(* A header of six bytes and a payload, padded. *)
LEMMA PaddedBytes ==
    ASSUME NEW header \in Seq(Int), NEW payload \in Seq(Int),
           Len(header) = 6, Len(payload) <= 10
    PROVE  padToDataSize(header \o payload) =
              [k \in 1 .. 16 |-> IF k <= 6 THEN header[k]
                                ELSE IF k - 6 <= Len(payload) THEN payload[k - 6] ELSE 0]
<1>1. /\ Len(header \o payload) = Len(header) + Len(payload)
      /\ \A i \in 1 .. Len(header) + Len(payload) : (header \o payload)[i] =
            IF i <= Len(header) THEN header[i] ELSE payload[i - Len(header)]
  BY ConcatProperties, Zenon
<1>2. /\ Len(header \o payload) = 6 + Len(payload)
      /\ \A i \in 1 .. 6 + Len(payload) :
            (header \o payload)[i] = IF i <= 6 THEN header[i] ELSE payload[i - 6]
  BY <1>1, Zenon
<1>3. Len(payload) \in Nat
  OBVIOUS
<1> DEFINE n == Len(payload)  s == header \o payload
<1>4. n \in Nat /\ n <= 10 /\ Len(s) = 6 + n
      /\ \A i \in 1 .. 6 + n : s[i] = IF i <= 6 THEN header[i] ELSE payload[i - 6]
  BY <1>2, <1>3
<1> HIDE DEF n, s
<1>5. ASSUME NEW k \in 1 .. 16
      PROVE  (IF k <= Len(s) THEN s[k] ELSE 0) =
                IF k <= 6 THEN header[k] ELSE IF k - 6 <= n THEN payload[k - 6] ELSE 0
  <2>1. CASE k <= 6 + n
    <3>1. k \in 1 .. 6 + n
      BY <1>4, <2>1
    <3>2. s[k] = IF k <= 6 THEN header[k] ELSE payload[k - 6]
      BY <1>4, <3>1, Zenon
    <3>3. k <= 6 \/ k - 6 <= n
      BY <1>4, <2>1
    <3> QED BY <1>4, <2>1, <3>2, <3>3, Zenon
  <2>2. CASE ~(k <= 6 + n)
    <3>1. ~(k <= 6) /\ ~(k - 6 <= n)
      BY <1>4, <2>2
    <3> QED BY <1>4, <2>2, <3>1, Zenon
  <2> QED BY <2>1, <2>2
<1>6. padToDataSize(s) = [k \in 1 .. 16 |-> IF k <= Len(s) THEN s[k] ELSE 0]
  BY DEF padToDataSize, DATA_SIZE, PADDING
<1> QED BY <1>5, <1>6, Zenon DEF s, n

(* The bytes of an event: the signature, the type, and the payload. *)
LEMMA BytesOfEvent ==
    ASSUME NEW event \in Mp3Event
    PROVE  /\ serialize(event) \in [1 .. DATA_SIZE -> Byte]
           /\ \A k \in 1 .. 4 : serialize(event)[k] = EVENT_SIGNATURE[k]
           /\ serialize(event)[5] = EventType(event.type)
           /\ serialize(event)[6] = 0
           /\ event.type = "VOLUME_CHANGE" => serialize(event)[7] = event.volume
           /\ event.type = "VOLUME_GET_RESPONSE" =>
                 /\ serialize(event)[7] = event.volume
                 /\ serialize(event)[8] = IF event.isMuted THEN 1 ELSE 0
<1> DEFINE type == EventType(event.type)  h == Header(event)
           muted == IF event.isMuted THEN 1 ELSE 0
<1>1. type \in 1 .. 6
  BY TypesOfEvents
<1>2. TwoBytes(type) = <<type, 0>>
  <2> HIDE DEF type
  <2>1. type % 256 = type /\ (type \div 256) % 256 = 0
    BY <1>1
  <2> QED BY <2>1 DEF TwoBytes
<1>3. /\ h \in Seq(Int) /\ Len(h) = 6
      /\ \A k \in 1 .. 4 : h[k] = EVENT_SIGNATURE[k]
      /\ h[5] = type /\ h[6] = 0
  <2> DEFINE a == EVENT_SIGNATURE  z == <<type, 0>>
  <2>1. a \in Seq(Int) /\ Len(a) = 4
    BY DEF EVENT_SIGNATURE
  <2>2. z \in Seq(Int) /\ Len(z) = 2 /\ z[1] = type /\ z[2] = 0
    BY <1>1
  <2>3. h = a \o z
    BY <1>2 DEF Header
  <2> HIDE DEF a, z, h, type
  <2>4. /\ h \in Seq(Int) /\ Len(h) = Len(a) + Len(z)
        /\ \A i \in 1 .. Len(a) + Len(z) :
              h[i] = IF i <= Len(a) THEN a[i] ELSE z[i - Len(a)]
    BY <2>1, <2>2, <2>3, ConcatProperties, Zenon
  <2>5. Len(h) = 4 + 2 /\ \A i \in 1 .. 4 + 2 : h[i] = IF i <= 4 THEN a[i] ELSE z[i - 4]
    BY <2>1, <2>2, <2>4, Zenon
  <2>6. /\ \A i \in 1 .. 4 : i \in 1 .. 4 + 2 /\ i <= 4
        /\ 5 \in 1 .. 4 + 2 /\ ~(5 <= 4) /\ 5 - 4 = 1
        /\ 6 \in 1 .. 4 + 2 /\ ~(6 <= 4) /\ 6 - 4 = 2 /\ 4 + 2 = 6
    OBVIOUS
  <2>7. \A i \in 1 .. 4 : h[i] = a[i]
    BY <2>5, <2>6, Zenon
  <2>8. h[5] = z[1]
    <3>1. h[5] = z[5 - 4]
      BY <2>5, <2>6, Zenon
    <3> QED BY <3>1
  <2>9. h[6] = z[2]
    <3>1. h[6] = z[6 - 4]
      BY <2>5, <2>6, Zenon
    <3> QED BY <3>1
  <2>10. Len(h) = 6
    BY <2>5
  <2> QED BY <2>2, <2>4, <2>7, <2>8, <2>9, <2>10, Zenon DEF a
<1>4. \A k \in 1 .. 6 : h[k] \in Byte
  <2>1. \A k \in 1 .. 6 : k \in 1 .. 4 \/ k = 5 \/ k = 6
    OBVIOUS
  <2>2. \A k \in 1 .. 4 : EVENT_SIGNATURE[k] \in Byte
    BY DEF EVENT_SIGNATURE, Byte
  <2>3. type \in Byte /\ 0 \in Byte
    BY <1>1 DEF Byte
  <2> QED BY <1>3, <2>1, <2>2, <2>3, Zenon
<1>5. /\ \A k \in 1 .. 6 : k \in 1 .. 16 /\ k <= 6
      /\ \A k \in 1 .. 4 : k \in 1 .. 6
      /\ \A k \in 1 .. 16 : k \notin 1 .. 6 => ~(k <= 6)
      /\ 5 \in 1 .. 6 /\ 6 \in 1 .. 6 /\ 7 \in 1 .. 16 /\ 8 \in 1 .. 16
      /\ ~(7 <= 6) /\ ~(8 <= 6) /\ 7 - 6 = 1 /\ 8 - 6 = 2 /\ 0 \in Byte
  BY DEF Byte
<1> HIDE DEF type, muted, h
<1>6. CASE event.type \in Payloadless
  <2>1. Payload(event) = <<>>
    BY <1>6 DEF Payload, Payloadless
  <2>2. serialize(event) = [k \in 1 .. 16 |-> IF k <= 6 THEN h[k] ELSE 0]
    <3>1. <<>> \in Seq(Int) /\ Len(<<>>) = 0 /\ 0 <= 10
      OBVIOUS
    <3>2. padToDataSize(h \o <<>>) = [k \in 1 .. 16 |-> IF k <= 6 THEN h[k]
             ELSE IF k - 6 <= Len(<<>>) THEN <<>>[k - 6] ELSE 0]
      BY <1>3, <3>1, PaddedBytes, Zenon
    <3>3. \A k \in 1 .. 16 : k <= 6 \/ ~(k - 6 <= 0)
      OBVIOUS
    <3>4. serialize(event) = padToDataSize(h \o <<>>)
      BY <2>1 DEF serialize, h
    <3> QED BY <3>1, <3>2, <3>3, <3>4, Zenon
  <2>3. event.type # "VOLUME_CHANGE" /\ event.type # "VOLUME_GET_RESPONSE"
    BY <1>6 DEF Payloadless
  <2>4. serialize(event) \in [1 .. 16 -> Byte]
    BY <1>4, <1>5, <2>2, Zenon
  <2> QED BY <1>3, <1>5, <2>2, <2>3, <2>4, Zenon DEF DATA_SIZE, type
<1>7. CASE event.type = "VOLUME_CHANGE"
  <2> DEFINE p == <<event.volume>>
  <2>0. event.volume \in Byte
    BY <1>7 DEF Mp3Event, Payloadless
  <2>1. Payload(event) = p
    BY <1>7 DEF Payload
  <2>2. p \in Seq(Int) /\ Len(p) = 1 /\ p[1] = event.volume
    BY <2>0 DEF Byte
  <2>3. serialize(event) = [k \in 1 .. 16 |-> IF k <= 6 THEN h[k]
                                             ELSE IF k - 6 <= 1 THEN p[k - 6] ELSE 0]
    <3> HIDE DEF p
    <3>1. Len(p) <= 10
      BY <2>2
    <3>2. padToDataSize(h \o p) = [k \in 1 .. 16 |-> IF k <= 6 THEN h[k]
             ELSE IF k - 6 <= Len(p) THEN p[k - 6] ELSE 0]
      BY <1>3, <2>2, <3>1, PaddedBytes, Zenon
    <3>3. serialize(event) = padToDataSize(h \o p)
      BY <2>1 DEF serialize, h
    <3> QED BY <2>2, <3>2, <3>3, Zenon
  <2>4. \A k \in 1 .. 16 : k - 6 <= 1 /\ ~(k <= 6) => k - 6 = 1
    OBVIOUS
  <2>5. serialize(event) \in [1 .. 16 -> Byte]
    BY <1>4, <1>5, <2>0, <2>2, <2>3, <2>4, Zenon
  <2>6. 1 <= 1
    OBVIOUS
  <2>7. \A k \in 1 .. 6 : serialize(event)[k] = h[k]
    BY <1>5, <2>3, Zenon
  <2>8. serialize(event)[7] = p[1]
    BY <1>5, <2>3, <2>6, Zenon
  <2>9. \A k \in 1 .. 4 : serialize(event)[k] = EVENT_SIGNATURE[k]
    <3>1. ASSUME NEW k \in 1 .. 4
          PROVE  serialize(event)[k] = h[k] /\ h[k] = EVENT_SIGNATURE[k]
      <4>1. k \in 1 .. 6
        OBVIOUS
      <4> QED BY <1>3, <2>7, <4>1, Zenon
    <3> QED BY <3>1, Zenon
  <2>10. serialize(event)[5] = type /\ serialize(event)[6] = 0
    BY <1>3, <1>5, <2>7, Zenon
  <2> QED BY <1>7, <2>2, <2>5, <2>8, <2>9, <2>10, Zenon DEF DATA_SIZE, type
<1>8. CASE event.type = "VOLUME_GET_RESPONSE"
  <2> DEFINE p == <<event.volume, muted>>
  <2>0. event.volume \in Byte /\ muted \in 0 .. 1
    BY <1>8 DEF Mp3Event, Payloadless, muted
  <2>1. Payload(event) = p
    BY <1>8 DEF Payload, muted
  <2>2. p \in Seq(Int) /\ Len(p) = 2 /\ p[1] = event.volume /\ p[2] = muted
    BY <2>0 DEF Byte
  <2>3. serialize(event) = [k \in 1 .. 16 |-> IF k <= 6 THEN h[k]
                                             ELSE IF k - 6 <= 2 THEN p[k - 6] ELSE 0]
    <3> HIDE DEF p
    <3>1. Len(p) <= 10
      BY <2>2
    <3>2. padToDataSize(h \o p) = [k \in 1 .. 16 |-> IF k <= 6 THEN h[k]
             ELSE IF k - 6 <= Len(p) THEN p[k - 6] ELSE 0]
      BY <1>3, <2>2, <3>1, PaddedBytes, Zenon
    <3>3. serialize(event) = padToDataSize(h \o p)
      BY <2>1 DEF serialize, h
    <3> QED BY <2>2, <3>2, <3>3, Zenon
  <2>4. /\ serialize(event) \in [1 .. DATA_SIZE -> Byte]
        /\ \A k \in 1 .. 4 : serialize(event)[k] = EVENT_SIGNATURE[k]
        /\ serialize(event)[5] = type /\ serialize(event)[6] = 0
        /\ serialize(event)[7] = event.volume /\ serialize(event)[8] = muted
    <3>1. \A k \in 1 .. 16 : k - 6 <= 2 /\ ~(k <= 6) => k - 6 = 1 \/ k - 6 = 2
      OBVIOUS
    <3>2. muted \in Byte
      BY <2>0 DEF Byte
    <3>3. \A k \in 1 .. 16 : serialize(event)[k] \in Byte
      <4>1. \A k \in 1 .. 16 : serialize(event)[k] =
               IF k <= 6 THEN h[k] ELSE IF k - 6 <= 2 THEN p[k - 6] ELSE 0
        BY <2>3, Zenon
      <4>2. \A k \in 1 .. 16 : k <= 6 => k \in 1 .. 6
        OBVIOUS
      <4>3. p[1] \in Byte /\ p[2] \in Byte
        BY <2>0, <2>2, <3>2, Zenon
      <4> QED BY <1>4, <1>5, <3>1, <4>1, <4>2, <4>3, Zenon
    <3>4. 1 <= 2 /\ 2 <= 2
      OBVIOUS
    <3>5. \A k \in 1 .. 6 : serialize(event)[k] = h[k]
      BY <1>5, <2>3, Zenon
    <3>6. serialize(event)[7] = p[1]
      BY <1>5, <2>3, <3>4, Zenon
    <3>7. serialize(event)[8] = p[2]
      BY <1>5, <2>3, <3>4, Zenon
    <3>8. serialize(event) \in [1 .. 16 -> Byte]
      BY <2>3, <3>3
    <3>9. \A k \in 1 .. 4 : serialize(event)[k] = EVENT_SIGNATURE[k]
      <4>1. ASSUME NEW k \in 1 .. 4
            PROVE  serialize(event)[k] = h[k] /\ h[k] = EVENT_SIGNATURE[k]
        <5>1. k \in 1 .. 6
          OBVIOUS
        <5> QED BY <1>3, <3>5, <5>1, Zenon
      <4> QED BY <4>1, Zenon
    <3>10. serialize(event)[5] = type /\ serialize(event)[6] = 0
      BY <1>3, <1>5, <3>5, Zenon
    <3> QED BY <2>2, <3>6, <3>7, <3>8, <3>9, <3>10, Zenon DEF DATA_SIZE
  <2> QED BY <1>8, <2>4 DEF type, muted
<1> QED BY <1>6, <1>7, <1>8, TypesOfEvents

(* What an event was written as is read as that event. *)
LEMMA DeserializedIsWritten ==
    ASSUME NEW event \in Mp3Event, NEW payload,
           event.type \in {"VOLUME_CHANGE", "VOLUME_GET_RESPONSE"} => payload[1] = event.volume,
           event.type = "VOLUME_GET_RESPONSE" =>
              payload[2] = IF event.isMuted THEN 1 ELSE 0
    PROVE  deserializeEvent(EventType(event.type), payload) = event
<1> DEFINE code == EventType(event.type)
<1>1. code \in 1 .. 6 /\ EventTypes[code] = event.type
  BY TypesOfEvents
<1> HIDE DEF code
<1>2. CASE event.type \in Payloadless
  <2>1. event = [type |-> event.type]
    BY <1>2 DEF Mp3Event, Payloadless
  <2>2. deserializeEvent(code, payload) = [type |-> event.type]
    BY <1>1, <1>2 DEF deserializeEvent, Payloadless
  <2> QED BY <2>1, <2>2 DEF code
<1>3. CASE event.type = "VOLUME_CHANGE"
  <2>1. event = [type |-> "VOLUME_CHANGE", volume |-> event.volume]
    BY <1>3 DEF Mp3Event, Payloadless
  <2>2. deserializeEvent(code, payload) = [type |-> "VOLUME_CHANGE", volume |-> payload[1]]
    BY <1>1, <1>3 DEF deserializeEvent, Payloadless
  <2> QED BY <1>3, <2>1, <2>2 DEF code
<1>4. CASE event.type = "VOLUME_GET_RESPONSE"
  <2>1. /\ event = [type |-> "VOLUME_GET_RESPONSE", volume |-> event.volume,
                    isMuted |-> event.isMuted]
        /\ event.isMuted \in BOOLEAN
    BY <1>4 DEF Mp3Event, Payloadless
  <2>2. (payload[2] # 0) = event.isMuted
    BY <1>4, <2>1
  <2>3. deserializeEvent(code, payload)
           = [type |-> "VOLUME_GET_RESPONSE", volume |-> payload[1],
              isMuted |-> payload[2] # 0]
    BY <1>1, <1>4 DEF deserializeEvent, Payloadless
  <2> QED BY <1>4, <2>1, <2>2, <2>3 DEF code
<1> QED BY <1>2, <1>3, <1>4, TypesOfEvents

(* The stream has not ended where sixteen bytes stand. *)
LEMMA NotClosed ==
    ASSUME NEW in \in Seq(Byte), NEW at \in Nat, at + 16 <= Len(in)
    PROVE  ~Closed(in, at) /\ ~Closed(in, at + 6)
BY DEF Closed

(* What the reader finds there. *)
LEMMA BytesAreRead ==
    ASSUME NEW in \in Seq(Byte), NEW at \in Nat, at + 16 <= Len(in),
           NEW s \in [1 .. 16 -> Byte], \A k \in 1 .. 16 : in[at + k] = s[k]
    PROVE  /\ ~Closed(in, at) /\ ~Closed(in, at + 6)
           /\ Read(in, at, 4) = [k \in 1 .. 4 |-> s[k]]
           /\ Read(in, at + 4, 2) = [k \in 1 .. 2 |-> s[4 + k]]
           /\ Read(in, at + 6, 10) = [k \in 1 .. 10 |-> s[6 + k]]
<1>1. Len(in) \in Nat
  OBVIOUS
<1>2. ASSUME NEW k \in 1 .. 16
      PROVE  at + k <= Len(in) /\ in[at + k] = s[k]
  <2>1. at + k <= Len(in)
    BY <1>1
  <2>2. in[at + k] = s[k]
    BY Zenon
  <2> QED BY <2>1, <2>2
<1>3. Read(in, at, 4) = [k \in 1 .. 4 |-> s[k]]
  <2>1. \A k \in 1 .. 4 : k \in 1 .. 16
    OBVIOUS
  <2>2. \A k \in 1 .. 4 : (IF at + k <= Len(in) THEN in[at + k] ELSE 0) = s[k]
    BY <1>2, <2>1, Zenon
  <2> QED BY <2>2, Zenon DEF Read
<1>4. Read(in, at + 4, 2) = [k \in 1 .. 2 |-> s[4 + k]]
  <2>1. \A k \in 1 .. 2 : 4 + k \in 1 .. 16 /\ at + 4 + k = at + (4 + k)
    OBVIOUS
  <2>2. \A k \in 1 .. 2 : (IF at + 4 + k <= Len(in) THEN in[at + 4 + k] ELSE 0) = s[4 + k]
    BY <1>2, <2>1, Zenon
  <2> QED BY <2>2, Zenon DEF Read
<1>5. Read(in, at + 6, 10) = [k \in 1 .. 10 |-> s[6 + k]]
  <2>1. \A k \in 1 .. 10 : 6 + k \in 1 .. 16 /\ at + 6 + k = at + (6 + k)
    OBVIOUS
  <2>2. \A k \in 1 .. 10 : (IF at + 6 + k <= Len(in) THEN in[at + 6 + k] ELSE 0) = s[6 + k]
    BY <1>2, <2>1, Zenon
  <2> QED BY <2>2, Zenon DEF Read
<1>6. ~Closed(in, at) /\ ~Closed(in, at + 6)
  BY NotClosed, Zenon
<1> QED BY <1>3, <1>4, <1>5, <1>6

(* Mp3EventPacketReader and the events' serialize: wherever an event stands in *)
(* a stream, it is read as it was written, and not one byte after it is taken, *)
(* so that the next event is read from its start.                              *)
THEOREM EventsAreRead ==
    ASSUME NEW in \in Seq(Byte), NEW at \in Nat, at + DATA_SIZE <= Len(in),
           NEW event \in Mp3Event,
           \A k \in 1 .. DATA_SIZE : in[at + k] = serialize(event)[k]
    PROVE  readEvent(in, at) = [result |-> event, at |-> at + DATA_SIZE]
<1> DEFINE s == serialize(event)
           type == Read(in, at + 4, 2)
           payload == Read(in, at + 6, 10)
<1>1. /\ s \in [1 .. 16 -> Byte] /\ \A k \in 1 .. 4 : s[k] = EVENT_SIGNATURE[k]
      /\ s[5] = EventType(event.type) /\ s[6] = 0
      /\ event.type = "VOLUME_CHANGE" => s[7] = event.volume
      /\ event.type = "VOLUME_GET_RESPONSE" =>
            s[7] = event.volume /\ s[8] = IF event.isMuted THEN 1 ELSE 0
  BY BytesOfEvent DEF DATA_SIZE
<1>2. /\ ~Closed(in, at) /\ ~Closed(in, at + 6)
      /\ Read(in, at, 4) = [k \in 1 .. 4 |-> s[k]]
      /\ type = [k \in 1 .. 2 |-> s[4 + k]]
      /\ payload = [k \in 1 .. 10 |-> s[6 + k]]
  <2>1. at + 16 <= Len(in) /\ \A k \in 1 .. 16 : in[at + k] = s[k]
    BY DEF DATA_SIZE
  <2> HIDE DEF s
  <2> QED BY <1>1, <2>1, BytesAreRead
<1>3. Advance(in, at, DATA_SIZE) = at + DATA_SIZE
  BY DEF Advance
<1> HIDE DEF s, type, payload
<1>4. Read(in, at, 4) = EVENT_SIGNATURE
  <2>1. EVENT_SIGNATURE = [k \in 1 .. 4 |-> EVENT_SIGNATURE[k]]
    BY DEF EVENT_SIGNATURE
  <2> QED BY <1>1, <1>2, <2>1
<1>5. type[1] + 256 * type[2] = EventType(event.type)
  <2>1. type[1] = s[5] /\ type[2] = s[6]
    BY <1>2
  <2>2. EventType(event.type) \in 1 .. 6
    BY TypesOfEvents
  <2> QED BY <1>1, <2>1, <2>2
<1>6. payload[1] = s[7] /\ payload[2] = s[8]
  BY <1>2
<1>7. deserializeEvent(type[1] + 256 * type[2], payload) = event
  BY <1>1, <1>5, <1>6, DeserializedIsWritten
<1>8. readEvent(in, at) = [result |-> deserializeEvent(type[1] + 256 * type[2], payload),
                           at |-> Advance(in, at, DATA_SIZE)]
  BY <1>2, <1>4 DEF readEvent, type, payload
<1> QED BY <1>3, <1>7, <1>8

(* Mp3EventPacketReader: an event of a type nobody knows is refused only after *)
(* it was read whole; the next event is read from its start.                   *)
THEOREM UnknownIsSkipped ==
    ASSUME NEW in \in Seq(Byte), NEW at \in Nat, at + DATA_SIZE <= Len(in),
           readEvent(in, at).result # NotAnEvent
    PROVE  readEvent(in, at).at = at + DATA_SIZE
<1>1. ~Closed(in, at) /\ ~Closed(in, at + 6)
  BY NotClosed DEF DATA_SIZE
<1>2. Read(in, at, 4) = EVENT_SIGNATURE
  BY <1>1 DEF readEvent
<1>3. Advance(in, at, DATA_SIZE) = at + DATA_SIZE
  BY DEF Advance
<1> QED BY <1>1, <1>2, <1>3 DEF readEvent

-----------------------------------------------------------------------------
(* AudioOutput.  Every sample comes to 16 bits, and to its side and place.  *)

(* Two bytes of the output, as PA_SAMPLE_S16LE reads them. *)
Heard(low, high) == IF high < 128 THEN low + 256 * high ELSE low + 256 * high - 65536

Fits(n) == n \in Int /\ -32768 <= n /\ n <= 32767

(* What comes from the clipping, in steps. *)
LEMMA ClippedFits ==
    ASSUME NEW r \in Int
    PROVE  Fits(Clipped(r) \div (2 * Half))
<1> DEFINE c == Clipped(r)
<1>1. c \in Int /\ -268435456 <= c /\ c <= 268435455
  BY SMT DEF Clipped, MAD_F_ONE
<1> HIDE DEF c
<1>2. c \div 8192 \in Int /\ -32768 <= c \div 8192 /\ c \div 8192 <= 32767
  BY <1>1, SMT
<1> QED BY <1>2, SMT DEF Fits, Half, c

(* Every sample comes to 16 bits, also one far beyond full scale. *)
THEOREM ScaledFits ==
    ASSUME NEW sample \in Fixed
    PROVE  Fits(scale(sample))
<1>1. Rounded(sample) \in Int
  BY SMT DEF Rounded, Fixed, Highest, Lowest, Half
<1> QED BY <1>1, ClippedFits, SMT DEF scale

(* A sample below full scale is rounded to the nearest step; louder ones are *)
(* cut to the highest and the lowest step, unless the sum overflows.         *)
THEOREM ScaleRounds ==
    ASSUME NEW sample \in Fixed
    PROVE  /\ -MAD_F_ONE <= sample /\ sample < MAD_F_ONE - Half =>
                 /\ 8192 * scale(sample) - Half <= sample
                 /\ sample < 8192 * scale(sample) + Half
           /\ sample >= MAD_F_ONE - Half /\ sample <= Highest - Half => scale(sample) = 32767
           /\ sample < -MAD_F_ONE => scale(sample) = -32768
<1>0. sample \in Int
  BY SMT DEF Fixed
<1>1. ASSUME sample <= Highest - Half
      PROVE  Rounded(sample) = sample + 4096
  BY <1>1, SMT DEF Rounded, Half
<1>2. ASSUME -MAD_F_ONE <= sample, sample < MAD_F_ONE - Half
      PROVE  /\ 8192 * scale(sample) - Half <= sample
             /\ sample < 8192 * scale(sample) + Half
  <2>1. sample + 4096 < MAD_F_ONE /\ ~(sample + 4096 < -MAD_F_ONE) /\ MAD_F_ONE \in Int
    BY <1>0, <1>2, SMT DEF MAD_F_ONE, Half
  <2>2. Rounded(sample) = sample + 4096
    BY <1>0, <1>1, <2>1, SMT DEF Highest, Half, MAD_F_ONE
  <2>3. Clipped(sample + 4096) = sample + 4096
    BY <1>0, <2>1, SMT DEF Clipped
  <2>4. scale(sample) = (sample + 4096) \div 8192
    BY <2>2, <2>3, SMT DEF scale, Half
  <2> QED BY <1>0, <2>4, SMT DEF Half
<1>3. ASSUME sample >= MAD_F_ONE - Half, sample <= Highest - Half
      PROVE  scale(sample) = 32767
  <2>1. sample + 4096 >= MAD_F_ONE
    BY <1>0, <1>3, SMT DEF MAD_F_ONE, Half
  <2>2. Clipped(sample + 4096) = 268435455
    BY <2>1, SMT DEF Clipped, MAD_F_ONE
  <2> QED BY <1>1, <1>3, <2>2, SMT DEF scale, Half
<1>4. ASSUME sample < -MAD_F_ONE
      PROVE  scale(sample) = -32768
  <2>1. sample < -268435456
    BY <1>4, SMT DEF MAD_F_ONE
  <2>2. Rounded(sample) = sample + 4096
    BY <1>0, <1>1, <2>1, SMT DEF Highest, Half
  <2> DEFINE c == Clipped(sample + 4096)
  <2>3. c \in Int /\ -268435456 <= c /\ c < -268435456 + 4096
    BY <1>0, <2>1, SMT DEF Clipped, MAD_F_ONE
  <2>4. scale(sample) = c \div 8192
    BY <2>2, SMT DEF scale, Half
  <2> HIDE DEF c
  <2>5. c \div 8192 = -32768
    BY <2>3, SMT
  <2> QED BY <2>4, <2>5, SMT
<1> QED BY <1>2, <1>3, <1>4

(* The two bytes of a sample are heard as that sample. *)
LEMMA BytesAreHeard ==
    ASSUME NEW n, Fits(n)
    PROVE  Heard(TwoBytes(n)[1], TwoBytes(n)[2]) = n
<1> DEFINE q == n \div 256  r == n % 256
<1>1. /\ n \in Int /\ q \in Int /\ r \in Int /\ n = 256 * q + r
      /\ -128 <= q /\ q <= 127 /\ 0 <= r /\ r < 256
  BY SMT DEF Fits
<1> HIDE DEF q, r
<1>2. q % 256 = IF q < 0 THEN q + 256 ELSE q
  BY <1>1, SMT
<1>3. Heard(r, q % 256) = n
  BY <1>1, <1>2, SMT DEF Heard
<1> QED BY <1>3 DEF TwoBytes, q, r

(* MadAudioFormatter::format: the output has four bytes for each sample, and  *)
(* what is heard on a side at a moment is that channel's sample, or the only  *)
(* channel's.                                                                 *)
THEOREM SamplesKeepPlace ==
    ASSUME NEW pcm, pcm.channels \in {1, 2}, pcm.length \in Nat,
           pcm.samples \in [1 .. 2 -> [1 .. pcm.length -> Fixed]],
           NEW i \in 1 .. pcm.length, NEW side \in 1 .. 2
    PROVE  LET data == format(pcm).data
               low == 4 * (i - 1) + 2 * (side - 1) + 1
           IN  /\ Len(data) = 4 * pcm.length
               /\ Heard(data[low], data[low + 1]) = scale(Side(pcm, side)[i])
<1> DEFINE n == pcm.length  data == format(pcm).data
           low == 4 * (i - 1) + 2 * (side - 1) + 1
           x == scale(Side(pcm, side)[i])
           F(k) == TwoBytes(scale(Side(pcm, (((k - 1) % 4) \div 2) + 1)[((k - 1) \div 4) + 1]))
                           [((k - 1) % 2) + 1]
<1>1. data = [k \in 1 .. 4 * n |-> F(k)]
  BY DEF format
<1>2. n \in Nat /\ i \in 1 .. n /\ side \in 1 .. 2
  OBVIOUS
<1>3. Fits(x)
  <2>1. Side(pcm, side) \in [1 .. pcm.length -> Fixed]
    BY DEF Side
  <2>2. Side(pcm, side)[i] \in Fixed
    BY <2>1, Zenon
  <2> QED BY <2>2, ScaledFits, Zenon
<1>4. /\ low \in 1 .. 4 * n /\ low + 1 \in 1 .. 4 * n
      /\ (low - 1) \div 4 = i - 1 /\ low \div 4 = i - 1
      /\ ((low - 1) % 4) \div 2 = side - 1 /\ (low % 4) \div 2 = side - 1
      /\ (low - 1) % 2 = 0 /\ low % 2 = 1
  <2> HIDE DEF n
  <2>1. CASE side = 1
    BY <1>2, <2>1
  <2>2. CASE side = 2
    BY <1>2, <2>2
  <2> QED BY <2>1, <2>2
<1>5. (i - 1) + 1 = i /\ (side - 1) + 1 = side /\ 0 + 1 = 1 /\ 1 + 1 = 2
      /\ (low + 1) - 1 = low
  BY <1>2
<1>6. F(low) = TwoBytes(x)[1]
  <2> HIDE DEF low
  <2> QED BY <1>4, <1>5
<1>7. F(low + 1) = TwoBytes(x)[2]
  <2> HIDE DEF low
  <2> QED BY <1>4, <1>5
<1>8. data[low] = TwoBytes(x)[1] /\ data[low + 1] = TwoBytes(x)[2]
  <2> HIDE DEF low, F, x
  <2> QED BY <1>1, <1>4, <1>6, <1>7
<1>9. Heard(TwoBytes(x)[1], TwoBytes(x)[2]) = x
  <2> HIDE DEF x
  <2> QED BY <1>3, BytesAreHeard, Zenon
<1>10. Len(data) = 4 * n
  <2> HIDE DEF F, n
  <2> QED BY <1>1, <1>2
<1> QED BY <1>8, <1>9, <1>10
=============================================================================
