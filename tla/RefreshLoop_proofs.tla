------------------------- MODULE RefreshLoop_proofs -------------------------
(***************************************************************************)
(* As long as no event comes while another is handled, at most one thread   *)
(* is between a cancel and the assignment of the task: so the task is the   *)
(* only loop there is, and it runs when the application is visible and      *)
(* initialized.  The one exception, an activity that is not counted yet     *)
(* while its own onAppResume runs, does no harm.                            *)
(***************************************************************************)
EXTENDS RefreshLoop, TLAPS

Steps == {"cancel", "schedule", "assign"}

(* What a thread handles, and how far it may be. *)
Shape(t) ==
    \/ thread[t] = Idle
    \/ /\ t \in Listener /\ thread[t].handles \in {"init", "resume"}
       /\ thread[t].pc \in {"guard"} \cup Steps
    \/ t \in Listener /\ thread[t].handles = "stop" /\ thread[t].pc = "cancel"
    \/ /\ t = Main /\ thread[t].handles = "start" /\ thread[t].pc = "count"
       /\ activeActivityCounter < MaxActive
    \/ /\ t = Main /\ thread[t].handles = "period" /\ thread[t].pc \in Steps
       /\ activeActivityCounter > 0

Shapes == \A t \in Thread : Shape(t)

Initialization ==
    /\ initState = "INITIALIZED" <=> starter \in {"dispatch", "over"}
    /\ registered => initState = "INITIALIZED"
    /\ \A t \in Thread : thread[t].handles = "init" => initState = "INITIALIZED"

(* Two threads handle events only where one is the main thread, in the      *)
(* middle of activityStarted, and the other the onAppResume it dispatched.  *)
Pair(t, u) == t = Main /\ thread[t].handles = "start" /\ thread[u].handles = "resume"
OneEvent ==
    \A t, u \in Thread :
        t # u /\ thread[t] # Idle /\ thread[u] # Idle => Pair(t, u) \/ Pair(u, t)

(* The loops, from the cancel to the assignment. *)
TaskKnows ==
    /\ (\A t \in Thread : thread[t].pc \notin {"schedule", "assign"}) => running \subseteq {task}
    /\ \A t \in Thread : thread[t].pc = "schedule" => running = {}
    /\ \A t \in Thread : thread[t].pc = "assign" => running = {thread[t].loop}

Visible == activeActivityCounter > 0 \/ thread[Main].pc = "count"

(* The loop and the activities, while events are handled. *)
View ==
    /\ (\A t \in Thread : thread[t].handles # "stop") /\ running # {}
          => Visible /\ initState = "INITIALIZED"
    /\ (\A t \in Thread : thread[t].handles \in {"nothing", "start"}) /\ starter = "over" /\ Visible
          => running # {}
    /\ \A t \in Thread :
          /\ thread[t].pc \in Steps /\ thread[t].handles # "stop"
                => Visible /\ initState = "INITIALIZED"
          /\ thread[t].handles = "resume" => Visible
          /\ thread[t].handles = "stop" => activeActivityCounter = 0

IInv == /\ TypeOK /\ Shapes /\ Initialization
        /\ ~overlapped => OneEvent /\ TaskKnows /\ View

ThreadType == [handles : {"nothing", "init", "resume", "stop", "start", "period"},
               pc : {"idle", "guard", "cancel", "schedule", "assign", "count"},
               loop : Nat]

(* The initial states. *)
LEMMA InitIInv == Init => IInv
<1> SUFFICES ASSUME Init PROVE IInv
  OBVIOUS
<1>1. thread \in [Thread -> ThreadType] /\ \A t \in Thread : thread[t] = Idle
  BY DEF Init, Idle, None, ThreadType
<1>2. Idle.handles = "nothing" /\ Idle.pc = "idle"
  BY DEF Idle
<1>3. TypeOK
  <2>1. 0 \in 0 .. MaxActive /\ 0 \in 0 .. MaxStarts /\ 0 \in 0 .. MaxPeriods
    BY BoundsAreNat
  <2>2. running \subseteq 1 .. loops /\ task \in Nat /\ loops \in Nat
    BY DEF Init, None
  <2> QED BY <1>1, <2>1, <2>2 DEF Init, TypeOK, ThreadType
<1>4. Shapes /\ Initialization
  BY <1>1, <1>2 DEF Init, Shapes, Shape, Initialization
<1>5. OneEvent /\ TaskKnows
  BY <1>1, <1>2 DEF Init, OneEvent, TaskKnows
<1>6. ~Visible
  BY <1>1, <1>2 DEF Init, Visible, Thread
<1>7. View
  BY <1>1, <1>2, <1>6 DEF Init, View, Steps
<1> QED BY <1>3, <1>4, <1>5, <1>7 DEF IInv

(* InitializationManager, before its event. *)
LEMMA InitializeIInv ==
    ASSUME IInv, OnAppStart \/ Initialized
    PROVE  IInv'
<1>1. /\ UNCHANGED <<activeActivityCounter, thread, registered, loop, bounds, overlapped>>
      /\ starter' # "over"
      /\ \/ starter = "start" /\ starter' = "wait" /\ initState' = "INITIALIZING"
         \/ starter = "wait" /\ starter' = "dispatch" /\ initState' = "INITIALIZED"
  BY DEF OnAppStart, Initialized
<1>2. initState # "INITIALIZED"
  BY <1>1 DEF IInv, Initialization
<1>3. TypeOK'
  BY <1>1 DEF IInv, TypeOK, loop, bounds
<1>4. Shapes'
  BY <1>1 DEF IInv, Shapes, Shape
<1>5. Initialization'
  BY <1>1, <1>2 DEF IInv, Initialization
<1>6. (OneEvent <=> OneEvent') /\ (TaskKnows <=> TaskKnows') /\ (Visible <=> Visible')
  BY <1>1 DEF OneEvent, Pair, TaskKnows, Visible, loop
<1>7. View => View'
  BY <1>1, <1>2, <1>6 DEF View, loop
<1> QED BY <1>1, <1>3, <1>4, <1>5, <1>6, <1>7 DEF IInv

(* A thread takes up an event: the others are at rest, or it is an overlap. *)
LEMMA TakeOverlap ==
    ASSUME NEW t \in Thread, NEW event, NEW first, Take(t, event, first), ~overlapped'
    PROVE  ~overlapped /\ \A u \in Thread : thread[u] = Idle
BY DEF Take

(* From a state without events: one thread comes to its first step. *)
LEMMA FromRest ==
    ASSUME TypeOK, NEW t \in Thread, NEW event, NEW first, Take(t, event, first),
           \A u \in Thread : thread[u] = Idle,
           first \in {"guard", "cancel"}, event \notin {"start", "nothing"},
           OneEvent, TaskKnows, UNCHANGED loop
    PROVE  /\ OneEvent' /\ TaskKnows'
           /\ thread'[t].handles = event /\ thread'[t].pc = first
           /\ \A u \in Thread \ {t} : thread'[u] = Idle
<1>1. /\ thread'[t] = [handles |-> event, pc |-> first, loop |-> None]
      /\ \A u \in Thread \ {t} : thread'[u] = Idle
  BY DEF Take, TypeOK
<1>2. OneEvent'
  BY <1>1 DEF OneEvent
<1>3. Idle.pc = "idle"
  BY DEF Idle
<1>4. TaskKnows'
  BY <1>1, <1>3 DEF TaskKnows, loop
<1> QED BY <1>1, <1>2, <1>4

(* AppInitEvent. *)
LEMMA DispatchInitIInv ==
    ASSUME IInv, DispatchInit
    PROVE  IInv'
<1>1. PICK l \in Listener : Take(l, "init", "guard")
  BY DEF DispatchInit, Dispatch
<1>2. /\ starter = "dispatch" /\ starter' = "over"
      /\ UNCHANGED <<initState, activeActivityCounter, registered, loop, bounds>>
  BY DEF DispatchInit
<1>3. l \in Thread /\ l # Main
  BY MainIsNotOfThePool DEF Thread
<1>4. /\ thread'[l] = [handles |-> "init", pc |-> "guard", loop |-> None]
      /\ \A u \in Thread \ {l} : thread'[u] = thread[u]
      /\ thread' \in [Thread -> ThreadType] /\ overlapped' \in BOOLEAN
  BY <1>1, <1>3 DEF Take, IInv, TypeOK, ThreadType, None
<1>5. TypeOK'
  BY <1>2, <1>4 DEF IInv, TypeOK, ThreadType, loop, bounds
<1>6. Shapes'
  BY <1>2, <1>3, <1>4 DEF IInv, Shapes, Shape
<1>7. Initialization'
  BY <1>2, <1>3, <1>4 DEF IInv, Initialization
<1>8. ASSUME ~overlapped'
      PROVE  OneEvent' /\ TaskKnows' /\ View'
  <2>1. ~overlapped /\ \A u \in Thread : thread[u] = Idle
    BY <1>1, <1>3, <1>8, TakeOverlap
  <2>2. OneEvent' /\ TaskKnows'
    BY <1>1, <1>2, <1>3, <2>1, FromRest DEF IInv
  <2>3. Idle.handles = "nothing" /\ Idle.pc = "idle"
    BY DEF Idle
  <2>4. Visible <=> Visible'
    BY <1>2, <1>3, <1>4 DEF Visible, Thread
  <2>5. \A u \in Thread : thread'[u].handles \in {"nothing", "init"} /\ thread'[u].pc \notin Steps
    BY <1>4, <2>1, <2>3 DEF Steps
  <2>6. \A u \in Thread : thread[u].handles # "stop"
    BY <2>1, <2>3
  <2>7. thread'[l].handles = "init"
    BY <1>4
  <2>8. View'
    BY <1>2, <1>3, <2>1, <2>4, <2>5, <2>6, <2>7 DEF IInv, View, loop
  <2> QED BY <2>2, <2>8
<1> QED BY <1>5, <1>6, <1>7, <1>8 DEF IInv

(* ActiveActivityTrackingService.activityStarted, of the first activity. *)
LEMMA FirstStartedIInv ==
    ASSUME IInv, ActivityStarted, activeActivityCounter = 0
    PROVE  IInv'
<1>1. PICK l \in Listener :
         /\ thread[l] = Idle
         /\ thread' = [thread EXCEPT
               ![l] = [handles |-> "resume", pc |-> "guard", loop |-> None],
               ![Main] = [handles |-> "start", pc |-> "count", loop |-> None]]
  BY DEF ActivityStarted
<1>2. /\ thread[Main] = Idle /\ starts < MaxStarts /\ starts' = starts + 1 /\ 0 < MaxActive
      /\ overlapped' = (overlapped \/ \E u \in Thread : thread[u] # Idle)
      /\ UNCHANGED <<activeActivityCounter, init, registered, loop, periods>>
  BY BoundsAreNat DEF ActivityStarted
<1>3. l \in Thread /\ l # Main /\ Main \in Thread
  BY MainIsNotOfThePool DEF Thread
<1>4. /\ thread'[l] = [handles |-> "resume", pc |-> "guard", loop |-> None]
      /\ thread'[Main] = [handles |-> "start", pc |-> "count", loop |-> None]
      /\ \A u \in Thread \ {l, Main} : thread'[u] = thread[u]
      /\ thread' \in [Thread -> ThreadType] /\ overlapped' \in BOOLEAN
  BY <1>1, <1>2, <1>3 DEF IInv, TypeOK, ThreadType, None
<1>5. starts' \in 0 .. MaxStarts
  BY <1>2, BoundsAreNat DEF IInv, TypeOK
<1>6. TypeOK'
  BY <1>2, <1>4, <1>5 DEF IInv, TypeOK, ThreadType, loop, init
<1>7. Shapes'
  BY <1>2, <1>3, <1>4 DEF IInv, Shapes, Shape
<1>8. Initialization'
  BY <1>2, <1>3, <1>4 DEF IInv, Initialization, init
<1>9. ASSUME ~overlapped'
      PROVE  OneEvent' /\ TaskKnows' /\ View'
  <2>1. ~overlapped /\ \A u \in Thread : thread[u] = Idle
    BY <1>2, <1>9
  <2>2. Idle.handles = "nothing" /\ Idle.pc = "idle"
    BY DEF Idle
  <2>3. \A u \in Thread \ {l, Main} : thread'[u] = Idle
    BY <1>4, <2>1
  <2>4. OneEvent'
    BY <1>3, <1>4, <2>3 DEF OneEvent, Pair
  <2>5. \A u \in Thread : /\ thread[u].pc = "idle" /\ thread[u].handles = "nothing"
                          /\ thread'[u].pc \in {"idle", "guard", "count"}
                          /\ thread'[u].handles \in {"nothing", "resume", "start"}
    BY <1>4, <2>1, <2>2, <2>3
  <2>6. TaskKnows'
    BY <1>2, <2>1, <2>5 DEF IInv, TaskKnows, loop
  <2>7. Visible' /\ ~Visible
    BY <1>2, <1>3, <1>4, <2>5 DEF Visible
  <2>8. running = {}
    BY <2>1, <2>5, <2>7 DEF IInv, View
  <2>9. thread'[l].handles = "resume"
    BY <1>4
  <2>10. View'
    BY <1>2, <1>3, <2>5, <2>7, <2>8, <2>9 DEF View, Steps, loop
  <2> QED BY <2>4, <2>6, <2>10
<1> QED BY <1>6, <1>7, <1>8, <1>9 DEF IInv

(* Steps of the activities that dispatch nothing: what is visible stays so. *)
LEMMA CountIInv ==
    ASSUME IInv, TypeOK', UNCHANGED <<init, registered, loop, overlapped>>,
           Visible, Visible', thread'[Main] = Idle,
           \A t \in Thread :
              thread'[t] = thread[t] \/ (t = Main /\ thread[t].handles = "start" /\ thread'[t] = Idle),
           OneEvent /\ View => \A t \in Thread : thread[t].handles # "stop"
    PROVE  IInv'
<1>1. Idle.handles = "nothing" /\ Idle.pc = "idle" /\ Main \in Thread
  BY DEF Idle, Thread
<1>2. Shapes'
  BY MainIsNotOfThePool DEF IInv, Shapes, Shape
<1>3. Initialization'
  BY <1>1 DEF IInv, Initialization, init
<1>4. OneEvent => OneEvent'
  BY DEF OneEvent, Pair
<1>5. \A t \in Thread : /\ thread'[t] = thread[t] \/ thread'[t].pc = "idle"
                        /\ thread'[t].pc \in {"schedule", "assign"} <=> thread[t].pc \in {"schedule", "assign"}
  BY <1>1 DEF IInv, Shapes, Shape, Steps
<1>6. TaskKnows => TaskKnows'
  <2>1. TaskKnows /\ (\A t \in Thread : thread'[t].pc \notin {"schedule", "assign"}) => running \subseteq {task}
    BY <1>5 DEF TaskKnows
  <2>2. TaskKnows => \A t \in Thread : /\ thread'[t].pc = "schedule" => running = {}
                                       /\ thread'[t].pc = "assign" => running = {thread'[t].loop}
    BY <1>5 DEF TaskKnows
  <2> QED BY <2>1, <2>2 DEF TaskKnows, loop
<1>7. \A t \in Thread :
         /\ thread'[t].handles \in {"nothing", "start"} <=> thread[t].handles \in {"nothing", "start"}
         /\ thread'[t].handles = thread[t].handles \/ thread'[t].handles = "nothing"
         /\ thread'[t].pc = thread[t].pc \/ thread'[t].pc = "idle"
  BY <1>1
<1>8. ASSUME OneEvent, View PROVE View'
  <2>1. \A t \in Thread : thread[t].handles # "stop" /\ thread'[t].handles # "stop"
    BY <1>7, <1>8
  <2>2. running' = running /\ initState' = initState /\ starter' = starter
    BY DEF loop, init
  <2>3. running # {} => initState = "INITIALIZED"
    BY <1>8, <2>1 DEF View
  <2>4. (\A t \in Thread : thread'[t].handles \in {"nothing", "start"}) /\ starter = "over" => running # {}
    BY <1>7, <1>8 DEF View
  <2>5. \A t \in Thread : thread'[t].pc \in Steps => initState = "INITIALIZED"
    BY <1>7, <1>8, <2>1 DEF View, Steps
  <2> QED BY <2>1, <2>2, <2>3, <2>4, <2>5 DEF View
<1> QED BY <1>2, <1>3, <1>4, <1>6, <1>8 DEF IInv

(* activityStarted, of another activity. *)
LEMMA AlsoStartedIInv ==
    ASSUME IInv, ActivityStarted, activeActivityCounter # 0
    PROVE  IInv'
<1>1. /\ activeActivityCounter > 0 /\ activeActivityCounter < MaxActive /\ thread[Main] = Idle
      /\ activeActivityCounter' = activeActivityCounter + 1
      /\ starts < MaxStarts /\ starts' = starts + 1
      /\ UNCHANGED <<thread, init, registered, loop, periods, overlapped>>
  BY DEF ActivityStarted
<1>2. activeActivityCounter' \in 0 .. MaxActive /\ activeActivityCounter' > 0 /\ starts' \in 0 .. MaxStarts
  BY <1>1, BoundsAreNat DEF IInv, TypeOK
<1>3. TypeOK'
  BY <1>1, <1>2 DEF IInv, TypeOK, init, loop
<1>4. Visible /\ Visible'
  BY <1>1, <1>2 DEF Visible
<1>5. View => \A t \in Thread : thread[t].handles # "stop"
  BY <1>1 DEF View
<1> QED BY <1>1, <1>3, <1>4, <1>5, CountIInv

(* The end of activityStarted. *)
LEMMA CountedIInv ==
    ASSUME IInv, ActivityCounted
    PROVE  IInv'
<1>1. /\ thread[Main].pc = "count" /\ activeActivityCounter' = activeActivityCounter + 1
      /\ thread' = [thread EXCEPT ![Main] = Idle]
      /\ UNCHANGED <<init, registered, loop, bounds, overlapped>>
  BY DEF ActivityCounted, Return
<1>2. Main \in Thread /\ Idle.pc = "idle" /\ Idle.handles = "nothing"
  BY DEF Thread, Idle
<1>3. thread[Main].handles = "start" /\ activeActivityCounter < MaxActive /\ thread[Main] # Idle
  BY <1>1, <1>2 DEF IInv, Shapes, Shape, Steps
<1>4. thread'[Main] = Idle /\ \A t \in Thread \ {Main} : thread'[t] = thread[t]
  BY <1>1, <1>2 DEF IInv, TypeOK
<1>5. Idle \in ThreadType
  BY DEF Idle, None, ThreadType
<1>6. thread' \in [Thread -> ThreadType]
  BY <1>1, <1>5 DEF IInv, TypeOK, ThreadType
<1>7. activeActivityCounter' \in 0 .. MaxActive /\ activeActivityCounter' > 0
  BY <1>1, <1>3, BoundsAreNat DEF IInv, TypeOK
<1>8. TypeOK'
  BY <1>1, <1>6, <1>7 DEF IInv, TypeOK, ThreadType, init, loop, bounds
<1>9. Visible /\ Visible'
  BY <1>1, <1>7 DEF Visible
<1>10. OneEvent => \A t \in Thread : thread[t].handles # "stop"
  <2> SUFFICES ASSUME OneEvent, NEW t \in Thread, thread[t].handles = "stop" PROVE FALSE
    OBVIOUS
  <2>1. t # Main /\ thread[t] # Idle
    BY <1>2, <1>3
  <2>2. Pair(t, Main) \/ Pair(Main, t)
    BY <1>2, <1>3, <2>1 DEF OneEvent
  <2> QED BY <2>1, <2>2 DEF Pair
<1> QED BY <1>1, <1>3, <1>4, <1>8, <1>9, <1>10, CountIInv

(* activityStopped, of an activity that is not the last. *)
LEMMA AlsoStoppedIInv ==
    ASSUME IInv, ActivityStopped, activeActivityCounter # 1
    PROVE  IInv'
<1>1. /\ activeActivityCounter > 1 /\ thread[Main] = Idle
      /\ activeActivityCounter' = activeActivityCounter - 1
      /\ UNCHANGED <<thread, init, registered, loop, bounds, overlapped>>
  BY DEF ActivityStopped
<1>2. activeActivityCounter' \in 0 .. MaxActive /\ activeActivityCounter' > 0
  BY <1>1, BoundsAreNat DEF IInv, TypeOK
<1>3. TypeOK'
  BY <1>1, <1>2 DEF IInv, TypeOK, init, loop, bounds
<1>4. Visible /\ Visible'
  <2>1. activeActivityCounter > 0
    BY <1>1 DEF IInv, TypeOK
  <2> QED BY <1>2, <2>1 DEF Visible
<1>5. View => \A t \in Thread : thread[t].handles # "stop"
  <2>1. activeActivityCounter # 0
    BY <1>1
  <2> QED BY <2>1 DEF View
<1> QED BY <1>1, <1>3, <1>4, <1>5, CountIInv

(* activityStopped, of the last activity. *)
LEMMA LastStoppedIInv ==
    ASSUME IInv, ActivityStopped, activeActivityCounter = 1
    PROVE  IInv'
<1>1. PICK l \in Listener : Take(l, "stop", "cancel")
  BY DEF ActivityStopped, Dispatch
<1>2. /\ thread[Main] = Idle /\ activeActivityCounter' = 0
      /\ UNCHANGED <<init, registered, loop, bounds>>
  BY DEF ActivityStopped
<1>3. l \in Thread /\ l # Main /\ Main \in Thread
  BY MainIsNotOfThePool DEF Thread
<1>4. /\ thread'[l] = [handles |-> "stop", pc |-> "cancel", loop |-> None]
      /\ \A u \in Thread \ {l} : thread'[u] = thread[u]
      /\ thread' \in [Thread -> ThreadType] /\ overlapped' \in BOOLEAN
  BY <1>1, <1>3 DEF Take, IInv, TypeOK, ThreadType, None
<1>5. TypeOK'
  BY <1>2, <1>4, BoundsAreNat DEF IInv, TypeOK, ThreadType, init, loop, bounds
<1>6. Shapes'
  BY <1>2, <1>3, <1>4 DEF IInv, Shapes, Shape
<1>7. Initialization'
  BY <1>2, <1>3, <1>4 DEF IInv, Initialization, init
<1>8. ASSUME ~overlapped'
      PROVE  OneEvent' /\ TaskKnows' /\ View'
  <2>1. ~overlapped /\ \A u \in Thread : thread[u] = Idle
    BY <1>1, <1>3, <1>8, TakeOverlap
  <2>2. OneEvent' /\ TaskKnows'
    BY <1>1, <1>2, <1>3, <2>1, FromRest DEF IInv
  <2>3. Idle.handles = "nothing" /\ Idle.pc = "idle"
    BY DEF Idle
  <2>4. \A u \in Thread : thread'[u].handles \in {"nothing", "stop"}
                          /\ (thread'[u].handles = "nothing" => thread'[u].pc = "idle")
    BY <1>4, <2>1, <2>3
  <2>5. thread'[l].handles = "stop"
    BY <1>4
  <2>6. View'
    BY <1>2, <1>3, <2>4, <2>5 DEF View, Steps
  <2> QED BY <2>2, <2>6
<1> QED BY <1>5, <1>6, <1>7, <1>8 DEF IInv

(* AppController.prefChangeListener. *)
LEMMA PeriodChangedIInv ==
    ASSUME IInv, PeriodChanged
    PROVE  IInv'
<1>1. /\ Take(Main, "period", "cancel") /\ registered /\ activeActivityCounter > 0
      /\ periods < MaxPeriods /\ periods' = periods + 1
      /\ UNCHANGED <<init, activeActivityCounter, registered, loop, starts>>
  BY DEF PeriodChanged, PeriodChangedTo
<1>2. Main \in Thread /\ Main \notin Listener
  BY MainIsNotOfThePool DEF Thread
<1>3. /\ thread'[Main] = [handles |-> "period", pc |-> "cancel", loop |-> None]
      /\ \A u \in Thread \ {Main} : thread'[u] = thread[u]
      /\ thread' \in [Thread -> ThreadType] /\ overlapped' \in BOOLEAN
  BY <1>1, <1>2 DEF Take, IInv, TypeOK, ThreadType, None
<1>4. periods' \in 0 .. MaxPeriods
  BY <1>1, BoundsAreNat DEF IInv, TypeOK
<1>5. TypeOK'
  BY <1>1, <1>3, <1>4 DEF IInv, TypeOK, ThreadType, init, loop
<1>6. Shapes'
  BY <1>1, <1>2, <1>3 DEF IInv, Shapes, Shape, Steps
<1>7. Initialization'
  BY <1>1, <1>2, <1>3 DEF IInv, Initialization, init
<1>8. ASSUME ~overlapped'
      PROVE  OneEvent' /\ TaskKnows' /\ View'
  <2>1. ~overlapped /\ \A u \in Thread : thread[u] = Idle
    BY <1>1, <1>2, <1>8, TakeOverlap
  <2>2. OneEvent' /\ TaskKnows'
    BY <1>1, <1>2, <2>1, FromRest DEF IInv
  <2>3. Idle.handles = "nothing" /\ Idle.pc = "idle"
    BY DEF Idle
  <2>4. \A u \in Thread : thread'[u].handles \in {"nothing", "period"}
    BY <1>3, <2>1, <2>3
  <2>5. Visible' /\ initState' = "INITIALIZED"
    BY <1>1 DEF Visible, IInv, Initialization, init
  <2>6. thread'[Main].handles = "period"
    BY <1>3
  <2>7. View'
    BY <1>2, <2>4, <2>5, <2>6 DEF View
  <2> QED BY <2>2, <2>7
<1> QED BY <1>5, <1>6, <1>7, <1>8 DEF IInv

(* Who else is in the middle of something, without overlaps. *)
LEMMA Sole ==
    ASSUME Shapes, OneEvent, NEW t \in Thread, thread[t] # Idle, thread[t].handles # "start",
           NEW u \in Thread \ {t}, thread[u] # Idle
    PROVE  /\ u = Main /\ thread[u].handles = "start" /\ thread[u].pc = "count"
           /\ thread[t].handles = "resume"
<1>1. Pair(t, u) \/ Pair(u, t)
  BY DEF OneEvent
<1>2. u = Main /\ thread[u].handles = "start" /\ thread[t].handles = "resume"
  BY <1>1 DEF Pair
<1> QED BY <1>2 DEF Shapes, Shape

(* Where a thread is at a step of its own, no other is. *)
LEMMA NoOther ==
    ASSUME Shapes, OneEvent, NEW t \in Thread, thread[t].pc \in {"guard"} \cup Steps
    PROVE  /\ thread[t] # Idle /\ thread[t].handles # "start"
           /\ \A u \in Thread \ {t} :
                 thread[u].pc \in {"idle", "count"} /\ thread[u].handles \in {"nothing", "start"}
<1>1. Idle.pc = "idle" /\ Idle.handles = "nothing"
  BY DEF Idle
<1>2. thread[t] # Idle /\ thread[t].handles # "start"
  BY <1>1 DEF Shapes, Shape, Steps
<1>3. ASSUME NEW u \in Thread \ {t}
      PROVE  thread[u].pc \in {"idle", "count"} /\ thread[u].handles \in {"nothing", "start"}
  <2>1. CASE thread[u] = Idle
    BY <1>1, <2>1
  <2>2. CASE thread[u] # Idle
    BY <1>2, <2>2, Sole
  <2> QED BY <2>1, <2>2
<1> QED BY <1>2, <1>3

(* A thread that moves on or returns is the event it was. *)
LEMMA MoveOneEvent ==
    ASSUME OneEvent, NEW t \in Thread, thread[t] # Idle,
           thread'[t] = Idle \/ thread'[t].handles = thread[t].handles,
           \A u \in Thread \ {t} : thread'[u] = thread[u]
    PROVE  OneEvent'
BY DEF OneEvent, Pair

(* onAppResume and onAppInit: what is asked before the loop. *)
LEMMA GuardIInv ==
    ASSUME IInv, NEW t \in Thread, Guard(t)
    PROVE  IInv'
<1>1. /\ thread[t].pc = "guard" /\ registered' = (registered \/ thread[t].handles = "init")
      /\ UNCHANGED <<init, activeActivityCounter, loop, bounds, overlapped>>
      /\ \/ Wanted(thread[t].handles) /\ thread' = [thread EXCEPT ![t].pc = "cancel"]
         \/ ~Wanted(thread[t].handles) /\ thread' = [thread EXCEPT ![t] = Idle]
  BY DEF Guard, Goto, Return
<1>2. /\ Idle.pc = "idle" /\ Idle.handles = "nothing" /\ Idle \in ThreadType
  BY DEF Idle, ThreadType, None
<1>3. thread[t].handles \in {"init", "resume"} /\ t \in Listener /\ t # Main /\ Main \in Thread
  BY <1>1, <1>2, MainIsNotOfThePool DEF IInv, Shapes, Shape, Steps, Thread
<1>4. /\ \A u \in Thread \ {t} : thread'[u] = thread[u]
      /\ thread' \in [Thread -> ThreadType]
      /\ \/ /\ Wanted(thread[t].handles)
            /\ thread'[t].pc = "cancel" /\ thread'[t].handles = thread[t].handles
         \/ ~Wanted(thread[t].handles) /\ thread'[t] = Idle
  BY <1>1, <1>2 DEF IInv, TypeOK, ThreadType
<1>5. registered' \in BOOLEAN
  BY <1>1 DEF IInv, TypeOK
<1>6. TypeOK'
  BY <1>1, <1>4, <1>5 DEF IInv, TypeOK, ThreadType, init, loop, bounds
<1>7. Shapes'
  BY <1>1, <1>3, <1>4 DEF IInv, Shapes, Shape, Steps
<1>8. Initialization'
  BY <1>1, <1>2, <1>4 DEF IInv, Initialization, init
<1>9. ASSUME ~overlapped
      PROVE  OneEvent' /\ TaskKnows' /\ View'
  <2>1. /\ OneEvent /\ TaskKnows /\ View /\ thread[t] # Idle
        /\ \A u \in Thread \ {t} :
              thread[u].pc \in {"idle", "count"} /\ thread[u].handles \in {"nothing", "start"}
    BY <1>1, <1>9, NoOther DEF IInv
  <2>2. OneEvent'
    BY <1>4, <2>1, MoveOneEvent
  <2>3. \A u \in Thread : /\ thread[u].pc \notin {"schedule", "assign"}
                          /\ thread'[u].pc \notin {"schedule", "assign"}
    BY <1>1, <1>2, <1>4, <2>1
  <2>4. TaskKnows'
    BY <1>1, <2>1, <2>3 DEF TaskKnows, loop
  <2>5. /\ Visible' <=> Visible
        /\ running' = running /\ initState' = initState /\ starter' = starter
        /\ activeActivityCounter' = activeActivityCounter
    BY <1>1, <1>3, <1>4 DEF Visible, loop, init
  <2>6. running # {} => Visible /\ initState = "INITIALIZED"
    BY <1>3, <2>1 DEF View
  <2>7. \A u \in Thread : thread'[u].handles # "stop"
    BY <1>2, <1>3, <1>4, <2>1
  <2>8. CASE Wanted(thread[t].handles)
    <3>1. thread'[t].pc = "cancel" /\ thread'[t].handles = thread[t].handles
      BY <1>4, <2>8
    <3>2. Visible /\ initState = "INITIALIZED"
      BY <1>3, <2>1, <2>8 DEF Wanted, View, Visible, IInv, Initialization
    <3>3. \A u \in Thread \ {t} : thread'[u].pc \notin Steps /\ thread'[u].handles # "resume"
      BY <1>4, <2>1 DEF Steps
    <3>4. \E u \in Thread : thread'[u].handles \notin {"nothing", "start"}
      BY <1>3, <3>1
    <3> QED BY <2>2, <2>4, <2>5, <2>7, <3>2, <3>3, <3>4 DEF View
  <2>9. CASE ~Wanted(thread[t].handles)
    <3>1. \A u \in Thread : thread'[u].handles \in {"nothing", "start"} /\ thread'[u].pc \notin Steps
      BY <1>2, <1>4, <2>1, <2>9 DEF Steps
    <3>2. ~(starter = "over" /\ Visible)
      <4>1. CASE thread[t].handles = "resume"
        BY <2>9, <4>1 DEF Wanted, IInv, Initialization
      <4>2. CASE thread[t].handles = "init"
        <5>1. ~(activeActivityCounter > 0)
          BY <2>9, <4>2 DEF Wanted
        <5>2. thread[Main] = Idle
          BY <1>1, <1>3, <2>1, <4>2, Sole DEF IInv
        <5> QED BY <1>2, <5>1, <5>2 DEF Visible
      <4> QED BY <1>3, <4>1, <4>2
    <3>3. \A u \in Thread : thread'[u].handles # "resume" /\ thread'[u].handles # "stop"
      BY <3>1
    <3> QED BY <2>2, <2>4, <2>5, <2>6, <3>1, <3>2, <3>3 DEF View
  <2> QED BY <2>8, <2>9
<1> QED BY <1>1, <1>6, <1>7, <1>8, <1>9 DEF IInv

(* task?.cancel(true) *)
LEMMA CancelIInv ==
    ASSUME IInv, NEW t \in Thread, Cancel(t)
    PROVE  IInv'
<1>1. /\ thread[t].pc = "cancel" /\ running' = running \ {task}
      /\ UNCHANGED <<init, activeActivityCounter, registered, task, loops, bounds, overlapped>>
      /\ \/ thread[t].handles # "stop" /\ thread' = [thread EXCEPT ![t].pc = "schedule"]
         \/ thread[t].handles = "stop" /\ thread' = [thread EXCEPT ![t] = Idle]
  BY DEF Cancel, Goto, Return
<1>2. /\ Idle.pc = "idle" /\ Idle.handles = "nothing" /\ Idle \in ThreadType
  BY DEF Idle, ThreadType, None
<1>3. /\ thread[t].handles \in {"init", "resume", "period", "stop"}
      /\ thread[t].handles = "stop" => t # Main
      /\ Main \in Thread
  BY <1>1, <1>2, MainIsNotOfThePool DEF IInv, Shapes, Shape, Steps, Thread
<1>4. /\ \A u \in Thread \ {t} : thread'[u] = thread[u]
      /\ thread' \in [Thread -> ThreadType]
      /\ \/ /\ thread[t].handles # "stop"
            /\ thread'[t].pc = "schedule" /\ thread'[t].handles = thread[t].handles
         \/ thread[t].handles = "stop" /\ thread'[t] = Idle
  BY <1>1, <1>2 DEF IInv, TypeOK, ThreadType
<1>5. TypeOK'
  BY <1>1, <1>4 DEF IInv, TypeOK, ThreadType, init, bounds
<1>6. Shapes'
  BY <1>1, <1>2, <1>4 DEF IInv, Shapes, Shape, Steps
<1>7. Initialization'
  BY <1>1, <1>2, <1>4 DEF IInv, Initialization, init
<1>8. ASSUME ~overlapped
      PROVE  OneEvent' /\ TaskKnows' /\ View'
  <2>1. /\ OneEvent /\ TaskKnows /\ View /\ thread[t] # Idle
        /\ \A u \in Thread \ {t} :
              thread[u].pc \in {"idle", "count"} /\ thread[u].handles \in {"nothing", "start"}
    BY <1>1, <1>8, NoOther DEF IInv, Steps
  <2>2. OneEvent'
    BY <1>4, <2>1, MoveOneEvent
  <2>3. running' = {}
    BY <1>1, <2>1 DEF TaskKnows
  <2>4. \A u \in Thread : thread'[u].pc # "assign"
    BY <1>2, <1>4, <2>1
  <2>5. TaskKnows'
    BY <2>3, <2>4 DEF TaskKnows
  <2>6. CASE thread[t].handles # "stop"
    <3>1. thread'[t].pc = "schedule" /\ thread'[t].handles = thread[t].handles
      BY <1>4, <2>6
    <3>2. Visible /\ initState = "INITIALIZED"
      BY <1>1, <2>1, <2>6 DEF View, Steps
    <3>3. Visible'
      BY <1>1, <1>3, <1>4, <3>2 DEF Visible
    <3>4. \A u \in Thread : thread'[u].handles # "stop"
      BY <1>4, <2>1, <2>6, <3>1
    <3>5. initState' = "INITIALIZED"
      BY <1>1, <3>2 DEF init
    <3>6. \E u \in Thread : thread'[u].handles \notin {"nothing", "start"}
      BY <1>3, <2>6, <3>1
    <3> QED BY <2>2, <2>3, <2>5, <3>3, <3>4, <3>5, <3>6 DEF View
  <2>7. CASE thread[t].handles = "stop"
    <3>1. activeActivityCounter = 0 /\ thread[Main] = Idle
      BY <1>1, <1>3, <2>1, <2>7, Sole DEF IInv, View
    <3>2. ~Visible'
      BY <1>1, <1>2, <1>3, <1>4, <2>7, <3>1 DEF Visible
    <3>3. \A u \in Thread : thread'[u].handles \in {"nothing", "start"} /\ thread'[u].pc \notin Steps
      BY <1>2, <1>4, <2>1, <2>7 DEF Steps
    <3>4. \A u \in Thread : thread'[u].handles # "resume" /\ thread'[u].handles # "stop"
      BY <3>3
    <3> QED BY <2>2, <2>3, <2>5, <3>2, <3>3, <3>4 DEF View
  <2> QED BY <2>6, <2>7
<1> QED BY <1>1, <1>5, <1>6, <1>7, <1>8 DEF IInv

(* scheduleQueueTask *)
LEMMA ScheduleIInv ==
    ASSUME IInv, NEW t \in Thread, Schedule(t)
    PROVE  IInv'
<1>1. /\ thread[t].pc = "schedule" /\ loops' = loops + 1 /\ running' = running \cup {loops + 1}
      /\ thread' = [thread EXCEPT ![t].pc = "assign", ![t].loop = loops + 1]
      /\ UNCHANGED <<init, activeActivityCounter, registered, task, bounds, overlapped>>
  BY DEF Schedule
<1>2. Idle.pc = "idle" /\ Idle.handles = "nothing"
  BY DEF Idle
<1>3. thread[t].handles \in {"init", "resume", "period"} /\ Main \in Thread
  BY <1>1, <1>2 DEF IInv, Shapes, Shape, Steps, Thread
<1>4. /\ \A u \in Thread \ {t} : thread'[u] = thread[u]
      /\ thread' \in [Thread -> ThreadType]
      /\ thread'[t].pc = "assign" /\ thread'[t].handles = thread[t].handles
      /\ thread'[t].loop = loops + 1
  <2> DEFINE next == [thread[t] EXCEPT !.pc = "assign", !.loop = loops + 1]
  <2>1. thread[t] \in ThreadType /\ loops + 1 \in Nat
    BY DEF IInv, TypeOK, ThreadType
  <2>2. /\ next \in ThreadType /\ next.pc = "assign" /\ next.loop = loops + 1
        /\ next.handles = thread[t].handles
    BY <2>1 DEF ThreadType
  <2>3. thread' = [thread EXCEPT ![t] = next]
    BY <1>1, <2>1 DEF IInv, TypeOK, ThreadType
  <2> HIDE DEF next
  <2> QED BY <2>2, <2>3 DEF IInv, TypeOK, ThreadType
<1>5. running' \subseteq 1 .. loops' /\ loops' \in Nat
  BY <1>1 DEF IInv, TypeOK
<1>6. TypeOK'
  BY <1>1, <1>4, <1>5 DEF IInv, TypeOK, ThreadType, init, bounds
<1>7. Shapes'
  BY <1>1, <1>2, <1>4 DEF IInv, Shapes, Shape, Steps
<1>8. Initialization'
  BY <1>1, <1>4 DEF IInv, Initialization, init
<1>9. ASSUME ~overlapped
      PROVE  OneEvent' /\ TaskKnows' /\ View'
  <2>1. /\ OneEvent /\ TaskKnows /\ View /\ thread[t] # Idle
        /\ \A u \in Thread \ {t} :
              thread[u].pc \in {"idle", "count"} /\ thread[u].handles \in {"nothing", "start"}
    BY <1>1, <1>9, NoOther DEF IInv, Steps
  <2>2. OneEvent'
    BY <1>4, <2>1, MoveOneEvent
  <2>3. running' = {loops + 1}
    BY <1>1, <2>1 DEF TaskKnows
  <2>4. \A u \in Thread \ {t} : thread'[u].pc \in {"idle", "count"}
    BY <1>4, <2>1
  <2>5. TaskKnows'
    BY <1>4, <2>3, <2>4 DEF TaskKnows
  <2>6. Visible /\ initState = "INITIALIZED"
    BY <1>1, <1>3, <2>1 DEF View, Steps
  <2>7. Visible'
    BY <1>1, <1>3, <1>4, <2>6 DEF Visible
  <2>8. \A u \in Thread : thread'[u].handles # "stop"
    BY <1>3, <1>4, <2>1
  <2>9. View'
    BY <1>1, <1>3, <1>4, <2>3, <2>6, <2>7, <2>8 DEF View, init
  <2> QED BY <2>2, <2>5, <2>9
<1> QED BY <1>1, <1>6, <1>7, <1>8, <1>9 DEF IInv

(* "task =" *)
LEMMA AssignIInv ==
    ASSUME IInv, NEW t \in Thread, Assign(t)
    PROVE  IInv'
<1>1. /\ thread[t].pc = "assign" /\ task' = thread[t].loop /\ thread' = [thread EXCEPT ![t] = Idle]
      /\ UNCHANGED <<init, activeActivityCounter, registered, running, loops, bounds, overlapped>>
  BY DEF Assign, Return
<1>2. Idle.pc = "idle" /\ Idle.handles = "nothing" /\ Idle \in ThreadType
  BY DEF Idle, ThreadType, None
<1>3. thread[t].handles \in {"init", "resume", "period"} /\ Main \in Thread
  BY <1>1, <1>2 DEF IInv, Shapes, Shape, Steps, Thread
<1>4. /\ \A u \in Thread \ {t} : thread'[u] = thread[u]
      /\ thread' \in [Thread -> ThreadType] /\ thread'[t] = Idle
  BY <1>1, <1>2 DEF IInv, TypeOK, ThreadType
<1>5. task' \in Nat
  BY <1>1 DEF IInv, TypeOK
<1>6. TypeOK'
  BY <1>1, <1>4, <1>5 DEF IInv, TypeOK, ThreadType, init, bounds
<1>7. Shapes'
  BY <1>1, <1>4 DEF IInv, Shapes, Shape
<1>8. Initialization'
  BY <1>1, <1>2, <1>4 DEF IInv, Initialization, init
<1>9. ASSUME ~overlapped
      PROVE  OneEvent' /\ TaskKnows' /\ View'
  <2>1. /\ OneEvent /\ TaskKnows /\ View /\ thread[t] # Idle
        /\ \A u \in Thread \ {t} :
              thread[u].pc \in {"idle", "count"} /\ thread[u].handles \in {"nothing", "start"}
    BY <1>1, <1>9, NoOther DEF IInv, Steps
  <2>2. OneEvent'
    BY <1>4, <2>1, MoveOneEvent
  <2>3. running' = {task'}
    BY <1>1, <2>1 DEF TaskKnows
  <2>4. \A u \in Thread : /\ thread'[u].pc \in {"idle", "count"}
                          /\ thread'[u].handles \in {"nothing", "start"}
    BY <1>2, <1>4, <2>1
  <2>5. TaskKnows'
    BY <2>3, <2>4 DEF TaskKnows
  <2>6. Visible /\ initState = "INITIALIZED"
    BY <1>1, <1>3, <2>1 DEF View, Steps
  <2>7. Visible'
    <3>1. t = Main => activeActivityCounter > 0
      BY <1>1, <1>2, MainIsNotOfThePool DEF IInv, Shapes, Shape, Steps
    <3> QED BY <1>1, <1>3, <1>4, <2>6, <3>1 DEF Visible
  <2>8. View'
    BY <1>1, <2>3, <2>4, <2>6, <2>7 DEF View, Steps, init
  <2> QED BY <2>2, <2>5, <2>8
<1> QED BY <1>1, <1>6, <1>7, <1>8, <1>9 DEF IInv

(* Every step. *)
LEMMA NextIInv == IInv /\ [Next]_vars => IInv'
<1> SUFFICES ASSUME IInv, [Next]_vars PROVE IInv'
  OBVIOUS
<1>1. CASE OnAppStart \/ Initialized
  BY <1>1, InitializeIInv
<1>2. CASE DispatchInit
  BY <1>2, DispatchInitIInv
<1>3. CASE ActivityStarted
  BY <1>3, FirstStartedIInv, AlsoStartedIInv
<1>4. CASE ActivityCounted
  BY <1>4, CountedIInv
<1>5. CASE ActivityStopped
  BY <1>5, LastStoppedIInv, AlsoStoppedIInv
<1>6. CASE PeriodChanged
  BY <1>6, PeriodChangedIInv
<1>7. ASSUME NEW t \in Thread, Guard(t) \/ Cancel(t) \/ Schedule(t) \/ Assign(t)
      PROVE  IInv'
  BY <1>7, GuardIInv, CancelIInv, ScheduleIInv, AssignIInv
<1>8. CASE UNCHANGED vars
  <2>1. UNCHANGED <<initState, starter, activeActivityCounter, thread, registered, task, running,
                    loops, starts, periods, overlapped>>
    BY <1>8 DEF vars, init, loop, bounds
  <2>2. TypeOK' /\ Shapes' /\ Initialization'
    BY <2>1 DEF IInv, TypeOK, Shapes, Shape, Initialization
  <2>3. (OneEvent => OneEvent') /\ (TaskKnows => TaskKnows') /\ (View => View')
    BY <2>1 DEF OneEvent, Pair, TaskKnows, View, Visible
  <2> QED BY <2>1, <2>2, <2>3 DEF IInv
<1> QED BY <1>1, <1>2, <1>3, <1>4, <1>5, <1>6, <1>7, <1>8 DEF Next

(* The inductive invariant. *)
LEMMA Invariance == Spec => []IInv
BY InitIInv, NextIInv, PTL DEF Spec

(* RefreshLoop: every variable keeps its type. *)
THEOREM TypeCorrect == Spec => []TypeOK
<1>1. IInv => TypeOK
  BY DEF IInv
<1> QED BY <1>1, Invariance, PTL

(* AppController: without overlapping events, for any number of activities and *)
(* changes of the period, the next cancel ends the only loop there is.         *)
THEOREM LoopsAreKnown == Spec => []OneLoop
<1>1. IInv => OneLoop
  <2> SUFFICES ASSUME IInv, Quiet, ~overlapped PROVE running \subseteq {task}
    BY DEF OneLoop
  <2>1. \A t \in Thread : thread[t].pc = "idle"
    BY DEF Quiet, Idle
  <2> QED BY <2>1 DEF IInv, TaskKnows
<1> QED BY <1>1, Invariance, PTL

(* AppController, ActiveActivityTrackingService: without overlapping events the *)
(* loop runs between events if and only if the application is visible and       *)
(* initialized.                                                                 *)
THEOREM LoopIsForTheView == Spec => []LoopFollowsView
<1>1. IInv => LoopFollowsView
  <2> SUFFICES ASSUME IInv, Quiet, ~overlapped
               PROVE  running # {} <=> activeActivityCounter > 0 /\ initState = "INITIALIZED"
    BY DEF LoopFollowsView
  <2>1. \A t \in Thread : thread[t].handles = "nothing" /\ thread[t].pc = "idle"
    BY DEF Quiet, Idle
  <2>2. Visible <=> activeActivityCounter > 0
    BY <2>1 DEF Visible, Thread
  <2>3. initState = "INITIALIZED" <=> starter = "over"
    BY DEF Quiet, IInv, Initialization
  <2> QED BY <2>1, <2>2, <2>3 DEF IInv, View
<1> QED BY <1>1, Invariance, PTL
=============================================================================
