----------------------------- MODULE RefreshLoop -----------------------------
(***************************************************************************)
(* When the Android client asks for the queue again and again: the start of *)
(* the application (InitializationManager), the activities that come and go *)
(* (ActiveActivityTrackingService, called by every activity's onStart and   *)
(* onStop), the refresh period of the preferences, and the listeners of     *)
(* AppController that cancel and schedule the loop.                         *)
(*                                                                          *)
(* dispatchEvent launches each listener on a pool of threads and returns    *)
(* before it has run: listeners run in any order and their steps interleave.*)
(* A field read by two threads is read as it was last written.  The         *)
(* initialization is not cancelled.                                         *)
(***************************************************************************)
EXTENDS Naturals, FiniteSets

CONSTANTS Listener,    \* bound: listeners of AppController at work at once
          Main,        \* the main thread
          MaxStarts,   \* bound: calls of activityStarted
          MaxActive,   \* bound: activities between onStart and onStop at once
          MaxPeriods   \* bound: changes of the refresh period

ASSUME BoundsAreNat == {MaxStarts, MaxActive, MaxPeriods} \subseteq Nat
ASSUME MainIsNotOfThePool == Main \notin Listener

Thread == Listener \cup {Main}

VARIABLES initState,   \* InitializationManager.initState
          starter,     \* the thread that completes the initialization
          activeActivityCounter,
          thread,      \* what each thread handles, its next step, the loop it scheduled
          registered,  \* prefChangeListener is registered
          task,        \* AppController.task: a loop, or None
          running,     \* the loops scheduled and not cancelled
          loops,       \* how many were ever scheduled: names the next
          starts, periods,   \* for the bounds
          overlapped   \* history: an event came while another was handled

init == <<initState, starter>>
bounds == <<starts, periods>>
loop == <<task, running, loops>>
vars == <<init, activeActivityCounter, thread, registered, loop, bounds, overlapped>>

None == 0
Idle == [handles |-> "nothing", pc |-> "idle", loop |-> None]

Quiet == starter # "dispatch" /\ \A t \in Thread : thread[t] = Idle

-----------------------------------------------------------------------------

(* A thread takes up an event, at the first step of what handles it. *)
Take(t, event, first) ==
    /\ thread[t] = Idle
    /\ thread' = [thread EXCEPT ![t] = [handles |-> event, pc |-> first, loop |-> None]]
    /\ overlapped' = (overlapped \/ \E u \in Thread : thread[u] # Idle)

Goto(t, pc) == thread' = [thread EXCEPT ![t].pc = pc]
Return(t) == thread' = [thread EXCEPT ![t] = Idle]

(* EventManager.dispatchEvent *)
Dispatch(event, first) == \E l \in Listener : Take(l, event, first)

-----------------------------------------------------------------------------
(* InitializationManager: onAppStart, and the completion of what it launches *)

OnAppStart ==
    /\ starter = "start"
    /\ initState' = "INITIALIZING" /\ starter' = "wait"
    /\ UNCHANGED <<activeActivityCounter, thread, registered, loop, bounds, overlapped>>

Initialized ==
    /\ starter = "wait"
    /\ initState' = "INITIALIZED" /\ starter' = "dispatch"
    /\ UNCHANGED <<activeActivityCounter, thread, registered, loop, bounds, overlapped>>

DispatchInit ==
    /\ starter = "dispatch"
    /\ Dispatch("init", "guard")
    /\ starter' = "over"
    /\ UNCHANGED <<initState, activeActivityCounter, registered, loop, bounds>>

-----------------------------------------------------------------------------
(* ActiveActivityTrackingService, on the main thread *)

(* The event goes out before the activity is counted: Main is then in the    *)
(* middle of activityStarted.                                                *)
ActivityStarted ==
    /\ thread[Main] = Idle
    /\ starts < MaxStarts /\ activeActivityCounter < MaxActive
    /\ starts' = starts + 1
    /\ \/ /\ activeActivityCounter = 0
          /\ \E l \in Listener :
                /\ thread[l] = Idle
                /\ thread' = [thread EXCEPT
                      ![l] = [handles |-> "resume", pc |-> "guard", loop |-> None],
                      ![Main] = [handles |-> "start", pc |-> "count", loop |-> None]]
          /\ overlapped' = (overlapped \/ \E u \in Thread : thread[u] # Idle)
          /\ UNCHANGED activeActivityCounter
       \/ /\ activeActivityCounter > 0
          /\ activeActivityCounter' = activeActivityCounter + 1
          /\ UNCHANGED <<thread, overlapped>>
    /\ UNCHANGED <<init, registered, loop, periods>>

ActivityCounted ==
    /\ thread[Main].pc = "count"
    /\ activeActivityCounter' = activeActivityCounter + 1
    /\ Return(Main)
    /\ UNCHANGED <<init, registered, loop, bounds, overlapped>>

ActivityStopped ==
    /\ thread[Main] = Idle /\ activeActivityCounter > 0
    /\ activeActivityCounter' = activeActivityCounter - 1
    /\ \/ activeActivityCounter = 1 /\ Dispatch("stop", "cancel")
       \/ activeActivityCounter > 1 /\ UNCHANGED <<thread, overlapped>>
    /\ UNCHANGED <<init, registered, loop, bounds>>

-----------------------------------------------------------------------------
(* AppController *)

(* prefChangeListener, on the main thread, from the activity of the settings *)
PeriodChangedTo(first) ==
    /\ registered /\ activeActivityCounter > 0
    /\ periods < MaxPeriods
    /\ periods' = periods + 1
    /\ Take(Main, "period", first)
    /\ UNCHANGED <<init, activeActivityCounter, registered, loop, starts>>

PeriodKept == PeriodChangedTo("schedule")   \* a fault: the loop of the old period goes on
PeriodChanged == PeriodChangedTo("cancel")

(* onAppResume asks isInitialized; onAppInit asks isActive, once the listener *)
(* of the preferences is registered.                                          *)
WantedOnceInitialized(event) == initState = "INITIALIZED"   \* a fault: isActive is not asked
Wanted(event) == IF event = "resume" THEN initState = "INITIALIZED"
                 ELSE activeActivityCounter > 0

Guard(t) ==
    /\ thread[t].pc = "guard"
    /\ registered' = (registered \/ thread[t].handles = "init")
    /\ \/ Wanted(thread[t].handles) /\ Goto(t, "cancel")
       \/ ~Wanted(thread[t].handles) /\ Return(t)
    /\ UNCHANGED <<init, activeActivityCounter, loop, bounds, overlapped>>

(* task?.cancel(true): all there is to onAppStop. *)
Cancel(t) ==
    /\ thread[t].pc = "cancel"
    /\ running' = running \ {task}
    /\ \/ thread[t].handles # "stop" /\ Goto(t, "schedule")
       \/ thread[t].handles = "stop" /\ Return(t)
    /\ UNCHANGED <<init, activeActivityCounter, registered, task, loops, bounds, overlapped>>

(* scheduleQueueTask: the loop runs at once, before task knows it. *)
Schedule(t) ==
    /\ thread[t].pc = "schedule"
    /\ loops' = loops + 1
    /\ running' = running \cup {loops + 1}
    /\ thread' = [thread EXCEPT ![t].pc = "assign", ![t].loop = loops + 1]
    /\ UNCHANGED <<init, activeActivityCounter, registered, task, bounds, overlapped>>

Assign(t) ==
    /\ thread[t].pc = "assign"
    /\ task' = thread[t].loop
    /\ Return(t)
    /\ UNCHANGED <<init, activeActivityCounter, registered, running, loops, bounds, overlapped>>

-----------------------------------------------------------------------------

Init ==
    /\ initState = "NOT_INITIALIZED" /\ starter = "start"
    /\ activeActivityCounter = 0
    /\ thread = [t \in Thread |-> Idle]
    /\ registered = FALSE
    /\ task = None /\ running = {} /\ loops = 0
    /\ starts = 0 /\ periods = 0
    /\ overlapped = FALSE

Next ==
    \/ OnAppStart \/ Initialized \/ DispatchInit
    \/ ActivityStarted \/ ActivityCounted \/ ActivityStopped
    \/ PeriodChanged
    \/ \E t \in Thread : Guard(t) \/ Cancel(t) \/ Schedule(t) \/ Assign(t)

Spec == Init /\ [][Next]_vars

-----------------------------------------------------------------------------

TypeOK ==
    /\ initState \in {"NOT_INITIALIZED", "INITIALIZING", "INITIALIZED"}
    /\ starter \in {"start", "wait", "dispatch", "over"}
    /\ activeActivityCounter \in 0 .. MaxActive
    /\ thread \in [Thread -> [handles : {"nothing", "init", "resume", "stop", "start", "period"},
                              pc : {"idle", "guard", "cancel", "schedule", "assign", "count"},
                              loop : Nat]]
    /\ registered \in BOOLEAN /\ overlapped \in BOOLEAN
    /\ task \in Nat /\ loops \in Nat /\ running \subseteq 1 .. loops
    /\ starts \in 0 .. MaxStarts /\ periods \in 0 .. MaxPeriods

(* AppController.task knows the only loop there is, so that the next cancel  *)
(* ends it, as long as no event came while another was handled: two          *)
(* listeners that both schedule leave a loop that nothing cancels any more   *)
(* (AppController.kt, onAppInit, onAppResume, prefChangeListener).           *)
OneLoop == Quiet /\ ~overlapped => running \subseteq {task}

(* Between events, the loop runs if an activity is visible and the           *)
(* application is initialized, and only then: "When the app is no longer     *)
(* visible [...] we stop the reload loop."  The same condition: an onAppStop *)
(* overtaken by the next onAppResume, or an onAppInit that comes before the  *)
(* activity is counted, leaves it wrong.                                     *)
LoopFollowsView ==
    Quiet /\ ~overlapped =>
       (running # {} <=> activeActivityCounter > 0 /\ initState = "INITIALIZED")
=============================================================================
