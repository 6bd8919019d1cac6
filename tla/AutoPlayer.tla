------------------------------ MODULE AutoPlayer ------------------------------
(***************************************************************************)
(* The threads of elevation-player around one Mp3AutoPlayer:                *)
(*                                                                          *)
(*   the starter     songStarter_: takes the next song, starts it, waits    *)
(*                   for its end, removes it                                *)
(*   run_            the thread std::async starts for each song             *)
(*   the stoppers    connectionThread_: one for each connection, each       *)
(*                   calling stopSong for a StopSongEvent                   *)
(*   the waiters     callers of waitUntilSongStarted                        *)
(*   the destroyer   the thread that drops the last reference               *)
(*                                                                          *)
(* They share m_playerMutex, the future m_player, the flag m_stopRequested  *)
(* and the promise m_startPromise.  A step is one operation on one of them. *)
(***************************************************************************)
EXTENDS Naturals, FiniteSets

CONSTANTS Stopper, Waiter, Starter, Destroyer,   \* threads
          NoThread,                              \* nobody holds the mutex
          MaxSongs,                              \* bound: songs that are posted
          MaxCalls                               \* bound: calls of stopSong

ASSUME ThreadAssumption ==
    /\ Starter \notin Stopper \cup {Destroyer}
    /\ Destroyer \notin Stopper
    /\ NoThread \notin Stopper \cup {Starter, Destroyer}
ASSUME BoundAssumption == {MaxSongs, MaxCalls} \subseteq Nat

Song == 1..MaxSongs
NO_SONG == 0
Caller == Stopper \cup {Destroyer}
Thread == Caller \cup {Starter}

VARIABLES waiting,          \* the songs the getter may return, until they are removed
          posted,           \* the latest song
          status,           \* Song -> what its run_ thread has come to
          starter,          \* where songStarter_ is, and its local "song"
          caller,           \* Caller -> where its call of stopSong is
          waiter,           \* Waiter -> its call of waitUntilSongStarted
          m_player,         \* the song whose run_ the future stands for
          m_playerMutex,    \* the thread that holds it
          m_stopRequested,
          m_terminateRequested,
          m_startPromise,   \* how many came before, and whether it is satisfied
          calls             \* calls of stopSong so far

shared == <<m_player, m_playerMutex, m_stopRequested, m_terminateRequested>>
vars == <<waiting, posted, status, starter, caller, waiter, shared, m_startPromise, calls>>

-----------------------------------------------------------------------------
(* Mp3Player *)

(* m_player.get() returns: the default future's thread does nothing. *)
Ready == m_player # NO_SONG => status[m_player] = "over"

Lock(t) == m_playerMutex = NoThread /\ m_playerMutex' = t

(* A fault: the future is replaced without waiting for it. *)
CollectAtOnce(t) ==
    /\ m_playerMutex = t
    /\ m_player' = NO_SONG
    /\ m_playerMutex' = NoThread

(* The body of waitUntilSongFinished, under the mutex. *)
Collect(t) ==
    /\ m_playerMutex = t
    /\ Ready
    /\ m_player' = NO_SONG
    /\ m_playerMutex' = NoThread

(* run_ reaches the end of the file, or cannot open it. *)
Finish(n) ==
    /\ status[n] = "playing"
    /\ status' = [status EXCEPT ![n] = "over"]
    /\ UNCHANGED <<waiting, posted, starter, caller, waiter, shared, m_startPromise, calls>>

(* run_ sees the flag between two frames. *)
Interrupt(n) ==
    /\ m_stopRequested
    /\ Finish(n)

-----------------------------------------------------------------------------
(* songStarter_ *)

At(pc) == starter.pc = pc
Goto(pc) == starter' = [starter EXCEPT !.pc = pc]

Loop ==
    /\ At("loop")
    /\ Goto(IF m_terminateRequested THEN "end" ELSE "ask")
    /\ UNCHANGED <<waiting, posted, status, caller, waiter, shared, m_startPromise, calls>>

(* m_nextSongGetter(): newSongProvider_, the head of the queue if there is one. *)
Ask ==
    /\ At("ask")
    /\ \E n \in {s \in waiting : \A o \in waiting : s <= o} \cup (IF waiting = {} THEN {NO_SONG} ELSE {}) :
          starter' = [pc |-> "asked", song |-> n]
    /\ UNCHANGED <<waiting, posted, status, caller, waiter, shared, m_startPromise, calls>>

(* One of the two tests of m_terminateRequested that follow: with a song, the *)
(* loop condition does not reach it; without one, the second tells the same. *)
Asked ==
    /\ At("asked")
    /\ Goto(CASE ~m_terminateRequested /\ starter.song # NO_SONG -> "startLock"
              [] ~m_terminateRequested /\ starter.song = NO_SONG -> "ask"
              [] m_terminateRequested /\ starter.song # NO_SONG  -> "remove"
              [] m_terminateRequested /\ starter.song = NO_SONG  -> "loop")
    /\ UNCHANGED <<waiting, posted, status, caller, waiter, shared, m_startPromise, calls>>

(* startPlaying, in four steps: lock, wait for the song before, clear the    *)
(* flag, start run_ and unlock.                                              *)
StartLock ==
    /\ At("startLock")
    /\ Lock(Starter)
    /\ Goto("startGet")
    /\ UNCHANGED <<waiting, posted, status, caller, waiter, m_player, m_stopRequested,
                   m_terminateRequested, m_startPromise, calls>>

StartGet ==
    /\ At("startGet")
    /\ Ready
    /\ Goto("startStore")
    /\ UNCHANGED <<waiting, posted, status, caller, waiter, shared, m_startPromise, calls>>

StartStore ==
    /\ At("startStore")
    /\ m_stopRequested' = FALSE
    /\ Goto("startRun")
    /\ UNCHANGED <<waiting, posted, status, caller, waiter, m_player, m_playerMutex,
                   m_terminateRequested, m_startPromise, calls>>

StartRun ==
    /\ At("startRun")
    /\ m_player' = starter.song
    /\ status' = [status EXCEPT ![starter.song] = "playing"]
    /\ m_playerMutex' = NoThread
    /\ Goto("announce")
    /\ UNCHANGED <<waiting, posted, caller, waiter, m_stopRequested,
                   m_terminateRequested, m_startPromise, calls>>

(* A fault: the flag is cleared once more, after run_ has started. *)
AnnounceAndClear ==
    /\ At("announce")
    /\ m_startPromise' = [m_startPromise EXCEPT !.satisfied = TRUE]
    /\ m_stopRequested' = FALSE
    /\ Goto("lock")
    /\ UNCHANGED <<waiting, posted, status, caller, waiter, m_player, m_playerMutex,
                   m_terminateRequested, calls>>

(* m_startPromise.set_value() *)
Announce ==
    /\ At("announce")
    /\ m_startPromise' = [m_startPromise EXCEPT !.satisfied = TRUE]
    /\ Goto("lock")
    /\ UNCHANGED <<waiting, posted, status, caller, waiter, shared, calls>>

(* m_player.waitUntilSongFinished(), in two steps. *)
WaitLock ==
    /\ At("lock")
    /\ Lock(Starter)
    /\ Goto("get")
    /\ UNCHANGED <<waiting, posted, status, caller, waiter, m_player, m_stopRequested,
                   m_terminateRequested, m_startPromise, calls>>

WaitGet ==
    /\ At("get")
    /\ Collect(Starter)
    /\ Goto("renew")
    /\ UNCHANGED <<waiting, posted, status, caller, waiter, m_stopRequested,
                   m_terminateRequested, m_startPromise, calls>>

(* A fault: the song is removed before the promise is renewed. *)
RenewLate ==
    /\ \/ /\ At("renew")
          /\ waiting' = waiting \ {starter.song}
          /\ Goto("remove")
          /\ UNCHANGED m_startPromise
       \/ /\ At("remove")
          /\ m_startPromise' = [before |-> m_startPromise.before + 1, satisfied |-> FALSE]
          /\ Goto("loop")
          /\ UNCHANGED waiting
    /\ UNCHANGED <<posted, status, caller, waiter, shared, calls>>

(* A new promise and its future, under m_startMutex, which nobody holds long. *)
Renew ==
    /\ At("renew")
    /\ m_startPromise' = [before |-> m_startPromise.before + 1, satisfied |-> FALSE]
    /\ Goto("remove")
    /\ UNCHANGED <<waiting, posted, status, caller, waiter, shared, calls>>

(* m_songRemover(song): songRemover_ takes the song out of the queue. *)
Remove ==
    /\ At("remove")
    /\ waiting' = waiting \ {starter.song}
    /\ Goto("loop")
    /\ UNCHANGED <<posted, status, caller, waiter, shared, m_startPromise, calls>>

(* The last set_value, and the end of the thread. *)
End ==
    /\ At("end")
    /\ m_startPromise' = [m_startPromise EXCEPT !.satisfied = TRUE]
    /\ Goto("ended")
    /\ UNCHANGED <<waiting, posted, status, caller, waiter, shared, calls>>

StarterNext ==
    \/ Loop \/ Ask \/ Asked \/ StartLock \/ StartGet \/ StartStore \/ StartRun
    \/ Announce \/ WaitLock \/ WaitGet \/ Renew \/ Remove \/ End

-----------------------------------------------------------------------------
(* stopSong: stopPlaying stores the flag without the mutex, then waits; the  *)
(* second waitUntilSongFinished waits again.                                 *)

CallerGoto(t, pc) == caller' = [caller EXCEPT ![t] = pc]

(* A reference keeps the object alive: no call once it is being destroyed. *)
StopCall(t) ==
    /\ caller[t] = "idle"
    /\ caller[Destroyer] = "idle"
    /\ calls < MaxCalls
    /\ calls' = calls + 1
    /\ CallerGoto(t, "store")
    /\ UNCHANGED <<waiting, posted, status, starter, waiter, shared, m_startPromise>>

(* A fault: the flag is stored under the mutex that the wait locks again. *)
StopStoreLocked(t) ==
    /\ caller[t] = "store"
    /\ Lock(t)
    /\ m_stopRequested' = TRUE
    /\ CallerGoto(t, "lock1")
    /\ UNCHANGED <<waiting, posted, status, starter, waiter, m_player,
                   m_terminateRequested, m_startPromise, calls>>

StopStore(t) ==
    /\ caller[t] = "store"
    /\ m_stopRequested' = TRUE
    /\ CallerGoto(t, "lock1")
    /\ UNCHANGED <<waiting, posted, status, starter, waiter, m_player, m_playerMutex,
                   m_terminateRequested, m_startPromise, calls>>

StopLock(t) ==
    /\ caller[t] \in {"lock1", "lock2"}
    /\ Lock(t)
    /\ CallerGoto(t, IF caller[t] = "lock1" THEN "get1" ELSE "get2")
    /\ UNCHANGED <<waiting, posted, status, starter, waiter, m_player, m_stopRequested,
                   m_terminateRequested, m_startPromise, calls>>

StopGet(t) ==
    /\ caller[t] \in {"get1", "get2"}
    /\ Collect(t)
    /\ CallerGoto(t, IF caller[t] = "get1" THEN "lock2"
                     ELSE IF t = Destroyer THEN "join" ELSE "idle")
    /\ UNCHANGED <<waiting, posted, status, starter, waiter, m_stopRequested,
                   m_terminateRequested, m_startPromise, calls>>

CallerNext(t) == StopStore(t) \/ StopLock(t) \/ StopGet(t)

-----------------------------------------------------------------------------
(* ~Mp3AutoPlayer: sendTerminate_, stopSong, join. *)

Destroy ==
    /\ \A t \in Caller : caller[t] = "idle"
    /\ \A w \in Waiter : waiter[w].pc = "idle"
    /\ CallerGoto(Destroyer, "terminate")
    /\ UNCHANGED <<waiting, posted, status, starter, waiter, shared, m_startPromise, calls>>

(* A fault: the destructor forgets sendTerminate_. *)
TerminateNothing ==
    /\ caller[Destroyer] = "terminate"
    /\ CallerGoto(Destroyer, "store")
    /\ UNCHANGED <<waiting, posted, status, starter, waiter, shared, m_startPromise, calls>>

Terminate ==
    /\ caller[Destroyer] = "terminate"
    /\ m_terminateRequested' = TRUE
    /\ CallerGoto(Destroyer, "store")
    /\ UNCHANGED <<waiting, posted, status, starter, waiter, m_player, m_playerMutex,
                   m_stopRequested, m_startPromise, calls>>

Join ==
    /\ caller[Destroyer] = "join"
    /\ At("ended")
    /\ CallerGoto(Destroyer, "gone")
    /\ UNCHANGED <<waiting, posted, status, starter, waiter, shared, m_startPromise, calls>>

-----------------------------------------------------------------------------
(* waitUntilSongStarted; "removed" remembers the songs that had left the     *)
(* queue when the call began.                                                *)

WaitCall(w) ==
    /\ waiter[w].pc = "idle"
    /\ caller[Destroyer] = "idle"
    /\ waiter' = [waiter EXCEPT ![w] = [pc |-> "await", promise |-> m_startPromise.before,
                                        removed |-> 1..posted \ waiting]]
    /\ UNCHANGED <<waiting, posted, status, starter, caller, shared, m_startPromise, calls>>

(* startFuture.get(): its promise is satisfied, or was before it was renewed. *)
WaitReturn(w) ==
    /\ waiter[w].pc = "await"
    /\ waiter[w].promise < m_startPromise.before \/ m_startPromise.satisfied
    /\ waiter' = [waiter EXCEPT ![w].pc = "idle"]
    /\ UNCHANGED <<waiting, posted, status, starter, caller, shared, m_startPromise, calls>>

(* A song enters the queue: createSong, in another process. *)
Post ==
    /\ posted < MaxSongs
    /\ posted' = posted + 1
    /\ waiting' = waiting \cup {posted'}
    /\ UNCHANGED <<status, starter, caller, waiter, shared, m_startPromise, calls>>

-----------------------------------------------------------------------------

Init ==
    /\ waiting = {}
    /\ posted = 0
    /\ status = [n \in Song |-> "new"]
    /\ starter = [pc |-> "loop", song |-> NO_SONG]
    /\ caller = [t \in Caller |-> "idle"]
    /\ waiter = [w \in Waiter |-> [pc |-> "idle", promise |-> 0, removed |-> {}]]
    /\ m_player = NO_SONG
    /\ m_playerMutex = NoThread
    /\ m_stopRequested = FALSE
    /\ m_terminateRequested = FALSE
    /\ m_startPromise = [before |-> 0, satisfied |-> FALSE]
    /\ calls = 0

Next ==
    \/ Post
    \/ StarterNext
    \/ \E n \in Song : Finish(n) \/ Interrupt(n)
    \/ \E t \in Stopper : StopCall(t)
    \/ \E t \in Caller : CallerNext(t)
    \/ Destroy \/ Terminate \/ Join
    \/ \E w \in Waiter : WaitCall(w) \/ WaitReturn(w)

Spec == Init /\ [][Next]_vars

(* Every thread goes on when it can; run_ reads the flag at each frame.  No  *)
(* song is bound to end by itself, nobody is bound to call anything.         *)
FairSpec ==
    /\ Spec
    /\ WF_vars(StarterNext)
    /\ \A n \in Song : WF_vars(Interrupt(n))
    /\ \A t \in Caller : WF_vars(CallerNext(t))
    /\ WF_vars(Terminate \/ Join)
    /\ \A w \in Waiter : WF_vars(WaitReturn(w))

(* A song that plays comes to its end. *)
SongsEnd == \A n \in Song : WF_vars(Finish(n))

-----------------------------------------------------------------------------
(* Properties *)

(* Every variable keeps its type, and the mutex has one holder, the thread   *)
(* that stands between its lock and its unlock.                              *)
TypeOK ==
    /\ waiting \subseteq 1..posted
    /\ posted \in 0..MaxSongs
    /\ status \in [Song -> {"new", "playing", "over"}]
    /\ starter \in [pc : {"loop", "ask", "asked", "startLock", "startGet", "startStore", "startRun",
                          "announce", "lock", "get", "renew", "remove", "end", "ended"},
                    song : Song \cup {NO_SONG}]
    /\ caller \in [Caller -> {"idle", "terminate", "store", "lock1", "get1", "lock2", "get2",
                              "join", "gone"}]
    /\ waiter \in [Waiter -> [pc : {"idle", "await"}, promise : Nat, removed : SUBSET Song]]
    /\ m_player \in Song \cup {NO_SONG}
    /\ m_playerMutex \in Thread \cup {NoThread}
    /\ m_stopRequested \in BOOLEAN
    /\ m_terminateRequested \in BOOLEAN
    /\ m_startPromise \in [before : Nat, satisfied : BOOLEAN]
    /\ calls \in 0..MaxCalls
    /\ \A t \in Caller : caller[t] \in {"get1", "get2"} => m_playerMutex = t
    /\ starter.pc \in {"startGet", "startStore", "startRun", "get"} => m_playerMutex = Starter

(* Whoever collects m_player first, the starter or a thread that stops, two  *)
(* songs are never heard at once.                                            *)
OneSongAtATime ==
    \A n, o \in Song : status[n] = "playing" /\ status[o] = "playing" => n = o

(* A song is removed from the queue, and its file deleted, only when its     *)
(* run_ is over, even if a stopper took the future; a song that was never    *)
(* started is removed only by the destruction.                               *)
RemovedWhenOver ==
    [][\A n \in waiting \ waiting' :
          \/ status[n] = "over"
          \/ status[n] = "new" /\ m_terminateRequested]_waiting

(* waitUntilSongStarted never returns for a song that had left the queue     *)
(* before it was called: the promise is renewed before the song is removed.  *)
StartSeen ==
    [][\A w \in Waiter :
          waiter[w].pc = "await" /\ waiter'[w].pc = "idle"
          => \E n \in Song \ waiter[w].removed : status[n] # "new"]_waiter

(* A stop that finds a song playing ends it, however long the song is: the   *)
(* flag is not cleared again before run_ has seen it.                        *)
StopEndsSong ==
    \A n \in Song : status[n] = "playing" /\ m_stopRequested ~> status[n] = "over"

(* Where songs end, every call of stopSong returns, so a connection goes on  *)
(* to its next event.                                                        *)
EveryStopReturns ==
    SongsEnd => \A t \in Stopper : caller[t] # "idle" ~> caller[t] = "idle"

(* Where songs end, the destruction ends. *)
DestructionEnds ==
    SongsEnd => (caller[Destroyer] = "terminate" ~> caller[Destroyer] = "gone")
=============================================================================
