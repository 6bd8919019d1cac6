-------------------------- MODULE AutoPlayer_proofs --------------------------
(***************************************************************************)
(* Proofs about AutoPlayer, for any number of stopping and waiting threads, *)
(* songs and calls.                                                         *)
(***************************************************************************)
EXTENDS AutoPlayer, TLAPS

-----------------------------------------------------------------------------
(* The inductive invariant *)

Holding == {"startStore", "startRun"}                    \* get() has returned
Chosen  == {"startLock", "startGet"} \cup Holding        \* a song, not started yet
Started == {"announce", "lock", "get", "renew"}          \* a song that was started

(* Only the song the future stands for can be playing; once startPlaying's   *)
(* get() has returned, under the mutex, none is.                             *)
FutureInv ==
    /\ \A n \in Song : status[n] = "playing" => m_player = n
    /\ starter.pc \in Holding => Ready

(* What the starter knows of its song. *)
StarterInv ==
    /\ starter.pc \in Chosen \cup Started \cup {"remove"} => starter.song \in waiting
    /\ starter.pc = "asked" /\ starter.song # NO_SONG => starter.song \in waiting
    /\ starter.pc \in Chosen => status[starter.song] = "new"
    /\ starter.pc = "asked" /\ starter.song # NO_SONG => status[starter.song] = "new"
    /\ starter.pc \in Started => status[starter.song] # "new"
    /\ starter.pc = "renew" => status[starter.song] = "over"
    /\ starter.pc = "remove" => \/ status[starter.song] = "over"
                                \/ status[starter.song] = "new" /\ m_terminateRequested

(* Every other song of the queue has not been started, nor has one to come. *)
QueueInv ==
    /\ \A n \in waiting : \/ status[n] = "new"
                          \/ n = starter.song /\ starter.pc \in Started \cup {"remove"}
    /\ \A n \in Song : n > posted => status[n] = "new"

(* Nobody waits for a song when the destruction has begun. *)
EndInv ==
    /\ m_terminateRequested => caller[Destroyer] \notin {"idle", "terminate"}
    /\ starter.pc \in {"end", "ended"} => m_terminateRequested
    /\ caller[Destroyer] # "idle" => \A w \in Waiter : waiter[w].pc = "idle"

(* A satisfied promise is that of the starter's song; a waiting caller whose *)
(* promise was renewed has seen a song start that it did not know as removed. *)
PromiseInv ==
    /\ m_startPromise.satisfied => starter.pc \in {"lock", "get", "renew", "ended"}
    /\ \A w \in Waiter : waiter[w].pc = "await" =>
          /\ waiter[w].promise <= m_startPromise.before
          /\ waiter[w].removed \subseteq 1..posted
          /\ waiter[w].removed \cap waiting = {}
          /\ waiter[w].promise < m_startPromise.before
                => \E n \in Song \ waiter[w].removed : status[n] # "new"

IInv == TypeOK /\ FutureInv /\ StarterInv /\ QueueInv /\ EndInv /\ PromiseInv

-----------------------------------------------------------------------------
(* Typing *)

(* Nothing plays, nobody waits and the mutex is free at first. *)
LEMMA TypeInit == Init => TypeOK
<1> SUFFICES ASSUME Init PROVE TypeOK
  OBVIOUS
<1>1. waiter \in [Waiter -> [pc : {"idle", "await"}, promise : Nat, removed : SUBSET Song]]
  BY DEF Init
<1>2. status \in [Song -> {"new", "playing", "over"}]
  BY DEF Init
<1>3. /\ caller \in [Caller -> {"idle", "terminate", "store", "lock1", "get1", "lock2", "get2",
                              "join", "gone"}]
      /\ \A t \in Caller : caller[t] = "idle"
  BY DEF Init
<1>4. waiting \subseteq 1..posted /\ posted \in 0..MaxSongs /\ calls \in 0..MaxCalls
  BY BoundAssumption DEF Init
<1>5. /\ starter \in [pc : {"loop", "ask", "asked", "startLock", "startGet", "startStore", "startRun",
                           "announce", "lock", "get", "renew", "remove", "end", "ended"},
                     song : Song \cup {NO_SONG}]
      /\ starter.pc = "loop"
  BY DEF Init
<1>6. m_startPromise \in [before : Nat, satisfied : BOOLEAN]
  BY DEF Init
<1> QED
  BY <1>1, <1>2, <1>3, <1>4, <1>5, <1>6 DEF Init, TypeOK

(* Every step keeps the types and hands the mutex on correctly. *)
LEMMA TypeStep ==
    ASSUME TypeOK, [Next]_vars
    PROVE  TypeOK'
<1> USE BoundAssumption, ThreadAssumption
<1>1. CASE Post
  BY <1>1 DEF Post, TypeOK, shared, Song, NO_SONG, Caller, Thread
<1>2. CASE Loop
  BY <1>2 DEF Loop, At, Goto, TypeOK, shared, Song, NO_SONG, Caller, Thread
<1>3. CASE Ask
  BY <1>3 DEF Ask, At, Goto, TypeOK, shared, Song, NO_SONG, Caller, Thread
<1>4. CASE Asked
  BY <1>4 DEF Asked, At, Goto, TypeOK, shared, Song, NO_SONG, Caller, Thread
<1>5. CASE StartLock
  BY <1>5 DEF StartLock, At, Goto, Lock, TypeOK, shared, Song, NO_SONG, Caller, Thread
<1>6. CASE StartGet
  BY <1>6 DEF StartGet, At, Goto, TypeOK, shared, Song, NO_SONG, Caller, Thread
<1>7. CASE StartStore
  BY <1>7 DEF StartStore, At, Goto, TypeOK, shared, Song, NO_SONG, Caller, Thread
<1>8. CASE StartRun
  BY <1>8 DEF StartRun, At, Goto, TypeOK, shared, Song, NO_SONG, Caller, Thread
<1>9. CASE Announce
  BY <1>9 DEF Announce, At, Goto, TypeOK, shared, Song, NO_SONG, Caller, Thread
<1>10. CASE WaitLock
  BY <1>10 DEF WaitLock, At, Goto, Lock, TypeOK, shared, Song, NO_SONG, Caller, Thread
<1>11. CASE WaitGet
  BY <1>11 DEF WaitGet, At, Goto, Collect, TypeOK, shared, Song, NO_SONG, Caller, Thread
<1>12. CASE Renew
  BY <1>12 DEF Renew, At, Goto, TypeOK, shared, Song, NO_SONG, Caller, Thread
<1>13. CASE Remove
  BY <1>13 DEF Remove, At, Goto, TypeOK, shared, Song, NO_SONG, Caller, Thread
<1>14. CASE End
  BY <1>14 DEF End, At, Goto, TypeOK, shared, Song, NO_SONG, Caller, Thread
<1>15. ASSUME NEW n \in Song, Finish(n) PROVE TypeOK'
  BY <1>15 DEF Finish, TypeOK, shared, Song, NO_SONG, Caller, Thread
<1>16. ASSUME NEW t \in Stopper, StopCall(t) PROVE TypeOK'
  BY <1>16 DEF StopCall, CallerGoto, TypeOK, shared, Song, NO_SONG, Caller, Thread
<1>17. ASSUME NEW t \in Caller, StopStore(t) PROVE TypeOK'
  BY <1>17 DEF StopStore, CallerGoto, TypeOK, shared, Song, NO_SONG, Caller, Thread
<1>18. ASSUME NEW t \in Caller, StopLock(t) PROVE TypeOK'
  BY <1>18 DEF StopLock, Lock, CallerGoto, TypeOK, shared, Song, NO_SONG, Caller, Thread
<1>19. ASSUME NEW t \in Caller, StopGet(t) PROVE TypeOK'
  BY <1>19 DEF StopGet, Collect, CallerGoto, TypeOK, shared, Song, NO_SONG, Caller, Thread
<1>20. CASE Destroy
  BY <1>20 DEF Destroy, CallerGoto, TypeOK, shared, Song, NO_SONG, Caller, Thread
<1>21. CASE Terminate
  BY <1>21 DEF Terminate, CallerGoto, TypeOK, shared, Song, NO_SONG, Caller, Thread
<1>22. CASE Join
  BY <1>22 DEF Join, At, CallerGoto, TypeOK, shared, Song, NO_SONG, Caller, Thread
<1>23. ASSUME NEW w \in Waiter, WaitCall(w) PROVE TypeOK'
  BY <1>23 DEF WaitCall, TypeOK, shared, Song, NO_SONG, Caller, Thread
<1>24. ASSUME NEW w \in Waiter, WaitReturn(w) PROVE TypeOK'
  <2>1. waiter' \in [Waiter -> [pc : {"idle", "await"}, promise : Nat, removed : SUBSET Song]]
    <3>1. waiter' = [waiter EXCEPT ![w] = [pc |-> "idle", promise |-> waiter[w].promise,
                                           removed |-> waiter[w].removed]]
      <4>1. waiter[w] \in [pc : {"idle", "await"}, promise : Nat, removed : SUBSET Song]
        BY DEF TypeOK
      <4>2. [waiter[w] EXCEPT !.pc = "idle"] = [pc |-> "idle", promise |-> waiter[w].promise,
                                                removed |-> waiter[w].removed]
        BY <4>1
      <4> QED
        BY <1>24, <4>2, Zenon DEF WaitReturn
    <3> QED
      BY <3>1 DEF TypeOK
  <2> QED
    BY <1>24, <2>1 DEF WaitReturn, TypeOK, shared
<1>25. CASE UNCHANGED vars
  BY <1>25 DEF vars, shared, TypeOK, Song, NO_SONG, Caller, Thread
<1> QED
  BY <1>1, <1>2, <1>3, <1>4, <1>5, <1>6, <1>7, <1>8, <1>9, <1>10, <1>11, <1>12, <1>13,
       <1>14, <1>15, <1>16, <1>17, <1>18, <1>19, <1>20, <1>21, <1>22, <1>23, <1>24, <1>25
       DEF Next, StarterNext, CallerNext, Interrupt

(* A song starts only under the mutex, after get() has returned. *)
LEMMA FutureStep ==
    ASSUME TypeOK, FutureInv, [Next]_vars
    PROVE  FutureInv'
<1> USE BoundAssumption, ThreadAssumption
<1>1. CASE Post
  BY <1>1 DEF Post, FutureInv, TypeOK, shared, Song, NO_SONG, Ready, Holding, Caller
<1>2. CASE Loop
  BY <1>2 DEF Loop, At, Goto, FutureInv, TypeOK, shared, Song, NO_SONG, Ready, Holding, Caller
<1>3. CASE Ask
  BY <1>3 DEF Ask, At, Goto, FutureInv, TypeOK, shared, Song, NO_SONG, Ready, Holding, Caller
<1>4. CASE Asked
  BY <1>4 DEF Asked, At, Goto, FutureInv, TypeOK, shared, Song, NO_SONG, Ready, Holding, Caller
<1>5. CASE StartLock
  BY <1>5 DEF StartLock, At, Goto, Lock, FutureInv, TypeOK, shared, Song, NO_SONG, Ready,
       Holding, Caller
<1>6. CASE StartGet
  BY <1>6 DEF StartGet, At, Goto, FutureInv, TypeOK, shared, Song, NO_SONG, Ready, Holding,
       Caller
<1>7. CASE StartStore
  BY <1>7 DEF StartStore, At, Goto, FutureInv, TypeOK, shared, Song, NO_SONG, Ready,
       Holding, Caller
<1>8. CASE StartRun
  BY <1>8 DEF StartRun, At, Goto, FutureInv, TypeOK, shared, Song, NO_SONG, Ready, Holding,
       Caller
<1>9. CASE Announce
  BY <1>9 DEF Announce, At, Goto, FutureInv, TypeOK, shared, Song, NO_SONG, Ready, Holding,
       Caller
<1>10. CASE WaitLock
  BY <1>10 DEF WaitLock, At, Goto, Lock, FutureInv, TypeOK, shared, Song, NO_SONG, Ready,
       Holding, Caller
<1>11. CASE WaitGet
  BY <1>11 DEF WaitGet, At, Goto, Collect, FutureInv, TypeOK, shared, Song, NO_SONG, Ready,
       Holding, Caller
<1>12. CASE Renew
  BY <1>12 DEF Renew, At, Goto, FutureInv, TypeOK, shared, Song, NO_SONG, Ready, Holding, Caller
<1>13. CASE Remove
  BY <1>13 DEF Remove, At, Goto, FutureInv, TypeOK, shared, Song, NO_SONG, Ready, Holding,
       Caller
<1>14. CASE End
  BY <1>14 DEF End, At, Goto, FutureInv, TypeOK, shared, Song, NO_SONG, Ready, Holding, Caller
<1>15. ASSUME NEW n \in Song, Finish(n) PROVE FutureInv'
  BY <1>15 DEF Finish, FutureInv, TypeOK, shared, Song, NO_SONG, Ready, Holding, Caller
<1>16. ASSUME NEW t \in Stopper, StopCall(t) PROVE FutureInv'
  BY <1>16 DEF StopCall, CallerGoto, FutureInv, TypeOK, shared, Song, NO_SONG, Ready,
       Holding, Caller
<1>17. ASSUME NEW t \in Caller, StopStore(t) PROVE FutureInv'
  BY <1>17 DEF StopStore, CallerGoto, FutureInv, TypeOK, shared, Song, NO_SONG, Ready,
       Holding, Caller
<1>18. ASSUME NEW t \in Caller, StopLock(t) PROVE FutureInv'
  BY <1>18 DEF StopLock, Lock, CallerGoto, FutureInv, TypeOK, shared, Song, NO_SONG, Ready,
       Holding, Caller
<1>19. ASSUME NEW t \in Caller, StopGet(t) PROVE FutureInv'
  BY <1>19 DEF StopGet, Collect, CallerGoto, FutureInv, TypeOK, shared, Song, NO_SONG,
       Ready, Holding, Caller
<1>20. CASE Destroy
  BY <1>20 DEF Destroy, CallerGoto, FutureInv, TypeOK, shared, Song, NO_SONG, Ready,
       Holding, Caller
<1>21. CASE Terminate
  BY <1>21 DEF Terminate, CallerGoto, FutureInv, TypeOK, shared, Song, NO_SONG, Ready,
       Holding, Caller
<1>22. CASE Join
  BY <1>22 DEF Join, At, CallerGoto, FutureInv, TypeOK, shared, Song, NO_SONG, Ready,
       Holding, Caller
<1>23. ASSUME NEW w \in Waiter, WaitCall(w) PROVE FutureInv'
  BY <1>23 DEF WaitCall, FutureInv, TypeOK, shared, Song, NO_SONG, Ready, Holding, Caller
<1>24. ASSUME NEW w \in Waiter, WaitReturn(w) PROVE FutureInv'
  BY <1>24 DEF WaitReturn, FutureInv, TypeOK, shared, Song, NO_SONG, Ready, Holding, Caller
<1>25. CASE UNCHANGED vars
  BY <1>25 DEF vars, shared, FutureInv, TypeOK, Song, NO_SONG, Ready, Holding, Caller
<1> QED
  BY <1>1, <1>2, <1>3, <1>4, <1>5, <1>6, <1>7, <1>8, <1>9, <1>10, <1>11, <1>12, <1>13,
       <1>14, <1>15, <1>16, <1>17, <1>18, <1>19, <1>20, <1>21, <1>22, <1>23, <1>24, <1>25
       DEF Next, StarterNext, CallerNext, Interrupt

(* The song of songStarter_ goes from new to playing to over as its steps do. *)
LEMMA StarterStep ==
    ASSUME TypeOK, FutureInv, StarterInv, QueueInv, EndInv, [Next]_vars
    PROVE  StarterInv'
<1> USE BoundAssumption, ThreadAssumption
<1>1. CASE Post
  BY <1>1 DEF Post, StarterInv, FutureInv, QueueInv, EndInv, TypeOK, shared, Song, NO_SONG,
       Ready, Chosen, Holding, Started
<1>2. CASE Loop
  BY <1>2 DEF Loop, At, Goto, StarterInv, FutureInv, QueueInv, EndInv, TypeOK, shared, Song,
       NO_SONG, Ready, Chosen, Holding, Started
<1>3. CASE Ask
  BY <1>3 DEF Ask, At, Goto, StarterInv, FutureInv, QueueInv, EndInv, TypeOK, shared, Song,
       NO_SONG, Ready, Chosen, Holding, Started
<1>4. CASE Asked
  BY <1>4 DEF Asked, At, Goto, StarterInv, FutureInv, QueueInv, EndInv, TypeOK, shared,
       Song, NO_SONG, Ready, Chosen, Holding, Started
<1>5. CASE StartLock
  BY <1>5 DEF StartLock, At, Goto, Lock, StarterInv, FutureInv, QueueInv, EndInv, TypeOK,
       shared, Song, NO_SONG, Ready, Chosen, Holding, Started
<1>6. CASE StartGet
  BY <1>6 DEF StartGet, At, Goto, StarterInv, FutureInv, QueueInv, EndInv, TypeOK, shared,
       Song, NO_SONG, Ready, Chosen, Holding, Started
<1>7. CASE StartStore
  BY <1>7 DEF StartStore, At, Goto, StarterInv, FutureInv, QueueInv, EndInv, TypeOK, shared,
       Song, NO_SONG, Ready, Chosen, Holding, Started
<1>8. CASE StartRun
  BY <1>8 DEF StartRun, At, Goto, StarterInv, FutureInv, QueueInv, EndInv, TypeOK, shared,
       Song, NO_SONG, Ready, Chosen, Holding, Started
<1>9. CASE Announce
  BY <1>9 DEF Announce, At, Goto, StarterInv, FutureInv, QueueInv, EndInv, TypeOK, shared,
       Song, NO_SONG, Ready, Chosen, Holding, Started
<1>10. CASE WaitLock
  BY <1>10 DEF WaitLock, At, Goto, Lock, StarterInv, FutureInv, QueueInv, EndInv, TypeOK,
       shared, Song, NO_SONG, Ready, Chosen, Holding, Started
<1>11. CASE WaitGet
  BY <1>11 DEF WaitGet, At, Goto, Collect, StarterInv, FutureInv, QueueInv, EndInv, TypeOK,
       shared, Song, NO_SONG, Ready, Chosen, Holding, Started
<1>12. CASE Renew
  BY <1>12 DEF Renew, At, Goto, StarterInv, FutureInv, QueueInv, EndInv, TypeOK, shared,
       Song, NO_SONG, Ready, Chosen, Holding, Started
<1>13. CASE Remove
  BY <1>13 DEF Remove, At, Goto, StarterInv, FutureInv, QueueInv, EndInv, TypeOK, shared,
       Song, NO_SONG, Ready, Chosen, Holding, Started
<1>14. CASE End
  BY <1>14 DEF End, At, Goto, StarterInv, FutureInv, QueueInv, EndInv, TypeOK, shared, Song,
       NO_SONG, Ready, Chosen, Holding, Started
<1>15. ASSUME NEW n \in Song, Finish(n) PROVE StarterInv'
  BY <1>15 DEF Finish, StarterInv, FutureInv, QueueInv, EndInv, TypeOK, shared, Song,
       NO_SONG, Ready, Chosen, Holding, Started
<1>16. ASSUME NEW t \in Stopper, StopCall(t) PROVE StarterInv'
  BY <1>16 DEF StopCall, CallerGoto, StarterInv, FutureInv, QueueInv, EndInv, TypeOK,
       shared, Song, NO_SONG, Ready, Chosen, Holding, Started
<1>17. ASSUME NEW t \in Caller, StopStore(t) PROVE StarterInv'
  BY <1>17 DEF StopStore, CallerGoto, StarterInv, FutureInv, QueueInv, EndInv, TypeOK,
       shared, Song, NO_SONG, Ready, Chosen, Holding, Started
<1>18. ASSUME NEW t \in Caller, StopLock(t) PROVE StarterInv'
  BY <1>18 DEF StopLock, Lock, CallerGoto, StarterInv, FutureInv, QueueInv, EndInv, TypeOK,
       shared, Song, NO_SONG, Ready, Chosen, Holding, Started
<1>19. ASSUME NEW t \in Caller, StopGet(t) PROVE StarterInv'
  BY <1>19 DEF StopGet, Collect, CallerGoto, StarterInv, FutureInv, QueueInv, EndInv,
       TypeOK, shared, Song, NO_SONG, Ready, Chosen, Holding, Started
<1>20. CASE Destroy
  BY <1>20 DEF Destroy, CallerGoto, StarterInv, FutureInv, QueueInv, EndInv, TypeOK, shared,
       Song, NO_SONG, Ready, Chosen, Holding, Started
<1>21. CASE Terminate
  BY <1>21 DEF Terminate, CallerGoto, StarterInv, FutureInv, QueueInv, EndInv, TypeOK,
       shared, Song, NO_SONG, Ready, Chosen, Holding, Started
<1>22. CASE Join
  BY <1>22 DEF Join, At, CallerGoto, StarterInv, FutureInv, QueueInv, EndInv, TypeOK,
       shared, Song, NO_SONG, Ready, Chosen, Holding, Started
<1>23. ASSUME NEW w \in Waiter, WaitCall(w) PROVE StarterInv'
  BY <1>23 DEF WaitCall, StarterInv, FutureInv, QueueInv, EndInv, TypeOK, shared, Song,
       NO_SONG, Ready, Chosen, Holding, Started
<1>24. ASSUME NEW w \in Waiter, WaitReturn(w) PROVE StarterInv'
  BY <1>24 DEF WaitReturn, StarterInv, FutureInv, QueueInv, EndInv, TypeOK, shared, Song,
       NO_SONG, Ready, Chosen, Holding, Started
<1>25. CASE UNCHANGED vars
  BY <1>25 DEF vars, shared, StarterInv, FutureInv, QueueInv, EndInv, TypeOK, Song, NO_SONG,
       Ready, Chosen, Holding, Started
<1> QED
  BY <1>1, <1>2, <1>3, <1>4, <1>5, <1>6, <1>7, <1>8, <1>9, <1>10, <1>11, <1>12, <1>13,
       <1>14, <1>15, <1>16, <1>17, <1>18, <1>19, <1>20, <1>21, <1>22, <1>23, <1>24, <1>25
       DEF Next, StarterNext, CallerNext, Interrupt

(* A song of the queue is started only by the starter, which then removes it. *)
LEMMA QueueStep ==
    ASSUME TypeOK, StarterInv, QueueInv, [Next]_vars
    PROVE  QueueInv'
<1> USE BoundAssumption
<1>1. CASE Post
  BY <1>1 DEF Post, StarterInv, QueueInv, TypeOK, shared, Song, NO_SONG, Chosen, Holding,
       Started
<1>2. CASE Loop
  BY <1>2 DEF Loop, At, Goto, StarterInv, QueueInv, TypeOK, shared, Song, NO_SONG, Chosen,
       Holding, Started
<1>3. CASE Ask
  BY <1>3 DEF Ask, At, Goto, StarterInv, QueueInv, TypeOK, shared, Song, NO_SONG, Chosen,
       Holding, Started
<1>4. CASE Asked
  BY <1>4 DEF Asked, At, Goto, StarterInv, QueueInv, TypeOK, shared, Song, NO_SONG, Chosen,
       Holding, Started
<1>5. CASE StartLock
  BY <1>5 DEF StartLock, At, Goto, Lock, StarterInv, QueueInv, TypeOK, shared, Song,
       NO_SONG, Chosen, Holding, Started
<1>6. CASE StartGet
  BY <1>6 DEF StartGet, At, Goto, StarterInv, QueueInv, TypeOK, shared, Song, NO_SONG,
       Chosen, Holding, Started
<1>7. CASE StartStore
  BY <1>7 DEF StartStore, At, Goto, StarterInv, QueueInv, TypeOK, shared, Song, NO_SONG,
       Chosen, Holding, Started
<1>8. CASE StartRun
  BY <1>8 DEF StartRun, At, Goto, StarterInv, QueueInv, TypeOK, shared, Song, NO_SONG,
       Chosen, Holding, Started
<1>9. CASE Announce
  BY <1>9 DEF Announce, At, Goto, StarterInv, QueueInv, TypeOK, shared, Song, NO_SONG,
       Chosen, Holding, Started
<1>10. CASE WaitLock
  BY <1>10 DEF WaitLock, At, Goto, Lock, StarterInv, QueueInv, TypeOK, shared, Song,
       NO_SONG, Chosen, Holding, Started
<1>11. CASE WaitGet
  BY <1>11 DEF WaitGet, At, Goto, Collect, StarterInv, QueueInv, TypeOK, shared, Song,
       NO_SONG, Chosen, Holding, Started
<1>12. CASE Renew
  BY <1>12 DEF Renew, At, Goto, StarterInv, QueueInv, TypeOK, shared, Song, NO_SONG, Chosen,
       Holding, Started
<1>13. CASE Remove
  BY <1>13 DEF Remove, At, Goto, StarterInv, QueueInv, TypeOK, shared, Song, NO_SONG,
       Chosen, Holding, Started
<1>14. CASE End
  BY <1>14 DEF End, At, Goto, StarterInv, QueueInv, TypeOK, shared, Song, NO_SONG, Chosen,
       Holding, Started
<1>15. ASSUME NEW n \in Song, Finish(n) PROVE QueueInv'
  BY <1>15 DEF Finish, StarterInv, QueueInv, TypeOK, shared, Song, NO_SONG, Chosen, Holding,
       Started
<1>16. ASSUME NEW t \in Stopper, StopCall(t) PROVE QueueInv'
  BY <1>16 DEF StopCall, CallerGoto, StarterInv, QueueInv, TypeOK, shared, Song, NO_SONG,
       Chosen, Holding, Started
<1>17. ASSUME NEW t \in Caller, StopStore(t) PROVE QueueInv'
  BY <1>17 DEF StopStore, CallerGoto, StarterInv, QueueInv, TypeOK, shared, Song, NO_SONG,
       Chosen, Holding, Started
<1>18. ASSUME NEW t \in Caller, StopLock(t) PROVE QueueInv'
  BY <1>18 DEF StopLock, Lock, CallerGoto, StarterInv, QueueInv, TypeOK, shared, Song,
       NO_SONG, Chosen, Holding, Started
<1>19. ASSUME NEW t \in Caller, StopGet(t) PROVE QueueInv'
  BY <1>19 DEF StopGet, Collect, CallerGoto, StarterInv, QueueInv, TypeOK, shared, Song,
       NO_SONG, Chosen, Holding, Started
<1>20. CASE Destroy
  BY <1>20 DEF Destroy, CallerGoto, StarterInv, QueueInv, TypeOK, shared, Song, NO_SONG,
       Chosen, Holding, Started
<1>21. CASE Terminate
  BY <1>21 DEF Terminate, CallerGoto, StarterInv, QueueInv, TypeOK, shared, Song, NO_SONG,
       Chosen, Holding, Started
<1>22. CASE Join
  BY <1>22 DEF Join, At, CallerGoto, StarterInv, QueueInv, TypeOK, shared, Song, NO_SONG,
       Chosen, Holding, Started
<1>23. ASSUME NEW w \in Waiter, WaitCall(w) PROVE QueueInv'
  BY <1>23 DEF WaitCall, StarterInv, QueueInv, TypeOK, shared, Song, NO_SONG, Chosen,
       Holding, Started
<1>24. ASSUME NEW w \in Waiter, WaitReturn(w) PROVE QueueInv'
  BY <1>24 DEF WaitReturn, StarterInv, QueueInv, TypeOK, shared, Song, NO_SONG, Chosen,
       Holding, Started
<1>25. CASE UNCHANGED vars
  BY <1>25 DEF vars, shared, StarterInv, QueueInv, TypeOK, Song, NO_SONG, Chosen, Holding,
       Started
<1> QED
  BY <1>1, <1>2, <1>3, <1>4, <1>5, <1>6, <1>7, <1>8, <1>9, <1>10, <1>11, <1>12, <1>13,
       <1>14, <1>15, <1>16, <1>17, <1>18, <1>19, <1>20, <1>21, <1>22, <1>23, <1>24, <1>25
       DEF Next, StarterNext, CallerNext, Interrupt

(* The destruction begins when no call is under way, and lets none begin. *)
LEMMA EndStep ==
    ASSUME TypeOK, EndInv, [Next]_vars
    PROVE  EndInv'
<1> USE ThreadAssumption
<1>1. CASE Post
  BY <1>1 DEF Post, EndInv, TypeOK, shared, Caller
<1>2. CASE Loop
  BY <1>2 DEF Loop, At, Goto, EndInv, TypeOK, shared, Caller
<1>3. CASE Ask
  BY <1>3 DEF Ask, At, Goto, EndInv, TypeOK, shared, Caller
<1>4. CASE Asked
  BY <1>4 DEF Asked, At, Goto, EndInv, TypeOK, shared, Caller
<1>5. CASE StartLock
  BY <1>5 DEF StartLock, At, Goto, Lock, EndInv, TypeOK, shared, Caller
<1>6. CASE StartGet
  BY <1>6 DEF StartGet, At, Goto, EndInv, TypeOK, shared, Caller
<1>7. CASE StartStore
  BY <1>7 DEF StartStore, At, Goto, EndInv, TypeOK, shared, Caller
<1>8. CASE StartRun
  BY <1>8 DEF StartRun, At, Goto, EndInv, TypeOK, shared, Caller
<1>9. CASE Announce
  BY <1>9 DEF Announce, At, Goto, EndInv, TypeOK, shared, Caller
<1>10. CASE WaitLock
  BY <1>10 DEF WaitLock, At, Goto, Lock, EndInv, TypeOK, shared, Caller
<1>11. CASE WaitGet
  BY <1>11 DEF WaitGet, At, Goto, Collect, EndInv, TypeOK, shared, Caller
<1>12. CASE Renew
  BY <1>12 DEF Renew, At, Goto, EndInv, TypeOK, shared, Caller
<1>13. CASE Remove
  BY <1>13 DEF Remove, At, Goto, EndInv, TypeOK, shared, Caller
<1>14. CASE End
  BY <1>14 DEF End, At, Goto, EndInv, TypeOK, shared, Caller
<1>15. ASSUME NEW n \in Song, Finish(n) PROVE EndInv'
  BY <1>15 DEF Finish, EndInv, TypeOK, shared, Caller
<1>16. ASSUME NEW t \in Stopper, StopCall(t) PROVE EndInv'
  BY <1>16 DEF StopCall, CallerGoto, EndInv, TypeOK, shared, Caller
<1>17. ASSUME NEW t \in Caller, StopStore(t) PROVE EndInv'
  BY <1>17 DEF StopStore, CallerGoto, EndInv, TypeOK, shared, Caller
<1>18. ASSUME NEW t \in Caller, StopLock(t) PROVE EndInv'
  BY <1>18 DEF StopLock, Lock, CallerGoto, EndInv, TypeOK, shared, Caller
<1>19. ASSUME NEW t \in Caller, StopGet(t) PROVE EndInv'
  BY <1>19 DEF StopGet, Collect, CallerGoto, EndInv, TypeOK, shared, Caller
<1>20. CASE Destroy
  BY <1>20 DEF Destroy, CallerGoto, EndInv, TypeOK, shared, Caller
<1>21. CASE Terminate
  BY <1>21 DEF Terminate, CallerGoto, EndInv, TypeOK, shared, Caller
<1>22. CASE Join
  BY <1>22 DEF Join, At, CallerGoto, EndInv, TypeOK, shared, Caller
<1>23. ASSUME NEW w \in Waiter, WaitCall(w) PROVE EndInv'
  BY <1>23 DEF WaitCall, EndInv, TypeOK, shared, Caller
<1>24. ASSUME NEW w \in Waiter, WaitReturn(w) PROVE EndInv'
  BY <1>24 DEF WaitReturn, EndInv, TypeOK, shared, Caller
<1>25. CASE UNCHANGED vars
  BY <1>25 DEF vars, shared, EndInv, TypeOK, Caller
<1> QED
  BY <1>1, <1>2, <1>3, <1>4, <1>5, <1>6, <1>7, <1>8, <1>9, <1>10, <1>11, <1>12, <1>13,
       <1>14, <1>15, <1>16, <1>17, <1>18, <1>19, <1>20, <1>21, <1>22, <1>23, <1>24, <1>25
       DEF Next, StarterNext, CallerNext, Interrupt

(* The promise is satisfied after run_ has started, renewed before the removal. *)
LEMMA PromiseStep ==
    ASSUME TypeOK, StarterInv, EndInv, PromiseInv, [Next]_vars
    PROVE  PromiseInv'
<1> USE BoundAssumption
<1>1. CASE Post
  BY <1>1 DEF Post, PromiseInv, StarterInv, EndInv, TypeOK, shared, Song, NO_SONG, Chosen,
       Holding, Started
<1>2. CASE Loop
  BY <1>2 DEF Loop, At, Goto, PromiseInv, StarterInv, EndInv, TypeOK, shared, Song, NO_SONG,
       Chosen, Holding, Started
<1>3. CASE Ask
  BY <1>3 DEF Ask, At, Goto, PromiseInv, StarterInv, EndInv, TypeOK, shared, Song, NO_SONG,
       Chosen, Holding, Started
<1>4. CASE Asked
  BY <1>4 DEF Asked, At, Goto, PromiseInv, StarterInv, EndInv, TypeOK, shared, Song,
       NO_SONG, Chosen, Holding, Started
<1>5. CASE StartLock
  BY <1>5 DEF StartLock, At, Goto, Lock, PromiseInv, StarterInv, EndInv, TypeOK, shared,
       Song, NO_SONG, Chosen, Holding, Started
<1>6. CASE StartGet
  BY <1>6 DEF StartGet, At, Goto, PromiseInv, StarterInv, EndInv, TypeOK, shared, Song,
       NO_SONG, Chosen, Holding, Started
<1>7. CASE StartStore
  BY <1>7 DEF StartStore, At, Goto, PromiseInv, StarterInv, EndInv, TypeOK, shared, Song,
       NO_SONG, Chosen, Holding, Started
<1>8. CASE StartRun
  BY <1>8 DEF StartRun, At, Goto, PromiseInv, StarterInv, EndInv, TypeOK, shared, Song,
       NO_SONG, Chosen, Holding, Started
<1>9. CASE Announce
  BY <1>9 DEF Announce, At, Goto, PromiseInv, StarterInv, EndInv, TypeOK, shared, Song,
       NO_SONG, Chosen, Holding, Started
<1>10. CASE WaitLock
  BY <1>10 DEF WaitLock, At, Goto, Lock, PromiseInv, StarterInv, EndInv, TypeOK, shared,
       Song, NO_SONG, Chosen, Holding, Started
<1>11. CASE WaitGet
  BY <1>11 DEF WaitGet, At, Goto, Collect, PromiseInv, StarterInv, EndInv, TypeOK, shared,
       Song, NO_SONG, Chosen, Holding, Started
<1>12. CASE Renew
  BY <1>12 DEF Renew, At, Goto, PromiseInv, StarterInv, EndInv, TypeOK, shared, Song,
       NO_SONG, Chosen, Holding, Started
<1>13. CASE Remove
  BY <1>13 DEF Remove, At, Goto, PromiseInv, StarterInv, EndInv, TypeOK, shared, Song,
       NO_SONG, Chosen, Holding, Started
<1>14. CASE End
  BY <1>14 DEF End, At, Goto, PromiseInv, StarterInv, EndInv, TypeOK, shared, Song, NO_SONG,
       Chosen, Holding, Started
<1>15. ASSUME NEW n \in Song, Finish(n) PROVE PromiseInv'
  BY <1>15 DEF Finish, PromiseInv, StarterInv, EndInv, TypeOK, shared, Song, NO_SONG,
       Chosen, Holding, Started
<1>16. ASSUME NEW t \in Stopper, StopCall(t) PROVE PromiseInv'
  BY <1>16 DEF StopCall, CallerGoto, PromiseInv, StarterInv, EndInv, TypeOK, shared, Song,
       NO_SONG, Chosen, Holding, Started
<1>17. ASSUME NEW t \in Caller, StopStore(t) PROVE PromiseInv'
  BY <1>17 DEF StopStore, CallerGoto, PromiseInv, StarterInv, EndInv, TypeOK, shared, Song,
       NO_SONG, Chosen, Holding, Started
<1>18. ASSUME NEW t \in Caller, StopLock(t) PROVE PromiseInv'
  BY <1>18 DEF StopLock, Lock, CallerGoto, PromiseInv, StarterInv, EndInv, TypeOK, shared,
       Song, NO_SONG, Chosen, Holding, Started
<1>19. ASSUME NEW t \in Caller, StopGet(t) PROVE PromiseInv'
  BY <1>19 DEF StopGet, Collect, CallerGoto, PromiseInv, StarterInv, EndInv, TypeOK, shared,
       Song, NO_SONG, Chosen, Holding, Started
<1>20. CASE Destroy
  BY <1>20 DEF Destroy, CallerGoto, PromiseInv, StarterInv, EndInv, TypeOK, shared, Song,
       NO_SONG, Chosen, Holding, Started
<1>21. CASE Terminate
  BY <1>21 DEF Terminate, CallerGoto, PromiseInv, StarterInv, EndInv, TypeOK, shared, Song,
       NO_SONG, Chosen, Holding, Started
<1>22. CASE Join
  BY <1>22 DEF Join, At, CallerGoto, PromiseInv, StarterInv, EndInv, TypeOK, shared, Song,
       NO_SONG, Chosen, Holding, Started
<1>23. ASSUME NEW w \in Waiter, WaitCall(w) PROVE PromiseInv'
  BY <1>23 DEF WaitCall, PromiseInv, StarterInv, EndInv, TypeOK, shared, Song, NO_SONG,
       Chosen, Holding, Started
<1>24. ASSUME NEW w \in Waiter, WaitReturn(w) PROVE PromiseInv'
  BY <1>24 DEF WaitReturn, PromiseInv, StarterInv, EndInv, TypeOK, shared, Song, NO_SONG,
       Chosen, Holding, Started
<1>25. CASE UNCHANGED vars
  BY <1>25 DEF vars, shared, PromiseInv, StarterInv, EndInv, TypeOK, Song, NO_SONG, Chosen,
       Holding, Started
<1> QED
  BY <1>1, <1>2, <1>3, <1>4, <1>5, <1>6, <1>7, <1>8, <1>9, <1>10, <1>11, <1>12, <1>13,
       <1>14, <1>15, <1>16, <1>17, <1>18, <1>19, <1>20, <1>21, <1>22, <1>23, <1>24, <1>25
       DEF Next, StarterNext, CallerNext, Interrupt

-----------------------------------------------------------------------------
(* Theorems *)

(* The invariant holds at first. *)
LEMMA InvInit == Init => IInv
<1> SUFFICES ASSUME Init PROVE IInv
  OBVIOUS
<1>1. TypeOK
  BY TypeInit
<1>2. \A t \in Caller : caller[t] = "idle"
  BY DEF Init
<1>3. \A w \in Waiter : waiter[w].pc = "idle"
  BY DEF Init
<1>4. FutureInv /\ StarterInv /\ QueueInv
  BY DEF Init, FutureInv, StarterInv, QueueInv, Chosen, Started, Holding, NO_SONG
<1>5. EndInv /\ PromiseInv
  BY <1>2, <1>3 DEF Init, EndInv, PromiseInv, Caller
<1> QED
  BY <1>1, <1>4, <1>5 DEF IInv

(* Every step keeps the invariant. *)
LEMMA InvStep == IInv /\ [Next]_vars => IInv'
  BY TypeStep, FutureStep, StarterStep, QueueStep, EndStep, PromiseStep DEF IInv

(* The invariant holds in every state. *)
THEOREM Invariance == Spec => []IInv
  BY InvInit, InvStep, PTL DEF Spec

(* Every variable keeps its type, and m_playerMutex its one holder. *)
THEOREM TypeCorrect == Spec => []TypeOK
<1>1. IInv => TypeOK
  BY DEF IInv
<1> QED
  BY <1>1, Invariance, PTL

(* Two songs are never heard at once, however many threads stop the player   *)
(* and take its future meanwhile.                                            *)
THEOREM OneAtATime == Spec => []OneSongAtATime
<1>1. IInv => OneSongAtATime
  BY DEF IInv, FutureInv, OneSongAtATime
<1> QED
  BY <1>1, Invariance, PTL

(* A song leaves the queue only when its run_ is over, or, never started, in *)
(* the destruction.                                                          *)
THEOREM RemovalIsSafe == Spec => RemovedWhenOver
<1>1. IInv /\ [Next]_vars =>
        [\A n \in waiting \ waiting' :
            \/ status[n] = "over"
            \/ status[n] = "new" /\ m_terminateRequested]_waiting
  <2> SUFFICES ASSUME IInv, [Next]_vars, waiting' # waiting,
                      NEW n \in waiting \ waiting'
               PROVE  \/ status[n] = "over"
                      \/ status[n] = "new" /\ m_terminateRequested
    OBVIOUS
  <2>1. ~Post
    BY DEF Post
  <2>2. Post \/ Remove
    BY DEF Next, vars, shared, StarterNext, CallerNext, Loop, Ask, Asked, StartLock,
         StartGet, StartStore,
           StartRun, Announce, WaitLock, WaitGet, Renew, End, Finish, Interrupt, StopCall, StopStore,
           StopLock, StopGet, Destroy, Terminate, Join, WaitCall, WaitReturn
  <2>3. starter.pc = "remove" /\ n = starter.song
    BY <2>1, <2>2 DEF Remove, At
  <2> QED
    BY <2>3, Zenon DEF IInv, StarterInv
<1> QED
  BY <1>1, Invariance, PTL DEF Spec, RemovedWhenOver

(* waitUntilSongStarted never returns for a song that had left the queue     *)
(* before it was called.                                                     *)
THEOREM StartIsSeen == Spec => StartSeen
<1> DEFINE Seen == \A w \in Waiter :
          waiter[w].pc = "await" /\ waiter'[w].pc = "idle"
          => \E n \in Song \ waiter[w].removed : status[n] # "new"
<1>1. IInv /\ [Next]_vars => [Seen]_waiter
  <2> SUFFICES ASSUME IInv, [Next]_vars, waiter' # waiter PROVE Seen
    OBVIOUS
  <2>1. ASSUME NEW w \in Waiter, WaitCall(w) PROVE Seen
    BY <2>1 DEF WaitCall, IInv, TypeOK
  <2>2. ASSUME NEW w \in Waiter, WaitReturn(w) PROVE Seen
    <3>1. CASE waiter[w].promise < m_startPromise.before
      BY <2>2, <3>1 DEF WaitReturn, IInv, PromiseInv, TypeOK
    <3>2. CASE m_startPromise.satisfied
      <4>1. starter.pc # "ended"
        BY <2>2 DEF WaitReturn, IInv, EndInv
      <4>2. starter.pc \in Started
        BY <3>2, <4>1 DEF IInv, PromiseInv, Started
      <4>3. starter.song \in Song \ waiter[w].removed
        BY <2>2, <4>2, BoundAssumption DEF WaitReturn, IInv, StarterInv, PromiseInv, TypeOK,
             Song
      <4>4. status[starter.song] # "new"
        BY <4>2 DEF IInv, StarterInv
      <4> QED
        BY <2>2, <4>3, <4>4 DEF WaitReturn, IInv, TypeOK
    <3> QED
      BY <2>2, <3>1, <3>2 DEF WaitReturn
  <2>3. \E w \in Waiter : WaitCall(w) \/ WaitReturn(w)
    BY DEF Next, vars, shared, StarterNext, CallerNext, Loop, Ask, Asked, StartLock,
         StartGet, StartStore,
           StartRun, Announce, WaitLock, WaitGet, Renew, Remove, End, Finish, Interrupt, StopCall,
           StopStore, StopLock, StopGet, Destroy, Terminate, Join, Post
  <2> QED
    BY <2>1, <2>2, <2>3
<1> QED
  BY <1>1, Invariance, PTL DEF Spec, StartSeen
=============================================================================
