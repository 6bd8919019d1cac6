------------------------------ MODULE ClientJobs ------------------------------
(***************************************************************************)
(* The Android client once it is started: what AppController does with the  *)
(* events of the views and of the refresh loop, and the requests it sends   *)
(* (RestRequestService, SecureRestRequestService), with the updates of the  *)
(* token they wait for.                                                     *)
(*                                                                          *)
(* With the coroutines of version 0.22.5 (app/build.gradle) a launch has no *)
(* parent: dispatchEvent returns before its listeners have run, and the     *)
(* listeners of two events run in any order, each on a thread of a pool.    *)
(* A slot is one such listener and then the job it queues.                  *)
(*                                                                          *)
(* The servers are external: a request reaches them or not, at any time,    *)
(* and its answer reaches the client or not.  The client is the only one    *)
(* that logs in, and its id stays.                                          *)
(***************************************************************************)
EXTENDS TokenUpdate

CONSTANTS Command,     \* bound: the requests that are used
          MaxEvents    \* bound: events of the views, of the loop, and calls of updateToken

VARIABLES state,        \* AppStateService
          last,         \* the job fields of AppController
          serverAdmin,  \* the server has this client's id as the administrator's
          late,         \* logins and logouts given up that the server has yet to see
          events,       \* how many events there were: for the bound
          raced,        \* history: kinds of jobs whose listeners overlapped
          givenUp       \* history: a logout was given up

external == <<serverAdmin, late>>
vars == <<co, token, state, last, external, events, raced, givenUp>>

-----------------------------------------------------------------------------
(* The listeners of AppController: the states in which they act, and what    *)
(* queueJob does while the last job of the same kind is not completed.       *)

AnyState == {"User", "Admin"}

onRequestQueueReload     == [in |-> AnyState,  queue |-> "skip"]
onRequestBlackListReload == [in |-> AnyState,  queue |-> "skip"]
onLoginRequest           == [in |-> AnyState,  queue |-> "wait"]
onLogoutRequest          == [in |-> AnyState,  queue |-> "skip"]
onDeleteSong             == [in |-> AnyState,  queue |-> "none"]
onSwapSongsRequest       == [in |-> {"Admin"}, queue |-> "wait"]
onVolumeRequest          == [in |-> {"Admin"}, queue |-> "skip"]
onVolumeChangeRequest    == [in |-> {"Admin"}, queue |-> "wait"]
onStatisticsRequest      == [in |-> {"Admin"}, queue |-> "skip"]
onUserBlockRequest       == [in |-> {"Admin"}, queue |-> "wait"]
onUserUnblockRequest     == [in |-> {"Admin"}, queue |-> "wait"]
onChangePasswordRequest  == [in |-> {"Admin"}, queue |-> "wait"]

Handler ==
    [reload |-> onRequestQueueReload, blackList |-> onRequestBlackListReload,
     login |-> onLoginRequest, logout |-> onLogoutRequest,
     delete |-> onDeleteSong, swap |-> onSwapSongsRequest, volume |-> onVolumeRequest,
     setVolume |-> onVolumeChangeRequest, statistics |-> onStatisticsRequest,
     block |-> onUserBlockRequest, unblock |-> onUserUnblockRequest,
     password |-> onChangePasswordRequest]

Kind == DOMAIN Handler

ASSUME CommandAssumption == Command \subseteq Kind

(* The event a request dispatches when it has its answer, whatever that is.  *)
NoEvent == "none"

getSongList    == NoEvent
getBlackList   == NoEvent
login          == "reload"
logout         == "reload"
deleteSong     == "reload"
swapSongs      == "reload"
getVolume      == NoEvent   \* VolumeChangedEvent, for the volume keys only
setVolume      == "volume"
getStatistics  == NoEvent
blockUser      == "blackList"
unblockUser    == "blackList"
changePassword == NoEvent

Follow ==
    [reload |-> getSongList, blackList |-> getBlackList, login |-> login,
     logout |-> logout, delete |-> deleteSong, swap |-> swapSongs, volume |-> getVolume,
     setVolume |-> setVolume, statistics |-> getStatistics, block |-> blockUser,
     unblock |-> unblockUser, password |-> changePassword]

-----------------------------------------------------------------------------
(* Events *)

(* Of a coroutine, kind is what it is about, after the job it waits for, and *)
(* assign what its listener has yet to store in last.                        *)
New(kind) == [Free EXCEPT !.pc = "listen", !.kind = kind]

Event == events < MaxEvents /\ events' = events + 1

(* Login, logout, the commands, the refresh loop and the swipe. *)
Ask(r, kind) ==
    /\ co[r].pc = "free" /\ Event
    /\ Set(r, New(kind))
    /\ UNCHANGED <<token, state, last, external, raced, givenUp>>

(* init adds onUserBlockRequest twice: two listeners, two requests. *)
AskBlock(r, s) ==
    /\ r # s /\ co[r].pc = "free" /\ co[s].pc = "free" /\ Event
    /\ co' = [co EXCEPT ![r] = New("block"), ![s] = New("block")]
    /\ UNCHANGED <<token, state, last, external, raced, givenUp>>

AskToken(r) ==
    /\ Call(r) /\ Event
    /\ UNCHANGED <<state, last, external, raced, givenUp>>

-----------------------------------------------------------------------------
(* queueJob *)

Assigning(kind) == {s \in Slot : co[s].assign # NoSlot /\ co[s].kind = kind}

(* The listener has nothing to do in this state: the event is dropped. *)
Dropped(r) ==
    /\ co[r].pc = "listen" /\ state \notin Handler[co[r].kind].in
    /\ Set(r, Free)
    /\ UNCHANGED <<token, state, last, external, events, raced, givenUp>>

(* The event is handed to a job of its own. *)
Launched(r) ==
    /\ At(r, "listen", {"delete"})
    /\ Goto(r, "sent")
    /\ UNCHANGED <<token, state, last, external, events, raced, givenUp>>

(* A fault: the new job does not join the last one. *)
QueuedAtOnce(r) ==
    /\ co[r].pc = "listen" /\ state \in Handler[co[r].kind].in
    /\ Handler[co[r].kind].queue # "none"
    /\ Set(r, [co[r] EXCEPT !.pc = "join", !.assign = r])
    /\ raced' = IF Assigning(co[r].kind) # {} THEN raced \cup {co[r].kind} ELSE raced
    /\ UNCHANGED <<token, state, last, external, events, givenUp>>

(* A fault: the field is written before it is read. *)
QueuedLate(r) ==
    /\ co[r].pc = "listen" /\ state \in Handler[co[r].kind].in
    /\ Handler[co[r].kind].queue # "none"
    /\ Set(r, [co[r] EXCEPT !.pc = "join", !.after = r])
    /\ last' = [last EXCEPT ![co[r].kind] = r]
    /\ UNCHANGED <<token, state, external, events, raced, givenUp>>

(* lastJobInQueue is read here and the field is written in Assign: two       *)
(* listeners of a kind may both find the same last job.                      *)
Queued(r) ==
    LET kind == co[r].kind
        lastJobInQueue == last[kind]
        skips == Handler[kind].queue = "skip" /\ lastJobInQueue # NoSlot
    IN  /\ co[r].pc = "listen" /\ state \in Handler[kind].in
        /\ Handler[kind].queue # "none"
        /\ Set(r, IF skips THEN [co[r] EXCEPT !.pc = "over", !.assign = lastJobInQueue]
                  ELSE [co[r] EXCEPT !.pc = "join", !.after = lastJobInQueue, !.assign = r])
        /\ raced' = IF Assigning(kind) # {} THEN raced \cup {kind} ELSE raced
        /\ UNCHANGED <<token, state, last, external, events, givenUp>>

(* A job that is completed counts for none. *)
Uncompleted(job) == IF job = Completed THEN NoSlot ELSE job

(* The job that is stored may be completed by then, and a newer one be there. *)
Assign(r) ==
    /\ co[r].assign # NoSlot
    /\ last' = [last EXCEPT ![co[r].kind] = Uncompleted(co[r].assign)]
    /\ Set(r, [co[r] EXCEPT !.assign = NoSlot])
    /\ UNCHANGED <<token, state, external, events, raced, givenUp>>

(* The body of a job: login and logout look at the state once more. *)
Begin(r) ==
    /\ co[r].pc = "join" /\ co[r].after = NoSlot
    /\ Goto(r, IF \/ co[r].kind = "login" /\ state = "Admin"
                  \/ co[r].kind = "logout" /\ state # "Admin" THEN "over" ELSE "sent")
    /\ UNCHANGED <<token, state, last, external, events, raced, givenUp>>

(* The job is completed, for those that join it, for isCompleted and for     *)
(* await.  The slot goes on as the listener of the event that was dispatched.*)
Finish(r) ==
    LET follow == IF co[r].pc = "done" THEN Follow[co[r].kind] ELSE NoEvent
        gone(s) == IF s = r THEN NoSlot ELSE s
    IN  /\ co[r].pc \in {"done", "over"} /\ co[r].assign = NoSlot
        /\ last' = [kind \in Kind |-> gone(last[kind])]
        /\ co' = [s \in Slot |->
                    IF s = r THEN IF follow = NoEvent THEN Free ELSE New(follow)
                    ELSE [co[s] EXCEPT !.after = gone(@), !.assign = IF @ = r THEN Completed ELSE @]]
        /\ updateJob' = IF updateJob = r THEN Completed ELSE updateJob
        /\ UNCHANGED <<overlapped, refused, crashed, state, external, events, raced, givenUp>>

-----------------------------------------------------------------------------
(* Requests *)

(* Of what a server does, only the administrator's connection comes back.    *)
Effect(kind) == serverAdmin' = CASE kind = "login"  -> TRUE
                                 [] kind = "logout" -> FALSE
                                 [] OTHER           -> serverAdmin

(* The request is served, and its answer comes back. *)
Serve(r) ==
    /\ At(r, "sent", Kind)
    /\ Effect(co[r].kind)
    /\ Set(r, [co[r] EXCEPT !.pc = "answered", !.ok = co[r].kind = "login"])
    /\ UNCHANGED <<token, state, last, late, events, raced, givenUp>>

(* It fails or never arrives, and its error listener is called. *)
Fail(r) ==
    /\ At(r, "sent", Kind)
    /\ Goto(r, "answered")
    /\ UNCHANGED <<token, state, last, external, events, raced, givenUp>>

(* The client gives up a request that arrives all the same, or whose answer  *)
(* is lost: no request is sent twice.                                        *)
GiveUp(r) ==
    /\ At(r, "sent", {"login", "logout"})
    /\ Goto(r, "answered")
    /\ late' = late \cup {co[r].kind}
    /\ givenUp' = (givenUp \/ co[r].kind = "logout")
    /\ UNCHANGED <<token, state, last, serverAdmin, events, raced>>

ServeLate(kind) ==
    /\ kind \in late
    /\ Effect(kind)
    /\ late' = late \ {kind}
    /\ UNCHANGED <<co, token, state, last, events, raced, givenUp>>

LoggedIn(r) ==
    /\ At(r, "answered", {"login"})
    /\ state' = IF co[r].ok THEN "Admin" ELSE state
    /\ Goto(r, "done")
    /\ UNCHANGED <<token, last, external, events, raced, givenUp>>

(* A fault: the client stays administrator when logout fails. *)
LoggedOutIfOk(r) ==
    /\ At(r, "answered", {"logout"})
    /\ state' = IF co[r].ok THEN "User" ELSE state
    /\ Goto(r, "done")
    /\ UNCHANGED <<token, last, external, events, raced, givenUp>>

(* Whatever the server answered. *)
LoggedOut(r) ==
    /\ At(r, "answered", {"logout"})
    /\ state' = "User"
    /\ Goto(r, "done")
    /\ UNCHANGED <<token, last, external, events, raced, givenUp>>

OtherReceived(r) ==
    /\ At(r, "answered", Kind \ {"login", "logout"})
    /\ Goto(r, "done")
    /\ UNCHANGED <<token, state, last, external, events, raced, givenUp>>

-----------------------------------------------------------------------------

Init ==
    /\ co = [r \in Slot |-> Free]
    /\ updateJob = NoSlot /\ overlapped = FALSE /\ refused = FALSE /\ crashed = FALSE
    /\ state = "User" /\ last = [kind \in Kind |-> NoSlot]
    /\ serverAdmin = FALSE /\ late = {}
    /\ events = 0 /\ raced = {} /\ givenUp = FALSE

Events(r) == \/ AskToken(r)
             \/ \E kind \in Command \ {"block"} : Ask(r, kind)
             \/ "block" \in Command /\ \E s \in Slot : AskBlock(r, s)

queueJob(r) == Dropped(r) \/ Launched(r) \/ Queued(r) \/ Assign(r) \/ Begin(r) \/ Finish(r)

Request(r) == \/ Serve(r) \/ Fail(r) \/ GiveUp(r)
              \/ LoggedIn(r) \/ LoggedOut(r) \/ OtherReceived(r)

Token(r) == /\ updateToken(r) \/ Refused(r)
            /\ UNCHANGED <<state, last, external, events, raced, givenUp>>

(* Nothing comes after a crash. *)
Next == /\ ~crashed
        /\ \/ \E r \in Slot : Events(r) \/ queueJob(r) \/ Request(r) \/ Token(r)
           \/ \E kind \in {"login", "logout"} : ServeLate(kind)

Spec == Init /\ [][Next]_vars

-----------------------------------------------------------------------------
(* Properties *)

(* Jobs of one kind that are not yet completed wait for one another, or are  *)
(* skipped (queueJob): one request of a kind is under way at a time, unless  *)
(* two listeners read the field before either wrote it.                      *)
OneAtATime ==
    \A kind \in Kind \ raced :
        Handler[kind].queue # "none" =>
            Cardinality({r \in Slot : co[r].kind = kind /\ co[r].pc \in {"sent", "answered"}}) <= 1

(* While the client shows an administrator, the server has it as one, or has *)
(* it no more because of a logout under way, unless a logout was given up    *)
(* and came late or jobs raced.                                              *)
AdminIsAdmin ==
    state = "Admin" => \/ serverAdmin
                       \/ \E r \in Slot : At(r, "answered", {"logout"})
                       \/ givenUp \/ {"login", "logout"} \cap raced # {}

(* No coroutines wait for one another in a circle, so that every job ends    *)
(* when its requests do, unless an identification was refused: its error     *)
(* listener waits for the update that waits for it (RESTRequest.kt:29), and  *)
(* every later request that is refused waits for both.                       *)
NoCircle ==
    refused \/ \A circle \in (SUBSET Slot) \ {{}} : \E r \in circle : co[r].after \notin circle

(* Only calls that both found updateJob null make the phone ask for two      *)
(* identifications at a time, which may leave it with an id that is no       *)
(* longer in the table (Accounts), or make updateJob!! meet null, which ends *)
(* the application.                                                          *)
UpdatesAlone == overlapped \/ (Cardinality(Updates) <= 1 /\ ~crashed)
=============================================================================
