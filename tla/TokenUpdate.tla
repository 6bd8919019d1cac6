----------------------------- MODULE TokenUpdate -----------------------------
(***************************************************************************)
(* TokenManagerService.updateToken and its callers: the start of the        *)
(* application, a new user name, and every request that the server refused  *)
(* with 403 (RESTRequest), whose error listener is called only after it.    *)
(*                                                                          *)
(* updateJob is a field without a lock, read and written by coroutines on a *)
(* pool of threads.  A slot is a coroutine: a call of updateToken, the      *)
(* async it starts, which sends the identification, or a job of ClientJobs. *)
(* The listener that a refused request launches is the slot of the request, *)
(* which waits for it.                                                      *)
(***************************************************************************)
EXTENDS Naturals, FiniteSets

CONSTANTS Slot,      \* bound: coroutines at the same time
          NoSlot,    \* null
          Completed  \* a job that is over

ASSUME SlotAssumption == NoSlot \notin Slot /\ Completed \notin Slot /\ NoSlot # Completed

VARIABLES co,          \* Slot -> a coroutine
          updateJob,   \* the field
          overlapped,  \* history: a call started an update while another awaited its own
          refused,     \* history: an identification was refused with 403
          crashed      \* history: updateJob!! met null

token == <<updateJob, overlapped, refused, crashed>>

-----------------------------------------------------------------------------
(* Coroutines *)

Free == [pc |-> "free", kind |-> "update", after |-> NoSlot, assign |-> NoSlot, ok |-> FALSE]

Set(r, next) == co' = [co EXCEPT ![r] = next]
Goto(r, pc) == Set(r, [co[r] EXCEPT !.pc = pc])
At(r, pc, kinds) == co[r].pc = pc /\ co[r].kind \in kinds

(* Waiting for the end of a job. *)
Waits(r, pc, job) == Set(r, [co[r] EXCEPT !.pc = pc, !.after = IF job = Completed THEN NoSlot ELSE job])

(* updateToken returns: to the request that was refused, which is answered   *)
(* by its error listener now, or to nobody.                                  *)
Return(r) == Goto(r, IF co[r].kind = "caller" THEN "over" ELSE "answered")

Updates == {r \in Slot : co[r].kind = "update" /\ co[r].pc # "free"}

-----------------------------------------------------------------------------
(* updateToken *)

(* init, onAppStart and preferenceChangeListener. *)
Call(r) ==
    /\ co[r].pc = "free"
    /\ Set(r, [Free EXCEPT !.pc = "check", !.kind = "caller"])
    /\ UNCHANGED token

(* "if (updateJob != null)" *)
Check(r) ==
    /\ co[r].pc = "check"
    /\ Goto(r, IF updateJob # NoSlot THEN "join update" ELSE "start")
    /\ UNCHANGED token

(* "updateJob?.await()": the field is read again. *)
JoinUpdate(r) ==
    /\ co[r].pc = "join update"
    /\ IF updateJob = NoSlot THEN Return(r) ELSE Waits(r, "await", updateJob)
    /\ UNCHANGED token

(* "updateJob = async": its first step is to send the identification. *)
Start(r, s) ==
    /\ co[r].pc = "start" /\ co[s].pc = "free"
    /\ co' = [co EXCEPT ![r].pc = "own", ![s] = [Free EXCEPT !.pc = "sent"]]
    /\ updateJob' = s
    /\ overlapped' = (overlapped \/ \E q \in Slot : co[q].pc \in {"own", "await own"})
    /\ UNCHANGED <<refused, crashed>>

(* A fault: the update is not waited for. *)
ForgetOwn(r) ==
    /\ co[r].pc = "own"
    /\ Return(r)
    /\ updateJob' = NoSlot
    /\ UNCHANGED <<overlapped, refused, crashed>>

(* "updateJob!!.await()": the field is read again. *)
AwaitOwn(r) ==
    /\ co[r].pc = "own"
    /\ IF updateJob = NoSlot THEN Goto(r, "over") ELSE Waits(r, "await own", updateJob)
    /\ crashed' = (crashed \/ updateJob = NoSlot)
    /\ UNCHANGED <<updateJob, overlapped, refused>>

Awaited(r) ==
    /\ co[r].pc = "await" /\ co[r].after = NoSlot
    /\ Return(r)
    /\ UNCHANGED token

(* "updateJob = null", whichever update it is by now. *)
ClearOwn(r) ==
    /\ co[r].pc = "await own" /\ co[r].after = NoSlot
    /\ Return(r)
    /\ updateJob' = NoSlot
    /\ UNCHANGED <<overlapped, refused, crashed>>

(* The identification is answered, or fails; fetchTokenAndWrapErrors makes a *)
(* token of either.                                                          *)
Identified(r) ==
    /\ co[r].kind = "update" /\ co[r].pc \in {"sent", "answered"}
    /\ Goto(r, "over")
    /\ UNCHANGED token

(* RESTRequest's error listener, for any request. *)
Refused(r) ==
    /\ co[r].pc = "sent"
    /\ Goto(r, "check")
    /\ refused' = (refused \/ co[r].kind = "update")
    /\ UNCHANGED <<updateJob, overlapped, crashed>>

updateToken(r) ==
    \/ Check(r) \/ JoinUpdate(r) \/ AwaitOwn(r) \/ Awaited(r) \/ ClearOwn(r)
    \/ \E s \in Slot : Start(r, s)
    \/ Identified(r)
=============================================================================
