------------------------------ MODULE VolumeKeys ------------------------------
(***************************************************************************)
(* The volume keys of the administrator's phone (VolumeController.kt), the  *)
(* jobs of AppController they start, and the https server and the player    *)
(* behind them (VolumeRequests).                                            *)
(*                                                                          *)
(*   the key      the main thread: it changes the step the phone shows and  *)
(*                dispatches what the server is asked                       *)
(*   a post       one VolumeChangeRequestEvent, from its listener to the    *)
(*                answer; posts wait for each other (queueJob)              *)
(*   the poll     volumeRequestJob: one at a time, started by the refresh   *)
(*                loop and by every post that ends                          *)
(*                                                                          *)
(* The phone counts steps, the server percentages.  The listeners of two    *)
(* events run in any order.  Two that overlap inside queueJob (ClientJobs)  *)
(* send their requests in either order, as they do here when they do not.   *)
(* The phone is the only administrator, and stays so.                       *)
(***************************************************************************)
EXTENDS VolumeRequests

CONSTANTS PERCENTAGE_MULTIPLIER,
          MaxStep,    \* PERCENTAGE_MAX \div PERCENTAGE_MULTIPLIER
          MaxPosts,   \* bound: requests that change the volume
          MaxPolls    \* bound: requests that ask for it

ASSUME KeysAssumption == /\ {MaxStep, MaxPosts, MaxPolls} \subseteq Nat
                         /\ PERCENTAGE_MULTIPLIER \in Nat \ {0, 1}
                         /\ Volume = {PERCENTAGE_MULTIPLIER * step : step \in 0..MaxStep}
                         /\ Truncated \subseteq Volume \ {0}

VARIABLES currentVolume,  \* the step of volumeProvider
          press,          \* what the key under way has yet to dispatch
          post,           \* the VolumeChangeRequestEvents
          queue,          \* those whose listener has run, in that order
          poll,           \* volumeRequestJob
          changed,        \* VolumeChangedEvents whose listener has yet to run
          gets,           \* the polls whose request the server has yet to serve
          serving,        \* the poll that getVolumeData works for
          trusted,        \* history: the last poll knew of every key
          floor           \* history: the volume when raise was pressed

phone == <<currentVolume, press, post, queue, poll, changed>>
history == <<trusted, floor>>
vars == <<server, phone, gets, serving, history>>

(* A fault: the server is asked for a step. *)
PercentIsStep(step) == step

Percent(step) == PERCENTAGE_MULTIPLIER * step

(* A fault: what the player's scale takes off is not made good. *)
TruncatedStep(level) == level \div PERCENTAGE_MULTIPLIER

Step(level) == (level + 1) \div PERCENTAGE_MULTIPLIER

Posts == 1..MaxPosts
Unused == {k \in Posts : post[k].pc = "unused"}

-----------------------------------------------------------------------------
(* volumeProvider.  An event is written down when the key is pressed, and    *)
(* the percentage of raise and lower when it is dispatched: a poll may       *)
(* change currentVolume in between.                                          *)

Press(events) ==
    /\ press = <<>> /\ events # <<>> /\ Len(events) <= Cardinality(Unused)
    /\ press' = events
    /\ poll' = [poll EXCEPT !.alone = FALSE]
    /\ trusted' = FALSE
    /\ UNCHANGED <<server, post, queue, changed, gets, serving>>

SetCurrent == [type |-> "SET_CURRENT"]   \* whatever the step is by then
Set(step) == [type |-> "SET", step |-> step]
Mute == [type |-> "MUTE"]
Unmute == [type |-> "UNMUTE"]

onSetVolumeTo(step) ==
    /\ Press(IF step = 0 /\ currentVolume # 0 THEN <<Mute>>
             ELSE IF step # 0 /\ currentVolume = 0 THEN <<Unmute, Set(step)>>
             ELSE <<Set(step)>>)
    /\ currentVolume' = IF Len(press') = 1 THEN step ELSE currentVolume
    /\ floor' = 0

Raise ==
    /\ Press(<<SetCurrent>>)
    /\ currentVolume' = IF currentVolume < MaxStep THEN currentVolume + 1 ELSE currentVolume
    /\ floor' = IF trusted /\ changed = {} /\ poll.pc = "idle" /\ ~sink.isMuted THEN sink.volume ELSE 0

Lower ==
    /\ Press(<<SetCurrent>>)
    /\ currentVolume' = IF currentVolume > 0 THEN currentVolume - 1 ELSE 0
    /\ floor' = 0

MuteKeys ==
    /\ Press(<<Mute>>) \/ Press(<<Unmute>>)
    /\ floor' = 0
    /\ UNCHANGED currentVolume

Key == (\E step \in 0..MaxStep : onSetVolumeTo(step)) \/ Raise \/ Lower \/ MuteKeys

(* The event the player is sent in the end. *)
EventOf(e) ==
    CASE e.type = "SET"         -> [type |-> "VOLUME_CHANGE", volume |-> Percent(e.step)]
      [] e.type = "SET_CURRENT" -> [type |-> "VOLUME_CHANGE", volume |-> Percent(currentVolume)]
      [] OTHER                  -> e

(* Between its two events onSetVolumeTo stores the step. *)
Dispatch ==
    /\ press # <<>>
    /\ currentVolume' = IF Len(press) = 2 THEN press[2].step ELSE currentVolume
    /\ LET k == Min(Unused) IN
       post' = [post EXCEPT ![k] = [pc |-> "listen", event |-> EventOf(Head(press))]]
    /\ press' = Tail(press)
    /\ UNCHANGED <<server, queue, poll, changed, gets, serving, history>>

-----------------------------------------------------------------------------
(* onVolumeChangeRequest, setVolume, muteVolume and unmuteVolume *)

Goto(k, pc) == post' = [post EXCEPT ![k].pc = pc]
Done(k) == post' = [post EXCEPT ![k] = [pc |-> "done", event |-> Mute]]

onVolumeChangeRequest(k) ==
    /\ post[k].pc = "listen"
    /\ Goto(k, "queued")
    /\ queue' = Append(queue, k)
    /\ UNCHANGED <<server, currentVolume, press, poll, changed, gets, serving, history>>

(* The head of the queue is the job whose request is sent, the others wait. *)
Posted(k) == post[k].pc = "queued" /\ Head(queue) = k

(* The job ends without an answer; the request may be on its way still. *)
GiveUp(k) ==
    /\ Posted(k)
    /\ Goto(k, "late")
    /\ queue' = Tail(queue)
    /\ UNCHANGED <<server, currentVolume, press, poll, changed, gets, serving, history>>

ServePost(k) ==
    /\ Posted(k) \/ post[k].pc = "late"
    /\ Change(post[k].event)
    /\ Done(k)
    /\ queue' = IF Posted(k) THEN Tail(queue) ELSE queue
    /\ UNCHANGED <<currentVolume, press, poll, changed, gets, serving, history>>

-----------------------------------------------------------------------------
(* onVolumeRequest and getVolume *)

NoPoll == [pc |-> "idle", number |-> 0, alone |-> FALSE, volume |-> [level |-> 0, mute |-> TRUE]]

AllTaken == press = <<>> /\ \A k \in Posts : post[k].pc \in {"unused", "done"}

(* getVolume keeps the volume of the phone, to return it when the answer is  *)
(* not a 200.                                                                *)
StartPoll ==
    /\ poll.pc = "idle" /\ poll.number < MaxPolls
    /\ poll' = [pc |-> "sent", number |-> poll.number + 1,
                alone |-> AllTaken /\ changed = {},
                volume |-> [level |-> currentVolume, mute |-> currentVolume <= 0]]
    /\ gets' = gets \cup {poll'.number}
    /\ trusted' = (trusted /\ changed = {})
    /\ UNCHANGED <<server, currentVolume, press, post, queue, changed, serving, floor>>

ServeGet(n) ==
    /\ n \in gets
    /\ Request
    /\ gets' = gets \ {n}
    /\ serving' = n
    /\ UNCHANGED <<phone, history>>

Awaited == poll.pc = "sent" /\ poll.number = serving

(* The answer of the server, if the phone still waits for it. *)
Answer ==
    /\ Return
    /\ serving' = 0
    /\ poll' = IF Awaited
               THEN [poll EXCEPT !.pc = "over", !.alone = @ /\ handler.quiet,
                                 !.volume = [level |-> m_lastVolumeData.volume,
                                             mute |-> m_lastVolumeData.isMuted]]
               ELSE poll
    /\ UNCHANGED <<currentVolume, press, post, queue, changed, gets, history>>

(* A poll that fails may end as a step taken for a percentage, and change the *)
(* step of a key whose event has yet to be written.                          *)
Fail == /\ poll' = [poll EXCEPT !.pc = "over", !.alone = FALSE]
        /\ floor' = IF press = <<>> THEN floor ELSE 0

AnswerError ==
    /\ Timeout
    /\ serving' = 0
    /\ IF Awaited THEN Fail ELSE UNCHANGED <<poll, floor>>
    /\ UNCHANGED <<currentVolume, press, post, queue, changed, gets, trusted>>

(* Its time-out is the refresh period, which may be shorter than the server's. *)
GiveUpPoll ==
    /\ poll.pc = "sent"
    /\ Fail
    /\ UNCHANGED <<server, currentVolume, press, post, queue, changed, gets, serving, trusted>>

(* The step of the phone is compared with the percentage of the server. *)
EndPoll ==
    /\ poll.pc = "over"
    /\ poll' = [NoPoll EXCEPT !.number = poll.number]
    /\ changed' = IF currentVolume # poll.volume.level
                  THEN changed \cup {[poll |-> poll.number, volume |-> poll.volume]}
                  ELSE changed
    /\ trusted' = (trusted \/ poll.alone)
    /\ UNCHANGED <<server, currentVolume, press, post, queue, gets, serving, floor>>

(* setVolumeLevel *)
onVolumeChanged ==
    /\ \E event \in changed :
          /\ currentVolume' = IF event.volume.mute THEN 0 ELSE Step(event.volume.level)
          /\ changed' = changed \ {event}
    /\ UNCHANGED <<server, press, post, queue, poll, gets, serving, history>>

-----------------------------------------------------------------------------

Init ==
    /\ ServerInit
    /\ currentVolume = 0
    /\ press = <<>>
    /\ post = [k \in Posts |-> [pc |-> "unused", event |-> Mute]]
    /\ queue = <<>>
    /\ poll = NoPoll
    /\ changed = {}
    /\ gets = {}
    /\ serving = 0
    /\ trusted = FALSE
    /\ floor = 0

Phone == \/ Key \/ Dispatch \/ StartPoll \/ GiveUpPoll \/ EndPoll \/ onVolumeChanged
         \/ \E k \in Posts : onVolumeChangeRequest(k) \/ GiveUp(k)

Handler == \/ (Clear /\ UNCHANGED <<phone, gets, serving, history>>)
           \/ Answer \/ AnswerError

Serve == (\E k \in Posts : ServePost(k)) \/ (\E n \in gets : ServeGet(n))

Others == /\ SetVolumeData \/ Player
          /\ UNCHANGED <<phone, gets, serving, history>>

Next == Phone \/ Handler \/ Serve \/ Others

Spec == Init /\ [][Next]_vars

(* The handler goes on, and ten seconds pass.  Nothing is assumed of the      *)
(* player.                                                                    *)
FairSpec == Spec /\ WF_vars(Handler)

-----------------------------------------------------------------------------
(* Properties *)

(* A volume request (getVolumeData) made when no earlier one, timed out, is  *)
(* still to be answered returns a volume that counts every change sent       *)
(* before it.                                                                *)
QuietIsFresh ==
    [][Answer /\ handler.quiet => m_lastVolumeData.changes >= handler.before]_vars

(* The one handler thread never stays in a volume request, whatever the      *)
(* player does and whichever answer was lost: the next requests are served.  *)
EveryGetEnds == handler.pc # "idle" ~> handler.pc = "idle"

(* Once a poll that began when every key had been served was answered, and   *)
(* no older poll was in its way, the phone shows what the player plays, the  *)
(* volume's way through both scales included.  Only a percentage that equals *)
(* the step on the screen goes unseen, since onVolumeRequest compares them.  *)
ScreenIsTrue ==
    trusted /\ changed = {} =>
        \/ currentVolume = IF sink.isMuted THEN 0 ELSE sink.volume \div PERCENTAGE_MULTIPLIER
        \/ currentVolume = Reading(sink.volume)

(* Raise, pressed on a phone that shows the player's volume while no poll is *)
(* under way and no sound is muted, never makes the music quieter, whatever  *)
(* the polls that are answered before its request is written overwrite.  One *)
(* that fails by then may lower it, once another has changed the step.       *)
RaiseNeverLowers == [][sink' # sink => sink'.volume >= floor]_vars
=============================================================================
