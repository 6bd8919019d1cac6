---------------------------- MODULE VolumeRequests ----------------------------
(***************************************************************************)
(* The volume requests as the https server serves them (VolumeApi.cpp), and *)
(* the socket between it and the player.  VolumeKeys puts them together     *)
(* with the phone that sends them.                                          *)
(*                                                                          *)
(*   the handler     Pistache's one handler thread (its options are the     *)
(*                   default ones), which serves every volume request       *)
(*   the reader      readerThread_ of HttpsServerEventManager               *)
(*   the connection  connectionThread_ of the player, which handles one     *)
(*                   event after the other; stopSong can keep it busy for   *)
(*                   as long as a song lasts, so it may be as late as it    *)
(*                   likes with the next                                    *)
(*                                                                          *)
(* Requests and answers carry no number: the adapter keeps the last answer  *)
(* and a flag, and a request that timed out may be answered later.          *)
(***************************************************************************)
EXTENDS Integers, FiniteSets, Sequences, SequencesExt, FiniteSetsExt

CONSTANTS Volume,    \* the percentages that are set
          Truncated  \* those that come back from the sink as one less

(* The player's sink, with the number of changes that led to it. *)
VolumeData(changes) == [volume : Volume, isMuted : BOOLEAN, changes : changes]

VARIABLES handler,   \* where the handler is, and what it knew when it asked
          toPlayer,  \* events on their way to the player
          toServer,  \* VolumeGetResponses on their way back
          sink,      \* the volume of PulseAudio
          m_wasVolumeDataUpdated,
          m_lastVolumeData,
          sent       \* history: changes sent so far

adapter == <<m_wasVolumeDataUpdated, m_lastVolumeData>>
server == <<handler, toPlayer, toServer, sink, adapter, sent>>

-----------------------------------------------------------------------------
(* VolumeApi: an event is sent, the answer does not wait for its effect. *)

Send(event) == toPlayer' = Append(toPlayer, event)

Change(event) ==
    /\ handler.pc = "idle"
    /\ Send(event)
    /\ sent' = sent + 1
    /\ UNCHANGED <<handler, toServer, sink, adapter>>

-----------------------------------------------------------------------------
(* getVolumeData *)

(* Neither an earlier request nor the answer to one is under way. *)
Quiet == /\ [type |-> "VOLUME_GET_REQUEST"] \notin ToSet(toPlayer)
         /\ toServer = <<>>

(* The request is written before the mutex is taken. *)
Request ==
    /\ handler.pc = "idle"
    /\ Send([type |-> "VOLUME_GET_REQUEST"])
    /\ handler' = [pc |-> "requested", quiet |-> Quiet, before |-> sent]
    /\ UNCHANGED <<toServer, sink, adapter, sent>>

(* A fault: an older answer is not forgotten. *)
ClearNothing ==
    /\ handler.pc = "requested"
    /\ handler' = [handler EXCEPT !.pc = "waiting"]
    /\ UNCHANGED <<toPlayer, toServer, sink, adapter, sent>>

(* m_wasVolumeDataUpdated = false, then the predicate of wait_for is false. *)
Clear ==
    /\ handler.pc = "requested"
    /\ m_wasVolumeDataUpdated' = FALSE
    /\ handler' = [handler EXCEPT !.pc = "waiting"]
    /\ UNCHANGED <<toPlayer, toServer, sink, m_lastVolumeData, sent>>

NoRequest == [pc |-> "idle", quiet |-> FALSE, before |-> 0]

Leave == /\ handler' = NoRequest
         /\ UNCHANGED <<toPlayer, toServer, sink, adapter, sent>>

(* wait_for returns because the predicate holds. *)
Return == handler.pc = "waiting" /\ m_wasVolumeDataUpdated /\ Leave

TimeoutNever == FALSE /\ Leave   \* a fault: wait instead of wait_for

(* TIMEOUT_DELAY has passed: runtime_error, and the answer 500. *)
Timeout == handler.pc = "waiting" /\ ~m_wasVolumeDataUpdated /\ Leave

(* setVolumeData_, by the reader. *)
SetVolumeData ==
    /\ toServer # <<>>
    /\ toServer' = Tail(toServer)
    /\ m_lastVolumeData' = Head(toServer)
    /\ m_wasVolumeDataUpdated' = TRUE
    /\ UNCHANGED <<handler, toPlayer, sink, sent>>

-----------------------------------------------------------------------------
(* ElevationPlayerMp3EventVisitor *)

Take(type) == /\ toPlayer # <<>>
              /\ Head(toPlayer).type = type
              /\ toPlayer' = Tail(toPlayer)

(* setVolume, mute and unmute wait until PulseAudio has done it. *)
OnChange ==
    /\ \/ /\ Take("VOLUME_CHANGE")
          /\ sink' = [sink EXCEPT !.volume = Head(toPlayer).volume, !.changes = @ + 1]
       \/ /\ Take("MUTE")
          /\ sink' = [sink EXCEPT !.isMuted = TRUE, !.changes = @ + 1]
       \/ /\ Take("UNMUTE")
          /\ sink' = [sink EXCEPT !.isMuted = FALSE, !.changes = @ + 1]
    /\ UNCHANGED <<handler, toServer, adapter, sent>>

(* What PulseVolume says of a volume it was set to: the way through          *)
(* fromLogScale_, PulseAudio's integers and toLogScale_ ends in a cast that  *)
(* truncates (10 comes back as 9, 15 as 15).                                 *)
Reading(volume) == IF volume \in Truncated THEN volume - 1 ELSE volume

OnVolumeGetRequest ==
    /\ Take("VOLUME_GET_REQUEST")
    /\ toServer' = Append(toServer, [sink EXCEPT !.volume = Reading(@)])
    /\ UNCHANGED <<handler, sink, adapter, sent>>

-----------------------------------------------------------------------------

(* What the flag and the data hold before the first answer is not defined:   *)
(* the flag is cleared before it is read, and the data is read under it.     *)
ServerInit ==
    /\ handler = NoRequest
    /\ toPlayer = <<>>
    /\ toServer = <<>>
    /\ sink \in VolumeData({0}) /\ ~sink.isMuted
    /\ m_wasVolumeDataUpdated \in BOOLEAN
    /\ m_lastVolumeData = sink
    /\ sent = 0

Player == OnChange \/ OnVolumeGetRequest
=============================================================================
