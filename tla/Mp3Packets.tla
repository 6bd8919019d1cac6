----------------------------- MODULE Mp3Packets -----------------------------
(***************************************************************************)
(* The events between the https server and the player as bytes: what the    *)
(* classes of common/mp3/event serialize, and what Mp3EventPacketReader     *)
(* makes of a stream.  VolumeRequests and Jukebox take events as whole.     *)
(*                                                                          *)
(* A stream is the sequence of the bytes that were written to it until it   *)
(* was closed, and at the number of those that have been read.              *)
(***************************************************************************)
EXTENDS Bytes

(* The enumeration, from 1. *)
EventTypes == <<"VOLUME_CHANGE", "MUTE", "UNMUTE", "VOLUME_GET_REQUEST",
                "VOLUME_GET_RESPONSE", "STOP_SONG">>

EventType(type) == CHOOSE code \in 1 .. 6 : EventTypes[code] = type

Payloadless == {"MUTE", "UNMUTE", "VOLUME_GET_REQUEST", "STOP_SONG"}

Mp3Event == [type : Payloadless]
            \cup [type : {"VOLUME_CHANGE"}, volume : Byte]
            \cup [type : {"VOLUME_GET_RESPONSE"}, volume : Byte, isMuted : BOOLEAN]

(* 0x8d8315d4, its last byte first *)
EVENT_SIGNATURE == <<212, 21, 131, 141>>
PADDING == 0
DATA_SIZE == 16

-----------------------------------------------------------------------------
(* Writing *)

Header(event) == EVENT_SIGNATURE \o TwoBytes(EventType(event.type))

Payload(event) ==
    CASE event.type = "VOLUME_CHANGE"       -> <<event.volume>>
      [] event.type = "VOLUME_GET_RESPONSE" -> <<event.volume, IF event.isMuted THEN 1 ELSE 0>>
      [] OTHER                              -> <<>>

(* What is longer than DATA_SIZE would throw: no event is. *)
padToDataSize(data) == [k \in 1 .. DATA_SIZE |-> IF k <= Len(data) THEN data[k] ELSE PADDING]

serialize(event) == padToDataSize(Header(event) \o Payload(event))

(* operator== of the event on the left: a response is like any other. *)
Equal(event, other) ==
    /\ event.type = other.type
    /\ event.type = "VOLUME_CHANGE" => event.volume = other.volume

-----------------------------------------------------------------------------
(* Reading *)

Closed(in, at) == at >= Len(in)

(* An event is written whole, so ::read gives what is asked for, or, before   *)
(* the end of the stream, what there is: zeros stand for the rest.           *)
Read(in, at, size) == [k \in 1 .. size |-> IF at + k <= Len(in) THEN in[at + k] ELSE 0]

Advance(in, at, size) == IF at + size <= Len(in) THEN at + size ELSE Len(in)

UnknownEvent == [type |-> "unknown event type"]
NotAnEvent == [type |-> "received data is not an event"]
SocketClosed == [type |-> "socket closed"]

deserializeEvent(code, payload) ==
    CASE code \notin 1 .. 6 -> UnknownEvent
      [] code \in 1 .. 6 /\ EventTypes[code] \in Payloadless ->
             [type |-> EventTypes[code]]
      [] code \in 1 .. 6 /\ EventTypes[code] = "VOLUME_CHANGE" ->
             [type |-> "VOLUME_CHANGE", volume |-> payload[1]]
      [] code \in 1 .. 6 /\ EventTypes[code] = "VOLUME_GET_RESPONSE" ->
             [type |-> "VOLUME_GET_RESPONSE", volume |-> payload[1], isMuted |-> payload[2] # 0]

(* The event or the exception, and how far the stream has been read. *)
readEvent(in, at) ==
    LET type == Read(in, at + 4, 2)
        Ends(result, size) == [result |-> result, at |-> Advance(in, at, size)]
    IN  CASE Closed(in, at)                       -> Ends(SocketClosed, 0)
          [] /\ ~Closed(in, at)
             /\ Read(in, at, 4) # EVENT_SIGNATURE -> Ends(NotAnEvent, 4)
          [] /\ Read(in, at, 4) = EVENT_SIGNATURE
             /\ Closed(in, at + 6)                -> Ends(SocketClosed, 6)
          [] OTHER -> Ends(deserializeEvent(type[1] + 256 * type[2], Read(in, at + 6, 10)),
                           DATA_SIZE)
=============================================================================
