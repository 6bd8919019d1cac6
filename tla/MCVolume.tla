------------------------------- MODULE MCVolume -------------------------------
(* The events as bytes, and what is done with the sound: what the codecs do    *)
(* over small inputs, beside what Volume_proofs states of all.                *)
EXTENDS VolumeKeys, TLC

P == INSTANCE Mp3Packets

Events == [type : P!Payloadless]
          \cup [type : {"VOLUME_CHANGE"}, volume : {0, 60, 255}]
          \cup [type : {"VOLUME_GET_RESPONSE"}, volume : {0, 101}, isMuted : BOOLEAN]

(* Events that follow one another are read one by one, until the socket is    *)
(* closed.                                                                   *)
ASSUME EventByEvent ==
    \A first, second \in Events :
       LET in == P!serialize(first) \o P!serialize(second)
       IN  /\ P!readEvent(in, 0) = [result |-> first, at |-> 16]
           /\ P!readEvent(in, 16) = [result |-> second, at |-> 32]
           /\ P!readEvent(in, 32).result = P!SocketClosed

(* One byte that is lost costs every event after it: the reader takes four    *)
(* bytes at a time until they are a signature, which may be never.           *)
ASSUME LostByteLosesTheRest ==
    \A first, second \in Events :
       LET in == Tail(P!serialize(first) \o P!serialize(second))
           at[k \in 0 .. 8] == IF k = 0 THEN 0 ELSE P!readEvent(in, at[k - 1]).at
       IN  /\ \A k \in 0 .. 7 : P!readEvent(in, at[k]).result \in {P!NotAnEvent, P!SocketClosed}
           /\ at[8] = Len(in)

(* == agrees with itself on both sides, and does not see what a response says. *)
ASSUME EqualBothWays ==
    \A first, second \in Events :
       /\ P!Equal(first, second) <=> P!Equal(second, first)
       /\ P!Equal(first, second) /\ first # second => first.type = "VOLUME_GET_RESPONSE"

-----------------------------------------------------------------------------

A == INSTANCE AudioOutput

Samples == {-A!MAD_F_ONE, -A!MAD_F_ONE - 1, -8192, -4097, -4096, -1, 0, 4095, 4096, 8191,
            A!MAD_F_ONE - 4097, A!MAD_F_ONE - 4096, A!MAD_F_ONE, A!Highest - 4096}

(* What is louder is never given less, up to where the sum overflows; above,  *)
(* the loudest sample is given as the lowest step.                           *)
ASSUME LouderIsLouder ==
    /\ \A m, n \in Samples : m <= n => A!scale(m) <= A!scale(n)
    /\ A!scale(A!Highest - 4096) = 32767 /\ A!scale(A!Highest - 4095) = -32768

(* One channel is heard like the same sound on two. *)
ASSUME MonoIsBothSides ==
    \A left, right \in [1 .. 2 -> {-8192, 0, 8192}] :
       A!format([channels |-> 1, length |-> 2, samples |-> <<left, right>>])
         = A!format([channels |-> 2, length |-> 2, samples |-> <<left, left>>])

(* A frame is heard, skipped, the end, or an error that ends the song. *)
ASSUME FrameByFrame ==
    LET pcm == [channels |-> 1, length |-> 1, samples |-> <<<<0>>, <<0>>>>]
    IN  /\ \A error \in {"none", "recoverable", "buflen", "lost"} :
              A!decodeNextFrame(error, pcm).isDone <=> error = "buflen"
        /\ A!decodeNextFrame("lost", pcm).result = [throws |-> "lost"]
        /\ A!decodeNextFrame("none", [pcm EXCEPT !.channels = 3]).result = A!Unsupported

Callbacks == UNION {[1 .. n -> [eol : {-1, 0, 1}, index : {1, 2}, channels : {2}, mute : {0, 1},
                                volume : {20}]] : n \in 0 .. 2}

(* A sink that is not there is muted and at 255 %, not an error. *)
ASSUME NoSinkIsMuted ==
    \A callbacks \in Callbacks :
       /\ A!SinkState(callbacks) = A!NoSinkState <=> A!Sink(callbacks) = A!NoSink
       /\ A!Sink(callbacks) = A!NoSink <=> \A k \in DOMAIN callbacks : callbacks[k].eol > 0

(* The player waits for PulseAudio until it is ready or refuses, and goes on   *)
(* either way; an operation that is cancelled is waited for without end.     *)
ASSUME WaitsForPulseAudio ==
    LET States == {"CONNECTING", "AUTHORIZING", "READY", "FAILED", "TERMINATED"}
    IN  /\ \A states \in [1 .. 3 -> States] :
              A!PaReady(states) = 0 <=> \A k \in 1 .. 3 : states[k] \in {"CONNECTING", "AUTHORIZING"}
        /\ \A state \in {"READY", "FAILED"} : A!PaReady(<<"CONNECTING", state>>) # 0
        /\ ~A!WaitEnds(<<"RUNNING", "CANCELLED">>) /\ A!WaitEnds(<<"RUNNING", "DONE">>)
=============================================================================
