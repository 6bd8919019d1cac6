----------------------------- MODULE AudioOutput -----------------------------
(***************************************************************************)
(* The player's way from a decoded frame to PulseAudio: MadDecoder,         *)
(* MadAudioFormatter, and what PulseVolume and PulseOperation make of       *)
(* PulseAudio's callbacks.  The loop around them is in AutoPlayer, the      *)
(* volume that is set and read in VolumeRequests.                           *)
(***************************************************************************)
EXTENDS Bytes

(* mad_fixed_t, a signed integer of 32 bits with 28 after the point. *)
Highest == 2147483647
Lowest == -Highest - 1
Fixed == {n \in Int : Lowest <= n /\ n <= Highest}
MAD_F_ONE == 268435456

(* A frame of samples: pcm.channels, pcm.length, and pcm.samples[channel][k]. *)

-----------------------------------------------------------------------------
(* MadAudioFormatter *)

(* Half of what is cut off is added.  The sum is cut to 32 bits. *)
Half == 4096

Rounded(sample) == IF sample <= Highest - Half THEN sample + Half
                   ELSE (sample - Highest) + (Lowest + Half - 1)

Clipped(sample) == IF sample >= MAD_F_ONE THEN MAD_F_ONE - 1
                   ELSE IF sample < -MAD_F_ONE THEN -MAD_F_ONE ELSE sample

(* The shift of a negative number keeps its sign; dither_ adds nothing. *)
scale(sample) == Clipped(Rounded(sample)) \div (2 * Half)

Unsupported == [throws |-> "MP3 file does not support stereo"]

(* One channel is heard on both sides. *)
Side(pcm, side) == pcm.samples[IF pcm.channels = 2 THEN side ELSE 1]

format(pcm) ==
    IF pcm.channels \notin {1, 2} THEN Unsupported
    ELSE [data |-> [k \in 1 .. 4 * pcm.length |->
             LET side == (((k - 1) % 4) \div 2) + 1
             IN  TwoBytes(scale(Side(pcm, side)[((k - 1) \div 4) + 1]))[((k - 1) % 2) + 1]]]

-----------------------------------------------------------------------------
(* MadDecoder *)

(* error is what mad_frame_decode says of the frame.  A frame that is broken *)
(* is skipped; at the end of the file the decoder is done.                   *)
decodeNextFrame(error, pcm) ==
    CASE error = "none"        -> [isDone |-> FALSE, result |-> format(pcm)]
      [] error = "recoverable" -> [isDone |-> FALSE, result |-> [data |-> <<>>]]
      [] error = "buflen"      -> [isDone |-> TRUE,  result |-> [data |-> <<>>]]
      [] OTHER                 -> [isDone |-> FALSE, result |-> [throws |-> error]]

-----------------------------------------------------------------------------
(* PulseAudio's callbacks, in the order they come *)

(* pa_ready when initializeContext_ leaves its loop; 0 stands for never. *)
PaReady(states) ==
    LET known == SelectSeq(states, LAMBDA state : state \in {"READY", "FAILED", "TERMINATED"})
    IN  IF known = <<>> THEN 0 ELSE IF known[1] = "READY" THEN 1 ELSE 2

(* A callback with eol > 0 only says that there was nothing more. *)
Infos(callbacks) == SelectSeq(callbacks, LAMBDA callback : callback.eol <= 0)

(* initializeSinkData_ keeps the first sink it hears of, and the highest     *)
(* index there is, with no channel, when it hears of none.                   *)
NoSink == [index |-> "UINT32_MAX", channels |-> 0]

Sink(callbacks) ==
    LET infos == Infos(callbacks)
    IN  IF infos = <<>> THEN NoSink
        ELSE [index |-> infos[1].index, channels |-> infos[1].channels]

(* getSinkState_ keeps the last; what it begins with is muted and at 255. *)
NoSinkState == [isMuted |-> TRUE, volume |-> 255]

SinkState(callbacks) ==
    LET infos == Infos(callbacks)
    IN  IF infos = <<>> THEN NoSinkState
        ELSE [isMuted |-> infos[Len(infos)].mute # 0, volume |-> infos[Len(infos)].volume]

(* An operation that is cancelled never comes to be done. *)
WaitEnds(states) == \E k \in 1 .. Len(states) : states[k] = "DONE"
=============================================================================
