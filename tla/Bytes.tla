-------------------------------- MODULE Bytes --------------------------------
(* What the codecs of common/misc, common/mp3 and the player's output share. *)
EXTENDS Integers, Sequences

Byte == 0 .. 255

(* An integer of 16 bits in memory, signed or not: the low byte first. *)
TwoBytes(n) == <<n % 256, (n \div 256) % 256>>
=============================================================================
