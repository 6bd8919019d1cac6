------------------------------- MODULE Base64 -------------------------------
(***************************************************************************)
(* common/misc/Base64.hpp: Encode and Decode, of a string, of a buffer and  *)
(* of a stream; postFile_ decodes a stream, the body of a request.  The     *)
(* loops over groups of three bytes and of four characters are written as   *)
(* functions of the place in the output.                                    *)
(*                                                                          *)
(* What is decoded has no white space: the phone encodes without wrapping.  *)
(***************************************************************************)
EXTENDS Bytes, FiniteSetsExt

Digit == 0 .. 63
Pad == 61   \* '='
WhiteSpace == (9 .. 13) \cup {32}

-----------------------------------------------------------------------------

kBase64Alphabet(d) == CASE d < 26            -> d + 65   \* A .. Z
                        [] d \in 26 .. 51    -> d + 71   \* a .. z
                        [] d \in 52 .. 61    -> d - 4    \* 0 .. 9
                        [] d = 62            -> 43       \* +
                        [] OTHER             -> 47       \* /

b64_lookup(c) == CASE c \in 65 .. 90   -> c - 65
                   [] c \in 97 .. 122  -> c - 71
                   [] c \in 48 .. 57   -> c + 4
                   [] c = 43           -> 62
                   [] c = 47           -> 63
                   [] OTHER            -> 255

a3_to_a4(a3) == <<a3[1] \div 4,
                  (a3[1] % 4) * 16 + (a3[2] \div 16),
                  (a3[2] % 16) * 4 + (a3[3] \div 64),
                  a3[3] % 64>>

(* The sums are stored in bytes; b64_lookup may have given 255. *)
a4_to_a3(a4) == <<(a4[1] * 4 + ((a4[2] % 64) \div 16)) % 256,
                  ((a4[2] % 16) * 16 + ((a4[3] % 64) \div 4)) % 256,
                  ((a4[3] % 4) * 64 + a4[4]) % 256>>

-----------------------------------------------------------------------------
(* Encode *)

EncodedLength(length) == ((length + 2 - ((length + 2) % 3)) \div 3) * 4

(* The three bytes of a group, zeros after the last. *)
A3(in, group) == [j \in 1 .. 3 |-> IF 3 * group + j <= Len(in) THEN in[3 * group + j] ELSE 0]

Encode(in) ==
    [k \in 1 .. EncodedLength(Len(in)) |->
        LET group == (k - 1) \div 4
            j == (k - 1) % 4
        IN  IF 3 * group + j <= Len(in) THEN kBase64Alphabet(a3_to_a4(A3(in, group))[j + 1])
            ELSE Pad]

(* Of a buffer: refused, with nothing written, when it has no room. *)
EncodeBuffer(in, out_length) ==
    IF out_length < EncodedLength(Len(in)) THEN [done |-> FALSE, out |-> <<>>]
    ELSE [done |-> TRUE, out |-> Encode(in)]

(* Of a stream: >> skips white space, and the extraction that fails at the   *)
(* end counts as a byte, whatever a3 held there.                             *)
EncodeStream(in, stale) ==
    Encode(Append(SelectSeq(in, LAMBDA byte : byte \notin WhiteSpace), stale))

-----------------------------------------------------------------------------
(* The lengths, from the end of the text.  They are not asked for of a text  *)
(* that is empty or all '=': the loop would run past its beginning.          *)

TextEnd(in) == Max({0} \cup {k \in 1 .. Len(in) : in[k] # Pad})

StripPadding(in) == SubSeq(in, 1, TextEnd(in))

DecodedLength(in) == (6 * Len(in)) \div 8 - (Len(in) - TextEnd(in))

-----------------------------------------------------------------------------
(* Decode *)

Padding(in) == {k \in 1 .. Len(in) : in[k] = Pad}

(* The characters before the first '='. *)
TextLength(in) ==
    IF Padding(in) = {} THEN Len(in)
    ELSE (CHOOSE k \in Padding(in) : \A l \in Padding(in) : k <= l) - 1

Character(in, taken, stale, k) ==
    IF k <= TextLength(in) THEN in[k] ELSE IF k <= taken THEN stale ELSE 0

A4(in, taken, stale, group) ==
    [j \in 1 .. 4 |-> b64_lookup(Character(in, taken, stale, 4 * group + j))]

(* Three bytes for each four characters, and one less than what is left.     *)
WrittenLength(taken) == 3 * (taken \div 4) + (IF taken % 4 = 0 THEN 0 ELSE (taken % 4) - 1)

(* The loop of every Decode, when it takes so many characters. *)
DecodeTaken(in, taken, stale) ==
    [k \in 1 .. WrittenLength(taken) |->
        a4_to_a3(A4(in, taken, stale, (k - 1) \div 3))[((k - 1) % 3) + 1]]

(* Without a '=' the end of the stream is only noticed by an extraction that *)
(* fails: it counts as a character and leaves a4 as it was, stale.           *)
Extractions(in) == TextLength(in) + (IF Padding(in) = {} THEN 1 ELSE 0)

(* Of a stream, the one postFile_ uses. *)
Decode(in, stale) == DecodeTaken(in, Extractions(in), stale)

(* Of a string: the output has the length foreseen, and the answer is        *)
(* whether that many bytes were written.                                     *)
DecodeString(in) ==
    LET bytes == DecodeTaken(in, TextLength(in), 0)
    IN  [done |-> Len(bytes) = DecodedLength(in),
         out |-> [k \in 1 .. DecodedLength(in) |-> IF k <= Len(bytes) THEN bytes[k] ELSE 0]]

(* Of a buffer: refused, with nothing written, when it has no room. *)
DecodeBuffer(in, out_length) ==
    IF out_length < DecodedLength(in) THEN [done |-> FALSE, out |-> <<>>]
    ELSE LET bytes == DecodeTaken(in, TextLength(in), 0)
         IN  [done |-> Len(bytes) = DecodedLength(in), out |-> bytes]
=============================================================================
