------------------------------ MODULE MCJukebox ------------------------------
EXTENDS JukeboxPlaylist, TLC

(* What postFile_ decodes, over short bodies: what the phone encoded; and one *)
(* byte too many where the text has lost its padding (Base64.hpp:214-220).    *)
B64 == INSTANCE Base64

Bodies == UNION {[1 .. length -> {0, 63, 130, 255}] : length \in 0 .. 4}

ASSUME DecodeIsInverse ==
    \A in \in Bodies, stale \in {0, 65} : B64!Decode(B64!Encode(in), stale) = in

ASSUME PaddingIsNeeded ==
    \A in \in Bodies :
       LET text == SubSeq(B64!Encode(in), 1, B64!TextLength(B64!Encode(in)))
       IN  Len(B64!Decode(text, 65)) = Len(in) + (IF Len(in) % 3 = 0 THEN 0 ELSE 1)

(* The three that decode agree on a body that is not empty, if they have room *)
(* for it; so do the two that encode.                                        *)
ASSUME OverloadsAgree ==
    \A in \in Bodies \ {<<>>} :
       LET text == B64!Encode(in)
       IN  /\ B64!DecodeString(text) = [done |-> TRUE, out |-> in]
           /\ B64!DecodeBuffer(text, Len(in)) = [done |-> TRUE, out |-> in]
           /\ ~B64!DecodeBuffer(text, Len(in) - 1).done
           /\ B64!EncodeBuffer(in, Len(text)) = [done |-> TRUE, out |-> text]
           /\ ~B64!EncodeBuffer(in, Len(text) - 1).done

(* What is encoded from a stream is not the body: it has lost its white space *)
(* and gained a byte.                                                        *)
ASSUME StreamEncodesOneMore ==
    \A in \in Bodies :
       B64!Decode(B64!EncodeStream(in \o <<32>> \o in, 65), 0) = Append(in \o in, 65)

CONSTANTS t1, t2, t3   \* titles, in the order PostedInOrder posts them

(* Threads are interchangeable; so are users and titles. *)
Symmetry == Permutations(Slot) \cup Permutations(User) \cup Permutations(Title)

(* Liveness cannot be checked under symmetry.  Where only one post is in     *)
(* flight and no song is posted twice, the titles may be posted in one order. *)
PostedInOrder ==
    \A r \in Slot : req'[r].pc = "name" => req'[r].content = <<t1, t2, t3>>[Len(songs') + 1]

(* What overlaps: whole uploads and user deletions, or the administrator's   *)
(* requests and the posts they reorder.                                      *)
UserTraffic == [post |-> 2, delete |-> 2, admin |-> 0, invert |-> 0]
AdminTraffic == [post |-> 1, delete |-> 0, admin |-> 1, invert |-> 2]
DeletionTraffic == [post |-> 1, delete |-> 0, admin |-> 1, invert |-> 0]
SwapTraffic == [post |-> 1, delete |-> 0, admin |-> 0, invert |-> 1]
=============================================================================
