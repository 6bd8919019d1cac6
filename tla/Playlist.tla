------------------------------- MODULE Playlist -------------------------------
(***************************************************************************)
(* What the song queue promises: songs are numbered as they arrive, each    *)
(* takes the last place in the line, leaves it once and never comes back,   *)
(* and places change only when the administrator exchanges those of two     *)
(* songs.  One that has left may still be exchanged, as it was there when   *)
(* that was asked for: so it keeps a place, but is not played again.        *)
(***************************************************************************)
EXTENDS Naturals, Sequences

VARIABLES waiting,  \* the songs in the queue
          place     \* song -> its place; songs are played by their places

Init == waiting = {} /\ place = <<>>

(* A song arrives: it goes last. *)
Add ==
    LET new == Len(place) + 1
    IN  /\ waiting' = waiting \cup {new}
        /\ place' = Append(place, new)

(* A song is played or deleted. *)
Leave ==
    /\ \E i \in waiting : waiting' = waiting \ {i}
    /\ UNCHANGED place

(* A process of the server starts. *)
Clear ==
    /\ waiting' = {}
    /\ UNCHANGED place

(* Two songs exchange places; songs deleted meanwhile leave with it. *)
Exchange ==
    /\ \E k, l \in DOMAIN place :
          /\ k # l
          /\ place' = [place EXCEPT ![k] = place[l], ![l] = place[k]]
    /\ waiting' \in SUBSET waiting

Next == Add \/ Leave \/ Clear \/ Exchange

Spec == Init /\ [][Next]_<<waiting, place>>
=============================================================================
