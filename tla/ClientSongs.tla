----------------------------- MODULE ClientSongs -----------------------------
(***************************************************************************)
(* The songs of the phone, from the send button to the song queue of the    *)
(* server and back: LocalSongAdapter, DataProvider, and sendSong and        *)
(* getSongList of RestRequestService.                                       *)
(*                                                                          *)
(* The button is pressed on the main thread; the listener of SendSongEvent, *)
(* the upload it launches and the lists of the refresh loop each run on a   *)
(* thread of a pool.  A song is a title and an artist, which is all that    *)
(* updateLocalSongSendState compares.  The server is external: its queue    *)
(* outlives the client and changes at any time, so a list names any songs.  *)
(***************************************************************************)
EXTENDS Naturals, FiniteSets

CONSTANTS LocalSong,      \* the songs of the phone
          Upload, List,   \* bounds: uploads and lists under way (two lists: ClientJobs!raced)
          MAX_CONCURRENT_SENDING,
          MAX_OWNED       \* a user's songs in the queue, 5 in getView

ASSUME SongsAssumption == IsFiniteSet(LocalSong) /\ "no song" \notin LocalSong
ASSUME MaxAssumption == MAX_CONCURRENT_SENDING \in Nat

VARIABLES admin,       \* AppStateService: the client is the administrator
          songStates,  \* DataProvider
          owned,       \* LocalSongAdapter.ownedSongs
          drawn,       \* the songs whose send button was drawn enabled
          upload,      \* Upload -> a SendSongEvent, from the tap to its last change
          list,        \* List -> how far updateLocalSongSendState is with it
          mixed,       \* history: songs a list marked as sent, or that were tapped
                       \* again, while they were being sent
          overtaken,   \* history: songs tapped between the reading of their state for
                       \* a list and the writing of it
          dropped      \* history: songs whose event came to an administrator

client == <<admin, songStates, owned, drawn>>
history == <<mixed, overtaken, dropped>>
vars == <<client, upload, list, history>>

-----------------------------------------------------------------------------
(* State *)

(* LocalSongSendState, in its order. *)
NOT_SENT == 0
SENDING == 1
WAITING_FOR_SERVER_QUEUE == 2
SENT == 3

Song == LocalSong \X {"mine", "other"}   \* sentBy is null, or it is not
NoSong == "no song"

SendSong == [pc : {"free", "listen", "sent"}, song : LocalSong \cup {NoSong}]
NoUpload == [pc |-> "free", song |-> NoSong]

Uploading(song) == \E u \in Upload : upload[u].song = song

(* The songs of a list to mark yet, the songs of the phone to look at after   *)
(* that, and the one whose state was read and is to be reset.                *)
Listed == [named : SUBSET LocalSong, unread : SUBSET LocalSong, reset : LocalSong \cup {NoSong}]
NoList == [named |-> {}, unread |-> {}, reset |-> NoSong]

ToReset(song) == \E l \in List : list[l].reset = song

-----------------------------------------------------------------------------
(* The views *)

(* getView: the buttons as they are drawn, until they are drawn again. *)
Draw ==
    /\ drawn' = {song \in LocalSong : /\ Cardinality(owned) < MAX_OWNED
                                      /\ song \notin owned
                                      /\ ~admin
                                      /\ songStates[song] <= NOT_SENT}
    /\ drawn' # drawn
    /\ UNCHANGED <<admin, songStates, owned, upload, list, history>>

InFlight == {song \in LocalSong : NOT_SENT < songStates[song] /\ songStates[song] < SENT}

RoomAlways == TRUE   \* a fault: the songs in flight are not counted

Room == Cardinality(InFlight) < MAX_CONCURRENT_SENDING

(* The listener of the button. *)
Tap(u, song) ==
    /\ upload[u].pc = "free"
    /\ song \in drawn
    /\ Room
    /\ songStates' = [songStates EXCEPT ![song] = SENDING]
    /\ upload' = [upload EXCEPT ![u] = [NoUpload EXCEPT !.pc = "listen", !.song = song]]
    /\ mixed' = IF Uploading(song) THEN mixed \cup {song} ELSE mixed \ {song}
    /\ overtaken' = IF ToReset(song) THEN overtaken \cup {song} ELSE overtaken \ {song}
    /\ dropped' = dropped \ {song}
    /\ UNCHANGED <<admin, owned, drawn, list>>

(* A login or a logout has ended (ClientJobs). *)
SetState ==
    /\ admin' = ~admin
    /\ UNCHANGED <<songStates, owned, drawn, upload, list, history>>

-----------------------------------------------------------------------------
(* sendSong *)

(* onSendSong: an administrator's event is dropped, a user's is launched. *)
Dropped(u) ==
    /\ upload[u].pc = "listen" /\ admin
    /\ upload' = [upload EXCEPT ![u] = NoUpload]
    /\ dropped' = dropped \cup {upload[u].song}
    /\ UNCHANGED <<client, list, mixed, overtaken>>

Launched(u) ==
    /\ upload[u].pc = "listen" /\ ~admin
    /\ upload' = [upload EXCEPT ![u].pc = "sent"]
    /\ UNCHANGED <<client, list, history>>

(* A fault: the state is changed whatever a list has done to it meanwhile. *)
SongSentAlways(u) ==
    /\ upload[u].pc = "sent"
    /\ \E next \in {WAITING_FOR_SERVER_QUEUE, SENDING} :
         songStates' = [songStates EXCEPT ![upload[u].song] = next]
    /\ upload' = [upload EXCEPT ![u] = NoUpload]
    /\ UNCHANGED <<admin, owned, drawn, list, history>>

(* The answer: posted, or refused, never arrived or given up after 60 s.     *)
(* The RequestQueueReloadEvent that follows is one more list.                *)
SongSent(u) ==
    /\ upload[u].pc = "sent"
    /\ \E next \in {WAITING_FOR_SERVER_QUEUE, NOT_SENT} :
         songStates' = [songStates EXCEPT ![upload[u].song] = IF @ <= SENDING THEN next ELSE @]
    /\ upload' = [upload EXCEPT ![u] = NoUpload]
    /\ UNCHANGED <<admin, owned, drawn, list, history>>

-----------------------------------------------------------------------------
(* getSongList *)

Named(songs) == {song[1] : song \in songs}

(* A list has come, with any songs, or none if the request failed:           *)
(* setSongQueue, and ownedSongs in onSongQueueChange.                         *)
ListReceived(l) ==
    \E songs \in SUBSET Song :
        /\ list[l] = NoList
        /\ owned' = {song \in LocalSong : <<song, "mine">> \in songs}
        /\ list' = [list EXCEPT ![l] = [NoList EXCEPT !.named = Named(songs), !.unread = LocalSong]]
        /\ UNCHANGED <<admin, songStates, drawn, upload, history>>

(* updateLocalSongSendState, in any order of the songs: first those it names. *)
MarkSent(l, song) ==
    /\ song \in list[l].named
    /\ songStates' = [songStates EXCEPT ![song] = SENT]
    /\ list' = [list EXCEPT ![l].named = @ \ {song}]
    /\ mixed' = IF Uploading(song) THEN mixed \cup {song} ELSE mixed
    /\ UNCHANGED <<admin, owned, drawn, upload, overtaken, dropped>>

(* A fault: a song being sent is taken for one that is not listed any more. *)
ReadAnyState(l, song) ==
    /\ list[l].named = {} /\ list[l].reset = NoSong /\ song \in list[l].unread
    /\ list' = [list EXCEPT ![l].unread = @ \ {song},
                            ![l].reset = IF song \notin owned THEN song ELSE NoSong]
    /\ UNCHANGED <<client, upload, history>>

(* Then those of the phone: the state is read here, and written in ResetState *)
(* by the same thread, which holds no lock between the two.                   *)
ReadState(l, song) ==
    /\ list[l].named = {} /\ list[l].reset = NoSong /\ song \in list[l].unread
    /\ list' = [list EXCEPT ![l].unread = @ \ {song},
                            ![l].reset = IF /\ songStates[song] >= WAITING_FOR_SERVER_QUEUE
                                            /\ song \notin owned
                                         THEN song ELSE NoSong]
    /\ UNCHANGED <<client, upload, history>>

ResetState(l) ==
    LET song == list[l].reset IN
    /\ song # NoSong
    /\ songStates' = [songStates EXCEPT ![song] = NOT_SENT]
    /\ list' = [list EXCEPT ![l].reset = NoSong]
    /\ UNCHANGED <<admin, owned, drawn, upload, history>>

-----------------------------------------------------------------------------

Init ==
    /\ admin = FALSE
    /\ songStates = [song \in LocalSong |-> NOT_SENT]
    /\ owned = {} /\ drawn = {}
    /\ upload = [u \in Upload |-> NoUpload]
    /\ list = [l \in List |-> NoList]
    /\ mixed = {} /\ overtaken = {} /\ dropped = {}

sendSong(u) == Dropped(u) \/ Launched(u) \/ SongSent(u)

getSongList(l) == \/ ListReceived(l) \/ ResetState(l)
                  \/ \E song \in LocalSong : MarkSent(l, song) \/ ReadState(l, song)

Next == \/ Draw \/ SetState
        \/ \E u \in Upload : sendSong(u) \/ \E song \in LocalSong : Tap(u, song)
        \/ \E l \in List : getSongList(l)

Spec == Init /\ [][Next]_vars

-----------------------------------------------------------------------------
(* Properties *)

(* Type invariant. *)
TypeOK ==
    /\ admin \in BOOLEAN
    /\ songStates \in [LocalSong -> NOT_SENT .. SENT]
    /\ owned \subseteq LocalSong /\ drawn \subseteq LocalSong
    /\ upload \in [Upload -> SendSong] /\ list \in [List -> Listed]
    /\ mixed \subseteq LocalSong /\ overtaken \subseteq LocalSong /\ dropped \subseteq LocalSong

(* A song on its way to the server is not shown as one that can be sent,     *)
(* however its upload, lists and other songs overlap, unless                 *)
(*   - it was tapped twice before its button was drawn again, or a list      *)
(*     marked it meanwhile: a song of the same title and artist that is      *)
(*     somebody else's makes it sent, and then not sent (mixed); or          *)
(*   - it was tapped after its old state was read to be reset and before     *)
(*     that was done (overtaken): updateLocalSongSendState then writes       *)
(*     NOT_SENT over the SENDING of the tap.                                 *)
Told == LocalSong \ (mixed \cup overtaken)

NotOfferedTwice ==
    \A song \in Told : Uploading(song) => songStates[song] # NOT_SENT

(* MAX_CONCURRENT_SENDING bounds the songs that are really on their way,     *)
(* with the same exceptions, and not only those that are shown so.           *)
LimitOfUploads ==
    Cardinality({song \in Told : Uploading(song)}) <= MAX_CONCURRENT_SENDING

(* A song at SENDING, which cannot be sent again, is really being sent: the  *)
(* end of its upload gives it another state, unless its event came to a      *)
(* client that had become administrator, where nothing ever does             *)
(* (onSendSong).                                                             *)
SendingIsSent ==
    \A song \in LocalSong : songStates[song] = SENDING => Uploading(song) \/ song \in dropped
=============================================================================
