------------------------- MODULE ClientSongs_proofs -------------------------
(***************************************************************************)
(* A song that no list marked while it was sent, that was tapped once, and  *)
(* whose state nobody had read to reset it, has one upload and is at        *)
(* SENDING until that upload ends: so it is not offered again, and counts   *)
(* in what bounds the next tap.                                             *)
(***************************************************************************)
EXTENDS ClientSongs, FiniteSetTheorems, TLAPS

Registered == \A u \in Upload : upload[u].pc = "free" <=> upload[u].song = NoSong

Alone ==
    \A song \in Told, u \in Upload :
        upload[u].song = song =>
            /\ songStates[song] = SENDING
            /\ ~ToReset(song)
            /\ \A v \in Upload : upload[v].song = song => u = v

Clean == {song \in Told : Uploading(song)}

IInv == TypeOK /\ Registered /\ Alone /\ LimitOfUploads /\ SendingIsSent

USE DEF NOT_SENT, SENDING, WAITING_FOR_SERVER_QUEUE, SENT

(* What a slot without an upload holds is no song. *)
LEMMA NoSongIsNone == NoSong \notin LocalSong /\ NoUpload \in SendSong /\ NoList \in Listed
<1>1. NoSong \notin LocalSong
  BY SongsAssumption DEF NoSong
<1> QED BY <1>1 DEF NoUpload, SendSong, NoList, Listed

(* No song is uploaded at first. *)
LEMMA InitIInv == Init => IInv
<1> SUFFICES ASSUME Init PROVE IInv
  OBVIOUS
<1>1. TypeOK
  <2>1. songStates \in [LocalSong -> NOT_SENT .. SENT]
    BY DEF Init
  <2>2. upload \in [Upload -> SendSong] /\ list \in [List -> Listed]
    BY NoSongIsNone DEF Init
  <2> QED BY <2>1, <2>2 DEF Init, TypeOK
<1>2. Registered /\ Alone
  BY NoSongIsNone DEF Init, Registered, Alone, NoUpload, Told
<1>3. {song \in Told : Uploading(song)} = {}
  BY NoSongIsNone DEF Init, Uploading, NoUpload, Told
<1>4. LimitOfUploads
  BY <1>3, FS_EmptySet, MaxAssumption DEF LimitOfUploads
<1>5. SendingIsSent
  BY DEF Init, SendingIsSent
<1> QED BY <1>1, <1>2, <1>4, <1>5 DEF IInv

(* The bound holds on where nothing more is uploaded unmixed. *)
LEMMA LimitKept ==
    ASSUME LimitOfUploads, Clean' \subseteq Clean
    PROVE  LimitOfUploads'
<1>1. IsFiniteSet(Clean)
  BY SongsAssumption, FS_Subset DEF Clean, Told
<1>2. Cardinality(Clean') <= Cardinality(Clean) /\ Cardinality(Clean') \in Nat /\ Cardinality(Clean) \in Nat
  BY <1>1, FS_Subset, FS_CardinalityType
<1> QED BY <1>2, MaxAssumption DEF LimitOfUploads, Clean

(* Steps that touch no upload: a song that is being sent stays at SENDING   *)
(* or is mixed, none comes to be at SENDING, and none at SENDING to be reset. *)
LEMMA SettledIInv ==
    ASSUME IInv, TypeOK', UNCHANGED <<upload, overtaken, dropped>>, mixed \subseteq mixed',
           \A song \in LocalSong :
              /\ songStates'[song] = SENDING => songStates[song] = SENDING
              /\ songStates[song] = SENDING /\ ~ToReset(song) /\ Uploading(song)
                    => song \in mixed' \/ (songStates'[song] = SENDING /\ ~ToReset(song)')
    PROVE  IInv'
<1>1. Registered'
  BY DEF IInv, Registered
<1>2. ASSUME NEW song \in Told', NEW u \in Upload, upload'[u].song = song
      PROVE  /\ songStates'[song] = SENDING /\ ~ToReset(song)'
             /\ \A v \in Upload : upload'[v].song = song => u = v
  <2>1. song \in Told /\ song \notin mixed' /\ upload[u].song = song /\ Uploading(song)
    BY <1>2 DEF Told, Uploading
  <2>2. /\ songStates[song] = SENDING /\ ~ToReset(song)
        /\ \A v \in Upload : upload[v].song = song => u = v
    BY <2>1 DEF IInv, Alone
  <2> QED BY <2>1, <2>2 DEF Told
<1>3. Alone'
  BY <1>2 DEF Alone
<1>4. Clean' \subseteq Clean
  BY DEF Clean, Uploading, Told
<1>5. SendingIsSent'
  BY DEF IInv, SendingIsSent, Uploading
<1> QED BY <1>1, <1>3, <1>4, <1>5, LimitKept DEF IInv

(* An upload goes on, with its song. *)
LEMMA LaunchedIInv ==
    ASSUME IInv, NEW u \in Upload, Launched(u)
    PROVE  IInv'
<1>1. /\ UNCHANGED <<client, list, history>>
      /\ upload' = [upload EXCEPT ![u].pc = "sent"] /\ upload[u].pc = "listen"
  BY DEF Launched
<1>2. upload' \in [Upload -> SendSong]
  BY <1>1 DEF IInv, TypeOK, SendSong
<1>3. \A v \in Upload : upload'[v].song = upload[v].song
  BY <1>1 DEF IInv, TypeOK, SendSong
<1>4. \A v \in Upload : upload'[v].pc = "free" <=> upload[v].pc = "free"
  BY <1>1 DEF IInv, TypeOK, SendSong
<1>5. TypeOK'
  BY <1>1, <1>2 DEF IInv, TypeOK, client, history
<1>6. Registered' /\ Alone'
  BY <1>1, <1>3, <1>4 DEF IInv, Registered, Alone, client, history, Told, ToReset
<1>7. Clean' \subseteq Clean
  BY <1>1, <1>3 DEF Clean, Uploading, history, Told
<1>8. SendingIsSent'
  BY <1>1, <1>3 DEF IInv, SendingIsSent, Uploading, client, history
<1> QED BY <1>5, <1>6, <1>7, <1>8, LimitKept DEF IInv

(* An upload ends: what it leaves has no other, and is not at SENDING, or its *)
(* event was dropped.                                                        *)
LEMMA EndedIInv ==
    ASSUME IInv, TypeOK', NEW u \in Upload, upload[u].pc # "free",
           upload' = [upload EXCEPT ![u] = NoUpload],
           UNCHANGED <<list, mixed, overtaken>>, dropped \subseteq dropped',
           \A song \in LocalSong \ {upload[u].song} : songStates'[song] = songStates[song],
           songStates'[upload[u].song] = SENDING => upload[u].song \in dropped'
    PROVE  IInv'
<1>1. upload[u].song \in LocalSong
  BY DEF IInv, TypeOK, SendSong, Registered
<1>2. upload'[u] = NoUpload /\ \A v \in Upload \ {u} : upload'[v] = upload[v]
  BY DEF IInv, TypeOK
<1>3. Registered'
  BY <1>2 DEF IInv, Registered, NoUpload
<1>4. upload'[u].song \notin LocalSong
  BY <1>2, NoSongIsNone DEF NoUpload
<1>5. ASSUME NEW song \in Told, NEW v \in Upload, upload'[v].song = song
      PROVE  /\ songStates'[song] = SENDING /\ ~ToReset(song)
             /\ \A w \in Upload : upload'[w].song = song => v = w
  <2>1. v # u /\ upload[v].song = song
    BY <1>2, <1>4, <1>5 DEF Told
  <2>2. song # upload[u].song
    <3>1. \A w \in Upload : upload[w].song = song => v = w
      BY <2>1 DEF IInv, Alone
    <3> QED BY <2>1, <3>1
  <2>3. song \in LocalSong
    BY DEF Told
  <2> QED BY <1>2, <1>4, <2>1, <2>2, <2>3 DEF IInv, Alone
<1>6. Alone'
  BY <1>5 DEF Alone, Told, ToReset
<1>7. Clean' \subseteq Clean
  BY <1>2, <1>4 DEF Clean, Uploading, Told
<1>8. ASSUME NEW song \in LocalSong, songStates'[song] = SENDING
      PROVE  (\E v \in Upload : upload'[v].song = song) \/ song \in dropped'
  <2>1. CASE song = upload[u].song
    BY <1>8, <2>1
  <2>2. CASE song # upload[u].song
    BY <1>2, <1>8, <2>2 DEF IInv, SendingIsSent, Uploading
  <2> QED BY <2>1, <2>2
<1>9. SendingIsSent'
  BY <1>8 DEF SendingIsSent, Uploading
<1> QED BY <1>3, <1>6, <1>7, <1>9, LimitKept DEF IInv

(* RestRequestService.sendSong: the answer. *)
LEMMA SongSentIInv ==
    ASSUME IInv, NEW u \in Upload, SongSent(u)
    PROVE  IInv'
<1>1. PICK next \in {WAITING_FOR_SERVER_QUEUE, NOT_SENT} :
         songStates' = [songStates EXCEPT ![upload[u].song] = IF @ <= SENDING THEN next ELSE @]
  BY DEF SongSent
<1>2. /\ upload[u].pc = "sent" /\ upload' = [upload EXCEPT ![u] = NoUpload]
      /\ UNCHANGED <<admin, owned, drawn, list, history>>
  BY DEF SongSent
<1>3. upload[u].song \in LocalSong
  BY <1>2 DEF IInv, TypeOK, SendSong, Registered
<1>4. /\ \A song \in LocalSong \ {upload[u].song} : songStates'[song] = songStates[song]
      /\ songStates'[upload[u].song] # SENDING
      /\ songStates' \in [LocalSong -> NOT_SENT .. SENT]
  BY <1>1, <1>3 DEF IInv, TypeOK
<1>5. upload' \in [Upload -> SendSong]
  BY <1>2 DEF IInv, TypeOK, NoUpload, SendSong
<1>6. TypeOK'
  BY <1>2, <1>4, <1>5 DEF IInv, TypeOK, history
<1> QED BY <1>2, <1>4, <1>6, EndedIInv DEF history

(* AppController.onSendSong of an administrator. *)
LEMMA DroppedIInv ==
    ASSUME IInv, NEW u \in Upload, Dropped(u)
    PROVE  IInv'
<1>1. /\ upload[u].pc = "listen" /\ upload' = [upload EXCEPT ![u] = NoUpload]
      /\ dropped' = dropped \cup {upload[u].song}
      /\ UNCHANGED <<admin, songStates, owned, drawn, list, mixed, overtaken>>
  BY DEF Dropped, client
<1>2. upload[u].song \in LocalSong
  BY <1>1 DEF IInv, TypeOK, SendSong, Registered
<1>3. upload' \in [Upload -> SendSong]
  BY <1>1 DEF IInv, TypeOK, NoUpload, SendSong
<1>4. TypeOK'
  BY <1>1, <1>2, <1>3 DEF IInv, TypeOK
<1> QED BY <1>1, <1>4, EndedIInv

(* LocalSongAdapter: the button. *)
LEMMA TapIInv ==
    ASSUME IInv, NEW u \in Upload, NEW song \in LocalSong, Tap(u, song)
    PROVE  IInv'
<1>1. /\ upload[u].pc = "free" /\ Cardinality(InFlight) < MAX_CONCURRENT_SENDING
      /\ songStates' = [songStates EXCEPT ![song] = SENDING]
      /\ upload' = [upload EXCEPT ![u] = [NoUpload EXCEPT !.pc = "listen", !.song = song]]
      /\ mixed' = IF Uploading(song) THEN mixed \cup {song} ELSE mixed \ {song}
      /\ overtaken' = IF ToReset(song) THEN overtaken \cup {song} ELSE overtaken \ {song}
      /\ dropped' = dropped \ {song}
      /\ UNCHANGED <<admin, owned, drawn, list>>
  BY DEF Tap, Room
<1>2. /\ songStates' \in [LocalSong -> NOT_SENT .. SENT] /\ songStates'[song] = SENDING
      /\ \A other \in LocalSong \ {song} : songStates'[other] = songStates[other]
  BY <1>1 DEF IInv, TypeOK
<1>3. /\ upload'[u] = [pc |-> "listen", song |-> song]
      /\ \A v \in Upload \ {u} : upload'[v] = upload[v]
      /\ upload' \in [Upload -> SendSong]
  BY <1>1 DEF IInv, TypeOK, NoUpload, SendSong
<1>4. upload[u].song \notin LocalSong
  BY <1>1, NoSongIsNone DEF IInv, Registered
<1>5. TypeOK'
  BY <1>1, <1>2, <1>3 DEF IInv, TypeOK
<1>6. Registered'
  BY <1>3, NoSongIsNone DEF IInv, Registered
<1>7. ASSUME NEW other \in Told', NEW v \in Upload, upload'[v].song = other
      PROVE  /\ songStates'[other] = SENDING /\ ~ToReset(other)
             /\ \A w \in Upload : upload'[w].song = other => v = w
  <2>1. CASE other = song
    <3>1. ~Uploading(song) /\ ~ToReset(song)
      BY <1>1, <1>7, <2>1 DEF Told
    <3>2. \A w \in Upload : upload'[w].song = song => w = u
      BY <1>3, <3>1 DEF Uploading
    <3> QED BY <1>2, <1>7, <2>1, <3>1, <3>2
  <2>2. CASE other # song
    <3>1. other \in Told
      BY <1>1, <1>7, <2>2 DEF Told
    <3>2. \A w \in Upload : upload'[w].song = other => w # u /\ upload[w].song = other
      BY <1>3, <2>2
    <3>3. other \in LocalSong
      BY <3>1 DEF Told
    <3> QED BY <1>2, <1>7, <2>2, <3>1, <3>2, <3>3 DEF IInv, Alone
  <2> QED BY <2>1, <2>2
<1>8. Alone'
  BY <1>1, <1>7 DEF Alone, ToReset
<1>9. LimitOfUploads'
  <2>1. Clean \subseteq InFlight
    BY DEF Clean, InFlight, IInv, Alone, Uploading, Told
  <2>2. Clean' \subseteq InFlight \cup {song}
    BY <1>1, <1>3, <2>1 DEF Clean, Uploading, Told
  <2>3. IsFiniteSet(InFlight)
    BY SongsAssumption, FS_Subset DEF InFlight
  <2>4. IsFiniteSet(InFlight \cup {song}) /\ Cardinality(InFlight) \in Nat
    BY <2>3, FS_AddElement, FS_CardinalityType
  <2>5. Cardinality(InFlight \cup {song}) <= Cardinality(InFlight) + 1
    BY <2>3, <2>4, FS_AddElement
  <2>6. Cardinality(Clean') <= Cardinality(InFlight \cup {song}) /\ Cardinality(Clean') \in Nat
    BY <2>2, <2>4, FS_Subset, FS_CardinalityType
  <2>7. Cardinality(InFlight \cup {song}) \in Nat
    BY <2>4, FS_CardinalityType
  <2>8. Cardinality(Clean') <= MAX_CONCURRENT_SENDING
    BY <1>1, <2>4, <2>5, <2>6, <2>7, MaxAssumption
  <2> QED BY <2>8 DEF LimitOfUploads, Clean
<1>10. ASSUME NEW other \in LocalSong, songStates'[other] = SENDING
       PROVE  (\E v \in Upload : upload'[v].song = other) \/ other \in dropped'
  <2>1. CASE other = song
    BY <1>3, <2>1
  <2>2. CASE other # song
    <3>1. (\E v \in Upload : upload[v].song = other) \/ other \in dropped
      BY <1>2, <1>10, <2>2 DEF IInv, SendingIsSent, Uploading
    <3> QED BY <1>1, <1>3, <1>4, <2>2, <3>1
  <2> QED BY <2>1, <2>2
<1>11. SendingIsSent'
  BY <1>10 DEF SendingIsSent, Uploading
<1> QED BY <1>5, <1>6, <1>8, <1>9, <1>11 DEF IInv

(* onSongQueueChange and updateLocalSongSendState. *)
LEMMA ListIInv ==
    ASSUME IInv, NEW l \in List, getSongList(l)
    PROVE  IInv'
<1>1. list[l] \in Listed /\ songStates \in [LocalSong -> NOT_SENT .. SENT] /\ list \in [List -> Listed]
  BY DEF IInv, TypeOK
<1>2. CASE ListReceived(l)
  <2>1. PICK songs \in SUBSET Song :
           /\ list[l] = NoList
           /\ owned' = {song \in LocalSong : <<song, "mine">> \in songs}
           /\ list' = [list EXCEPT ![l] = [NoList EXCEPT !.named = Named(songs), !.unread = LocalSong]]
           /\ UNCHANGED <<admin, songStates, drawn, upload, mixed, overtaken, dropped>>
    BY <1>2 DEF ListReceived, history
  <2>2. Named(songs) \subseteq LocalSong
    BY DEF Named, Song
  <2>3. list' \in [List -> Listed] /\ \A k \in List : list'[k].reset = list[k].reset
    BY <1>1, <2>1, <2>2 DEF NoList, Listed
  <2>4. TypeOK'
    BY <2>1, <2>3 DEF IInv, TypeOK
  <2> QED BY <2>1, <2>3, <2>4, SettledIInv DEF ToReset
<1>3. ASSUME NEW song \in LocalSong, MarkSent(l, song)
      PROVE  IInv'
  <2>1. /\ songStates' = [songStates EXCEPT ![song] = SENT]
        /\ list' = [list EXCEPT ![l].named = @ \ {song}]
        /\ mixed' = IF Uploading(song) THEN mixed \cup {song} ELSE mixed
        /\ UNCHANGED <<admin, owned, drawn, upload, overtaken, dropped>>
    BY <1>3 DEF MarkSent
  <2>2. list' \in [List -> Listed] /\ \A k \in List : list'[k].reset = list[k].reset
    BY <1>1, <2>1 DEF Listed
  <2>3. TypeOK'
    BY <1>1, <2>1, <2>2 DEF IInv, TypeOK
  <2>4. \A other \in LocalSong : songStates'[other] = IF other = song THEN SENT ELSE songStates[other]
    BY <1>1, <2>1
  <2> QED BY <2>1, <2>2, <2>3, <2>4, SettledIInv DEF ToReset
<1>4. ASSUME NEW song \in LocalSong, ReadState(l, song)
      PROVE  IInv'
  <2>1. /\ list' = [list EXCEPT ![l].unread = @ \ {song},
                                ![l].reset = IF /\ songStates[song] >= WAITING_FOR_SERVER_QUEUE
                                                /\ song \notin owned
                                             THEN song ELSE NoSong]
        /\ UNCHANGED <<admin, songStates, owned, drawn, upload, mixed, overtaken, dropped>>
    BY <1>4 DEF ReadState, client, history
  <2>2. list' \in [List -> Listed]
    BY <1>1, <2>1 DEF Listed
  <2>3. \A k \in List \ {l} : list'[k].reset = list[k].reset
    BY <1>1, <2>1
  <2>4. list'[l].reset = NoSong \/ (list'[l].reset = song /\ songStates[song] # SENDING)
    BY <1>1, <2>1 DEF Listed
  <2>5. \A other \in LocalSong : songStates[other] = SENDING /\ ~ToReset(other) => ~ToReset(other)'
    BY <2>3, <2>4, NoSongIsNone DEF ToReset
  <2>6. TypeOK'
    BY <2>1, <2>2 DEF IInv, TypeOK
  <2> QED BY <2>1, <2>5, <2>6, SettledIInv
<1>5. CASE ResetState(l)
  <2> DEFINE song == list[l].reset
  <2>1. /\ song # NoSong
        /\ songStates' = [songStates EXCEPT ![song] = NOT_SENT]
        /\ list' = [list EXCEPT ![l].reset = NoSong]
        /\ UNCHANGED <<admin, owned, drawn, upload, mixed, overtaken, dropped>>
    BY <1>5 DEF ResetState, history
  <2>2. list' \in [List -> Listed]
    BY <1>1, <2>1 DEF Listed
  <2>3. \A k \in List : list'[k].reset \in {list[k].reset, NoSong}
    BY <1>1, <2>1 DEF Listed
  <2>4. \A other \in LocalSong : songStates'[other] = IF other = song THEN NOT_SENT ELSE songStates[other]
    BY <1>1, <2>1
  <2>5. TypeOK'
    <3>1. DOMAIN songStates' = LocalSong /\ songStates' = [other \in DOMAIN songStates' |-> songStates'[other]]
      BY <1>1, <2>1
    <3>2. \A other \in LocalSong : songStates'[other] \in NOT_SENT .. SENT
      BY <1>1, <2>4
    <3>3. songStates' \in [LocalSong -> NOT_SENT .. SENT]
      BY <3>1, <3>2
    <3> QED BY <2>1, <2>2, <3>3 DEF IInv, TypeOK
  <2>6. \A other \in LocalSong : other = song => ToReset(other)
    BY DEF ToReset
  <2>7. \A other \in LocalSong : ~ToReset(other) => ~ToReset(other)'
    BY <2>3, NoSongIsNone DEF ToReset
  <2> QED BY <2>1, <2>4, <2>5, <2>6, <2>7, SettledIInv
<1> QED BY <1>2, <1>3, <1>4, <1>5 DEF getSongList

(* getView and AppStateService: no state of a song changes. *)
LEMMA ViewIInv ==
    ASSUME IInv, Draw \/ SetState
    PROVE  IInv'
<1>1. UNCHANGED <<songStates, owned, upload, list, mixed, overtaken, dropped>>
  BY DEF Draw, SetState, history
<1>2. drawn' \subseteq LocalSong /\ admin' \in BOOLEAN
  <2>1. CASE Draw
    BY <2>1 DEF Draw, IInv, TypeOK
  <2>2. CASE SetState
    BY <2>2 DEF SetState, IInv, TypeOK
  <2> QED BY <2>1, <2>2
<1>3. TypeOK'
  BY <1>1, <1>2 DEF IInv, TypeOK
<1> QED BY <1>1, <1>3, SettledIInv DEF ToReset

(* Every step. *)
LEMMA NextIInv == IInv /\ [Next]_vars => IInv'
<1> SUFFICES ASSUME IInv, [Next]_vars PROVE IInv'
  OBVIOUS
<1>1. CASE Draw \/ SetState
  BY <1>1, ViewIInv
<1>2. ASSUME NEW u \in Upload, sendSong(u)
      PROVE  IInv'
  BY <1>2, DroppedIInv, LaunchedIInv, SongSentIInv DEF sendSong
<1>3. ASSUME NEW u \in Upload, NEW song \in LocalSong, Tap(u, song)
      PROVE  IInv'
  BY <1>3, TapIInv
<1>4. ASSUME NEW l \in List, getSongList(l)
      PROVE  IInv'
  BY <1>4, ListIInv
<1>5. CASE UNCHANGED vars
  <2>1. UNCHANGED <<admin, songStates, owned, drawn, upload, list, mixed, overtaken, dropped>>
    BY <1>5 DEF vars, client, history
  <2>2. TypeOK'
    BY <2>1 DEF IInv, TypeOK
  <2> QED BY <2>1, <2>2, SettledIInv DEF ToReset
<1> QED BY <1>1, <1>2, <1>3, <1>4, <1>5 DEF Next

(* The inductive invariant. *)
LEMMA Invariance == Spec => []IInv
BY InitIInv, NextIInv, PTL DEF Spec

(* ClientSongs: every variable keeps its type. *)
THEOREM TypeCorrect == Spec => []TypeOK
<1>1. IInv => TypeOK
  BY DEF IInv
<1> QED BY <1>1, Invariance, PTL

(* LocalSongAdapter, DataProvider: for any songs, uploads and lists, a song on *)
(* its way cannot be sent again, except in the cases the property names.       *)
THEOREM OfferedOnce == Spec => []NotOfferedTwice
<1>1. IInv => NotOfferedTwice
  BY DEF IInv, Alone, NotOfferedTwice, Uploading
<1> QED BY <1>1, Invariance, PTL

(* LocalSongAdapter: MAX_CONCURRENT_SENDING bounds what is really on its way. *)
THEOREM UploadsLimited == Spec => []LimitOfUploads
<1>1. IInv => LimitOfUploads
  BY DEF IInv
<1> QED BY <1>1, Invariance, PTL

(* RestRequestService.sendSong, AppController.onSendSong: a song at SENDING is *)
(* being sent, or its event came to an administrator.                          *)
THEOREM SendingEnds == Spec => []SendingIsSent
<1>1. IInv => SendingIsSent
  BY DEF IInv
<1> QED BY <1>1, Invariance, PTL
=============================================================================
