---------------------------- MODULE Jukebox_proofs ----------------------------
(***************************************************************************)
(* Theorems about the song queue, for every number of threads, users,       *)
(* titles and songs, every limit and every traffic: its places, its files,   *)
(* its limit, the playlist it implements and its head; and, at the end,     *)
(* about the coding a posted song travels in.                               *)
(***************************************************************************)
EXTENDS JukeboxPlaylist, Base64, FiniteSetTheorems, SequenceTheorems, TLAPS

-----------------------------------------------------------------------------
(* What the queries of SongTable return, for every table. *)

(* An update of rows: the table keeps its length, its owners and its titles, *)
(* and a path is kept or cleared.                                           *)
Updates(t, new) ==
    /\ new \in Table
    /\ Len(new) = Len(t)
    /\ \A i \in SongId(t) : /\ new[i].owner = t[i].owner
                            /\ new[i].title = t[i].title
                            /\ new[i].path \in {t[i].path, NoPath}

KeepsOrders(t, new) == \A i \in SongId(t) : new[i].order = t[i].order

ExchangesOrders(t, new, a, b) ==
    \A i \in SongId(t) : new[i].order = IF i = a THEN t[b].order
                                        ELSE IF i = b THEN t[a].order ELSE t[i].order

KeepsPaths(t, new) == \A i \in SongId(t) : new[i].path = t[i].path

(* A function from a table's song numbers to rows is a table of that length. *)
LEMMA RowsMakeTable ==
    ASSUME NEW t \in Table, NEW new \in [SongId(t) -> Row]
    PROVE  new \in Table /\ Len(new) = Len(t)
BY DEF Table, SongId

(* A row of a table. *)
LEMMA RowOfTable ==
    ASSUME NEW t \in Table, NEW i \in SongId(t)
    PROVE  /\ t[i] \in Row
           /\ t[i].owner \in User /\ t[i].title \in Title
           /\ t[i].path \in Path /\ t[i].order \in Nat
<1>1. t[i] \in Row
  BY DEF Table, SongId
<1> QED
  BY <1>1 DEF Row

(* removeSong clears at most one path and keeps every order. *)
LEMMA RemoveSongUpdates ==
    ASSUME NEW t \in Table, NEW n
    PROVE  Updates(t, RemoveSong(t, n)) /\ KeepsOrders(t, RemoveSong(t, n))
<1> DEFINE new == RemoveSong(t, n)
<1>1. \A i \in SongId(t) : /\ new[i] \in Row
                           /\ new[i].owner = t[i].owner
                           /\ new[i].title = t[i].title
                           /\ new[i].order = t[i].order
                           /\ new[i].path \in {t[i].path, NoPath}
  BY RowOfTable DEF RemoveSong, Row, Path
<1>2. new \in [SongId(t) -> Row]
  BY <1>1 DEF RemoveSong
<1> QED
  BY <1>1, <1>2, RowsMakeTable DEF Updates, KeepsOrders

(* An UPDATE of swapSongs changes one order and keeps every path. *)
LEMMA SetOrderUpdates ==
    ASSUME NEW t \in Table, NEW n, NEW o \in Nat
    PROVE  /\ Updates(t, SetOrder(t, n, o))
           /\ KeepsPaths(t, SetOrder(t, n, o))
           /\ \A i \in SongId(t) :
                 SetOrder(t, n, o)[i].order = IF i = n THEN o ELSE t[i].order
<1> DEFINE new == SetOrder(t, n, o)
<1>1. \A i \in SongId(t) : /\ new[i] \in Row
                           /\ new[i].owner = t[i].owner
                           /\ new[i].title = t[i].title
                           /\ new[i].path = t[i].path
                           /\ new[i].order = IF i = n THEN o ELSE t[i].order
  BY RowOfTable DEF SetOrder, Row
<1>2. new \in [SongId(t) -> Row]
  BY <1>1 DEF SetOrder
<1> QED
  BY <1>1, <1>2, RowsMakeTable DEF Updates, KeepsPaths

(* wipeDbSongs_ clears every path and keeps every order. *)
LEMMA WipeSongsUpdates ==
    ASSUME NEW t \in Table
    PROVE  /\ Updates(t, WipeSongs(t)) /\ KeepsOrders(t, WipeSongs(t))
           /\ \A i \in SongId(t) : WipeSongs(t)[i].path = NoPath
<1> DEFINE new == WipeSongs(t)
<1>1. \A i \in SongId(t) : /\ new[i] \in Row
                           /\ new[i].owner = t[i].owner
                           /\ new[i].title = t[i].title
                           /\ new[i].path = NoPath
                           /\ new[i].order = t[i].order
  BY RowOfTable DEF WipeSongs, Row, Path
<1>2. new \in [SongId(t) -> Row]
  BY <1>1 DEF WipeSongs
<1> QED
  BY <1>1, <1>2, RowsMakeTable DEF Updates, KeepsOrders

(* createSong keeps every row and adds one at the end, ordered last. *)
LEMMA CreateSongAppends ==
    ASSUME NEW t \in Table, NEW u \in User, NEW title \in Title, NEW p \in Path
    PROVE  LET new == CreateSong(t, u, title, p)
           IN  /\ new \in Table
               /\ Len(new) = Len(t) + 1
               /\ \A i \in SongId(t) : new[i] = t[i]
               /\ new[Len(t) + 1].order = Len(t) + 1
<1> DEFINE row == [owner |-> u, title |-> title, path |-> p, order |-> Len(t) + 1]
<1>1. row \in Row
  BY DEF Row, Table
<1>2. /\ Append(t, row) \in Seq(Row)
      /\ Len(Append(t, row)) = Len(t) + 1
      /\ \A i \in 1..Len(t) : Append(t, row)[i] = t[i]
      /\ Append(t, row)[Len(t) + 1] = row
  BY <1>1 DEF Table
<1> QED
  BY <1>2 DEF CreateSong, Table, SongId

(* Distinct orders survive an update that keeps orders. *)
LEMMA SameOrdersDistinct ==
    ASSUME NEW t \in Table, NEW new \in Table, Len(new) = Len(t),
           KeepsOrders(t, new), OrdersDistinct(t)
    PROVE  OrdersDistinct(new)
BY DEF OrdersDistinct, KeepsOrders, SongId

(* Distinct orders survive the exchange of two of them. *)
LEMMA ExchangedOrdersDistinct ==
    ASSUME NEW t \in Table, NEW new \in Table, Len(new) = Len(t),
           NEW a \in SongId(t), NEW b \in SongId(t), OrdersDistinct(t),
           ExchangesOrders(t, new, a, b)
    PROVE  OrdersDistinct(new)
BY DEF OrdersDistinct, SongId, ExchangesOrders

(* Distinct orders survive a new song. *)
LEMMA NewSongOrdersDistinct ==
    ASSUME NEW t \in Table, NEW u \in User, NEW title \in Title, NEW p \in Path,
           OrdersDistinct(t)
    PROVE  OrdersDistinct(CreateSong(t, u, title, p))
<1> DEFINE new == CreateSong(t, u, title, p)
<1>1. /\ Len(t) \in Nat /\ Len(new) = Len(t) + 1
      /\ \A i \in SongId(t) : new[i] = t[i]
      /\ new[Len(t) + 1].order = Len(t) + 1
  BY CreateSongAppends DEF Table
<1>2. \A i \in SongId(new) : i \in SongId(t) \/ i = Len(t) + 1
  BY <1>1 DEF SongId
<1>3. \A i \in SongId(t) : t[i].order \in 1..Len(t)
  BY DEF OrdersDistinct, SongId
<1>4. \A i \in SongId(new) : new[i].order \in SongId(new)
  BY <1>1, <1>2, <1>3 DEF SongId
<1>5. \A i, j \in SongId(new) : new[i].order = new[j].order => i = j
  BY <1>1, <1>2, <1>3 DEF OrdersDistinct, SongId
<1> QED
  BY <1>4, <1>5 DEF OrdersDistinct

-----------------------------------------------------------------------------
(* Types *)

(* What a request of n songs holds at each of its steps. *)
RequestOK(q, n) ==
    /\ q \in Request
    /\ q.pc \in PostPC \cup DeletePC => q.user \in User
    /\ q.pc \in PostPC \ {"name"} => q.path \in Name /\ q.path.mp3 = TRUE
    /\ q.pc \in {"check", "insert"} => q.content \in Title
    /\ q.pc \in InvertPC \ {"read1"} => q.song \in 1..n
    /\ q.pc \in InvertPC \ {"read1", "read2"} => q.other \in 1..n
    /\ q.pc \in InvertPC => q.song # q.other

RequestsOK ==
    /\ req \in [Slot -> Request]
    /\ \A r \in Slot : RequestOK(req[r], Len(draft))

TablesOK ==
    /\ songs \in Table
    /\ draft \in Table
    /\ Len(songs) = Len(draft)
    /\ txn \in [owner : Slot \cup {NoSlot}, shared : BOOLEAN, wrote : BOOLEAN]

CacheOK ==
    /\ cache = [dir |-> cache.dir, files |-> cache.files]
    /\ cache.dir \in BOOLEAN
    /\ cache.files \in [DOMAIN cache.files -> Content]
    /\ \A n \in DOMAIN cache.files : n \in Name /\ n.mp3 = TRUE

PlayerOK == player \in [pc : {"poll", "open", "play", "lookup", "remove", "unlink"},
                        song : Nat, target : Nat, path : Path, heard : Content]

RestOK == /\ second \in [User -> Nat]
          /\ stops \in Seq(Nat)
          /\ boot \in {"http", "httpsCache", "httpsDatabase", "done"}
          /\ restarts \in Nat

TypeInv == RequestsOK /\ TablesOK /\ CacheOK /\ PlayerOK /\ RestOK

(* A request's next state, when only its thread writes it. *)
LEMMA RequestStep ==
    ASSUME RequestsOK, TablesOK, TablesOK', Len(draft') >= Len(draft),
           NEW r \in Slot, NEW q, RequestOK(q, Len(draft')), req' = [req EXCEPT ![r] = q]
    PROVE  RequestsOK'
<1>1. \A s \in Slot : req'[s] = IF s = r THEN q ELSE req[s]
  BY DEF RequestsOK
<1>2. Len(draft) \in Nat /\ Len(draft') \in Nat
  BY DEF TablesOK, Table
<1>3. \A s \in Slot : RequestOK(req[s], Len(draft'))
  BY <1>2 DEF RequestsOK, RequestOK, Request
<1>4. req' \in [Slot -> Request]
  BY DEF RequestsOK, RequestOK
<1> QED
  BY <1>1, <1>3, <1>4 DEF RequestsOK

(* A step to another line of the same request. *)
LEMMA GotoStep ==
    ASSUME RequestsOK, TablesOK, TablesOK', Len(draft') >= Len(draft),
           NEW r \in Slot, NEW pc, Goto(r, pc),
           RequestOK([req[r] EXCEPT !.pc = pc], Len(draft'))
    PROVE  RequestsOK'
BY RequestStep DEF Goto

LEMMA IdleOK == ASSUME NEW n \in Nat PROVE RequestOK(Idle, n)
BY DEF RequestOK, Idle, Request, PostPC, DeletePC, AdminPC, InvertPC, Content, Path, NoSong

(* The end of a request. *)
LEMMA DoneStep ==
    ASSUME RequestsOK, TablesOK, TablesOK', Len(draft') >= Len(draft),
           NEW r \in Slot, Done(r)
    PROVE  RequestsOK'
<1>1. Len(draft') \in Nat
  BY DEF TablesOK, Table
<1> QED
  BY <1>1, IdleOK, RequestStep DEF Done

(* A statement of the http server or of the player. *)
LEMMA CommitOutsideTables ==
    ASSUME TablesOK, NEW t \in Table, CommitOutside(t)
    PROVE  TablesOK' /\ Len(draft') = Len(t)
BY DEF TablesOK, CommitOutside

(* A statement of the https server. *)
LEMMA WriteInsideTables ==
    ASSUME TablesOK, NEW t \in Table, Len(t) = Len(draft), WriteInside(t)
    PROVE  TablesOK' /\ Len(draft') = Len(draft)
BY DEF TablesOK, WriteInside

LEMMA ReadInsideTables ==
    ASSUME TablesOK, ReadInside
    PROVE  TablesOK' /\ Len(draft') = Len(draft)
BY DEF TablesOK, ReadInside

LEMMA TablesUnchanged ==
    ASSUME TablesOK, UNCHANGED Database
    PROVE  TablesOK' /\ Len(draft') = Len(draft)
BY DEF TablesOK, Database

LEMMA CacheUnchanged == ASSUME CacheOK, UNCHANGED cache PROVE CacheOK'
BY DEF CacheOK

LEMMA ElsewhereUnchanged ==
    ASSUME PlayerOK, RestOK, UNCHANGED Elsewhere
    PROVE  PlayerOK' /\ RestOK'
BY DEF PlayerOK, RestOK, Elsewhere

(* deleteFile removes files and changes none. *)
LEMMA DeleteFileCache ==
    ASSUME CacheOK, NEW arg, arg.kind \in {"bare", "empty", "absolute"},
           cache' = DeleteFile(cache, arg)
    PROVE  CacheOK'
<1>1. CASE arg.kind = "bare"
  BY <1>1 DEF CacheOK, DeleteFile, Restrict
<1>2. CASE arg.kind = "empty"
  BY <1>2 DEF CacheOK, DeleteFile, Empty
<1>3. CASE arg.kind = "absolute"
  BY <1>3 DEF CacheOK, DeleteFile
<1> QED
  BY <1>1, <1>2, <1>3

LEMMA SetFileContentCache ==
    ASSUME CacheOK, NEW n \in Name, n.mp3 = TRUE, NEW c \in Content,
           cache' = SetFileContent(cache, n, c)
    PROVE  CacheOK'
BY DEF CacheOK, SetFileContent

(* No file of the cache is without ".mp3", so the loop of postFile_ takes    *)
(* the first name it tries.                                                 *)
LEMMA FreshNameIsFirst ==
    ASSUME CacheOK, NEW u \in User, NEW s \in Nat
    PROVE  FreshName(u, s) = [user |-> u, second |-> s, counter |-> 0, mp3 |-> TRUE]
<1> DEFINE name(k) == [user |-> u, second |-> s, counter |-> k, mp3 |-> FALSE]
           free == {k \in 0..MaxSongs : ~IsFileCached(cache, name(k))}
           first == CHOOSE k \in free : \A j \in free : k <= j
<1>1. MaxSongs \in Nat
  BY BoundAssumption
<1>2. \A k : name(k).mp3 = FALSE
  OBVIOUS
<1>3. \A k : ~IsFileCached(cache, name(k))
  BY <1>2 DEF CacheOK, IsFileCached
<1>4. free = 0..MaxSongs
  BY <1>3
<1>5. 0 \in free /\ \A j \in free : 0 <= j
  BY <1>1, <1>4
<1>6. first \in free /\ \A j \in free : first <= j
  BY <1>5
<1>7. first = 0
  BY <1>4, <1>5, <1>6
<1>8. FreshName(u, s) = [name(first) EXCEPT !.mp3 = TRUE]
  BY Zenon DEF FreshName
<1> QED
  BY <1>7, <1>8

-----------------------------------------------------------------------------
(* Every step keeps the types, one process at a time. *)

LEMMA LenDraft == ASSUME TablesOK PROVE Len(draft) \in Nat /\ Len(draft) >= Len(draft)
BY DEF TablesOK, Table

LEMMA PostType == ASSUME TypeInv, NEW r \in Slot, PostNext(r) PROVE TypeInv'
<1> DEFINE q == req[r]
<1>1. q \in Request /\ RequestOK(q, Len(draft)) /\ Len(draft) \in Nat
  BY LenDraft DEF TypeInv, RequestsOK
<1>2. CASE PostFetch(r)
  <2> DEFINE mine == SongsByUser(songs, q.user)
             new == [q EXCEPT !.fetched = TRUE,
                              !.titles = {songs[i].title : i \in mine},
                              !.count = Cardinality(mine)]
  <2>1. TablesOK' /\ Len(draft') = Len(draft)
    BY <1>2, TablesUnchanged DEF PostFetch, TypeInv
  <2>2. {songs[i].title : i \in mine} \subseteq Title
    BY RowOfTable DEF SongsByUser, Playable, TypeInv, TablesOK
  <2>3. Cardinality(mine) \in Nat
    <3>1. IsFiniteSet(SongId(songs))
      BY FS_Interval DEF SongId, TypeInv, TablesOK, Table
    <3>2. mine \subseteq SongId(songs)
      BY DEF SongsByUser, Playable
    <3> QED
      BY <3>1, <3>2, FS_Subset, FS_CardinalityType
  <2>4. RequestOK(new, Len(draft))
    BY <1>1, <1>2, <2>2, <2>3 DEF RequestOK, Request, PostFetch
  <2>5. RequestsOK'
    BY <1>2, <2>1, <2>4, LenDraft, RequestStep DEF PostFetch, TypeInv
  <2> QED
    BY <1>2, <2>1, <2>5, CacheUnchanged, ElsewhereUnchanged DEF PostFetch, TypeInv
<1>3. CASE PostName(r)
  <2>1. TablesOK' /\ Len(draft') = Len(draft)
    BY <1>3, TablesUnchanged DEF PostName, TypeInv
  <2>2. q.user \in User /\ second[q.user] \in Nat
    BY <1>1, <1>3 DEF PostName, RequestOK, PostPC, TypeInv, RestOK
  <2>3. PICK s \in {second[q.user]} \cup (IF DistinctSeconds \/ second[q.user] = 0 THEN {} ELSE {second[q.user] - 1}) :
           /\ req' = [req EXCEPT ![r].pc = "write", ![r].path = FreshName(q.user, s)]
           /\ second' = [second EXCEPT ![q.user] = s + 1]
    BY <1>3 DEF PostName
  <2>4. s \in Nat
    BY <2>2
  <2> DEFINE new == [q EXCEPT !.pc = "write", !.path = FreshName(q.user, s)]
  <2>5. FreshName(q.user, s) \in Name /\ FreshName(q.user, s).mp3 = TRUE
    <3> DEFINE u == q.user
    <3>1. FreshName(u, s) = [user |-> u, second |-> s, counter |-> 0, mp3 |-> TRUE]
      <4> HIDE DEF u
      <4> QED
        BY <2>2, <2>4, FreshNameIsFirst DEF TypeInv, u
    <3> QED
      BY <2>2, <2>4, <3>1 DEF Name
  <2>6. RequestOK(new, Len(draft))
    BY <1>1, <1>3, <2>2, <2>5 DEF RequestOK, Request, PostName, PostPC, DeletePC, InvertPC, Path
  <2>7. req' = [req EXCEPT ![r] = new]
    BY <2>3 DEF TypeInv, RequestsOK
  <2>8. RequestsOK'
    BY <2>1, <2>6, <2>7, LenDraft, RequestStep DEF TypeInv
  <2>9. RestOK'
    BY <1>3, <2>2, <2>3, <2>4 DEF PostName, TypeInv, RestOK
  <2>10. PlayerOK'
    BY <1>3 DEF PostName, TypeInv, PlayerOK
  <2> QED
    BY <1>3, <2>1, <2>8, <2>9, <2>10, CacheUnchanged DEF PostName, TypeInv
<1>4. CASE PostWrite(r)
  <2>1. TablesOK' /\ Len(draft') = Len(draft)
    BY <1>4, TablesUnchanged DEF PostWrite, TypeInv
  <2>2. CASE cache.dir
    <3>1. q.path \in Name /\ q.path.mp3 = TRUE /\ q.content \in Content
      BY <1>1, <1>4 DEF PostWrite, RequestOK, Request, PostPC
    <3>2. CacheOK'
      BY <1>4, <2>2, <3>1, SetFileContentCache DEF PostWrite, TypeInv
    <3>3. RequestOK([q EXCEPT !.pc = "header"], Len(draft))
      BY <1>1, <1>4 DEF PostWrite, RequestOK, Request, PostPC, DeletePC, InvertPC
    <3>4. RequestsOK'
      BY <1>4, <2>1, <2>2, <3>3, LenDraft, GotoStep DEF PostWrite, TypeInv
    <3> QED
      BY <1>4, <2>1, <3>2, <3>4, ElsewhereUnchanged DEF PostWrite, TypeInv
  <2>3. CASE ~cache.dir
    <3>1. RequestsOK'
      BY <1>4, <2>1, <2>3, LenDraft, DoneStep DEF PostWrite, TypeInv
    <3> QED
      BY <1>4, <2>1, <2>3, <3>1, CacheUnchanged, ElsewhereUnchanged DEF PostWrite, TypeInv
  <2> QED
    BY <2>2, <2>3
<1>5. CASE PostHeader(r)
  <2> DEFINE found == IF IsFileCached(cache, q.path) THEN cache.files[q.path] ELSE NotMp3
             new == [q EXCEPT !.pc = IF found = NotMp3 THEN "drop" ELSE "check",
                              !.content = found]
  <2>1. TablesOK' /\ Len(draft') = Len(draft)
    BY <1>5, TablesUnchanged DEF PostHeader, TypeInv
  <2>2. found \in Content
    BY DEF TypeInv, CacheOK, IsFileCached, Content
  <2>3. RequestOK(new, Len(draft))
    BY <1>1, <1>5, <2>2 DEF PostHeader, RequestOK, Request, PostPC, DeletePC, InvertPC, Content
  <2>4. RequestsOK'
    BY <1>5, <2>1, <2>3, LenDraft, RequestStep DEF PostHeader, TypeInv
  <2> QED
    BY <1>5, <2>1, <2>4, CacheUnchanged, ElsewhereUnchanged DEF PostHeader, TypeInv
<1>6. CASE PostCheck(r)
  <2>1. TablesOK' /\ Len(draft') = Len(draft)
    BY <1>6, TablesUnchanged DEF PostCheck, TypeInv
  <2>2. \A pc \in {"drop", "insert"} : RequestOK([q EXCEPT !.pc = pc], Len(draft))
    BY <1>1, <1>6 DEF PostCheck, RequestOK, Request, PostPC, DeletePC, InvertPC
  <2>3. RequestsOK'
    BY <1>6, <2>1, <2>2, LenDraft, GotoStep DEF PostCheck, TypeInv
  <2> QED
    BY <1>6, <2>1, <2>3, CacheUnchanged, ElsewhereUnchanged DEF PostCheck, TypeInv
<1>7. CASE PostDrop(r)
  <2>1. TablesOK' /\ Len(draft') = Len(draft)
    BY <1>7, TablesUnchanged DEF PostDrop, TypeInv
  <2>2. CacheOK'
    BY <1>7, DeleteFileCache DEF PostDrop, Bare, TypeInv
  <2>3. RequestsOK'
    BY <1>7, <2>1, LenDraft, DoneStep DEF PostDrop, TypeInv
  <2> QED
    BY <1>7, <2>1, <2>2, <2>3, ElsewhereUnchanged DEF PostDrop, TypeInv
<1>8. CASE PostInsert(r)
  <2> DEFINE new == CreateSong(songs, q.user, q.content, q.path)
  <2>1. q.user \in User /\ q.content \in Title /\ q.path \in Path
    BY <1>1, <1>8 DEF PostInsert, RequestOK, PostPC, Path
  <2>2. new \in Table /\ Len(new) = Len(draft) + 1
    BY <2>1, CreateSongAppends DEF TypeInv, TablesOK
  <2>3. TablesOK' /\ Len(draft') = Len(draft) + 1
    BY <1>8, <2>2, CommitOutsideTables DEF PostInsert, TypeInv
  <2>4. RequestsOK'
    BY <1>1, <1>8, <2>3, DoneStep DEF PostInsert, TypeInv
  <2> QED
    BY <1>8, <2>3, <2>4, CacheUnchanged, ElsewhereUnchanged DEF PostInsert, TypeInv
<1> QED
  BY <1>2, <1>3, <1>4, <1>5, <1>6, <1>7, <1>8 DEF PostNext

LEMMA DeleteType == ASSUME TypeInv, NEW r \in Slot, DeleteNext(r) PROVE TypeInv'
<1> DEFINE q == req[r]
<1>1. q \in Request /\ RequestOK(q, Len(draft)) /\ Len(draft) \in Nat
  BY LenDraft DEF TypeInv, RequestsOK
<1>2. CASE DeleteRead(r)
  <2> DEFINE i == q.song
             new == [q EXCEPT !.pc = "head", !.path = songs[i].path]
  <2>1. TablesOK' /\ Len(draft') = Len(draft)
    BY <1>2, TablesUnchanged DEF DeleteRead, TypeInv
  <2>2. CASE i \in SongId(songs) /\ songs[i].owner = q.user
    <3>1. songs[i].path \in Path
      BY <2>2, RowOfTable DEF TypeInv, TablesOK
    <3>2. RequestOK(new, Len(draft))
      BY <1>1, <1>2, <3>1 DEF DeleteRead, RequestOK, Request, PostPC, DeletePC, InvertPC
    <3>3. req' = [req EXCEPT ![r] = new]
      BY <1>2, <2>2 DEF DeleteRead, TypeInv, RequestsOK
    <3>4. RequestsOK'
      BY <2>1, <3>2, <3>3, LenDraft, RequestStep DEF TypeInv
    <3> QED
      BY <1>2, <2>1, <3>4, CacheUnchanged, ElsewhereUnchanged DEF DeleteRead, TypeInv
  <2>3. CASE ~(i \in SongId(songs) /\ songs[i].owner = q.user)
    <3>1. RequestsOK'
      BY <1>2, <2>1, <2>3, LenDraft, DoneStep DEF DeleteRead, TypeInv
    <3> QED
      BY <1>2, <2>1, <3>1, CacheUnchanged, ElsewhereUnchanged DEF DeleteRead, TypeInv
  <2> QED
    BY <2>2, <2>3
<1>3. CASE DeleteHead(r)
  <2>1. TablesOK' /\ Len(draft') = Len(draft)
    BY <1>3, TablesUnchanged DEF DeleteHead, TypeInv
  <2>2. RequestOK([q EXCEPT !.pc = "remove"], Len(draft))
    BY <1>1, <1>3 DEF DeleteHead, RequestOK, Request, PostPC, DeletePC, InvertPC
  <2>3. Goto(r, "remove") \/ Done(r)
    BY <1>3 DEF DeleteHead
  <2>4. RequestsOK'
    BY <2>1, <2>2, <2>3, LenDraft, GotoStep, DoneStep DEF TypeInv
  <2> QED
    BY <1>3, <2>1, <2>4, CacheUnchanged, ElsewhereUnchanged DEF DeleteHead, TypeInv
<1>4. CASE DeleteRemove(r)
  <2> DEFINE new == RemoveSong(songs, q.song)
  <2>1. new \in Table /\ Len(new) = Len(draft)
    BY RemoveSongUpdates DEF Updates, TypeInv, TablesOK
  <2>2. TablesOK' /\ Len(draft') = Len(draft)
    BY <1>4, <2>1, CommitOutsideTables DEF DeleteRemove, TypeInv
  <2>3. RequestOK([q EXCEPT !.pc = "unlink"], Len(draft))
    BY <1>1, <1>4 DEF DeleteRemove, RequestOK, Request, PostPC, DeletePC, InvertPC
  <2>4. RequestsOK'
    BY <1>4, <2>2, <2>3, LenDraft, GotoStep DEF DeleteRemove, TypeInv
  <2> QED
    BY <1>4, <2>2, <2>4, CacheUnchanged, ElsewhereUnchanged DEF DeleteRemove, TypeInv
<1>5. CASE DeleteUnlink(r)
  <2>1. TablesOK' /\ Len(draft') = Len(draft)
    BY <1>5, TablesUnchanged DEF DeleteUnlink, TypeInv
  <2>2. CacheOK'
    BY <1>5, DeleteFileCache DEF DeleteUnlink, StoredPath, TypeInv
  <2>3. RequestsOK'
    BY <1>5, <2>1, LenDraft, DoneStep DEF DeleteUnlink, TypeInv
  <2> QED
    BY <1>5, <2>1, <2>2, <2>3, ElsewhereUnchanged DEF DeleteUnlink, TypeInv
<1> QED
  BY <1>2, <1>3, <1>4, <1>5 DEF DeleteNext

LEMMA AdminType == ASSUME TypeInv, NEW r \in Slot, AdminNext(r) PROVE TypeInv'
<1> DEFINE q == req[r]
<1>1. q \in Request /\ RequestOK(q, Len(draft)) /\ Len(draft) \in Nat
  BY LenDraft DEF TypeInv, RequestsOK
<1>2. \A pc \in AdminPC : RequestOK([q EXCEPT !.pc = pc], Len(draft))
  BY <1>1 DEF RequestOK, Request, PostPC, DeletePC, AdminPC, InvertPC
<1>3. CASE AdminRead(r)
  <2> DEFINE i == q.song
             new == [q EXCEPT !.pc = "flag", !.path = draft[i].path]
  <2>1. TablesOK' /\ Len(draft') = Len(draft)
    BY <1>3, ReadInsideTables DEF AdminRead, TypeInv
  <2>2. CASE i \in SongId(draft)
    <3>1. draft[i].path \in Path
      BY <2>2, RowOfTable DEF TypeInv, TablesOK
    <3>2. RequestOK(new, Len(draft))
      BY <1>1, <1>3, <3>1 DEF AdminRead, RequestOK, Request, PostPC, DeletePC, AdminPC, InvertPC
    <3>3. req' = [req EXCEPT ![r] = new]
      BY <1>3, <2>2 DEF AdminRead, TypeInv, RequestsOK
    <3>4. RequestsOK'
      BY <2>1, <3>2, <3>3, LenDraft, RequestStep DEF TypeInv
    <3> QED
      BY <1>3, <2>1, <3>4, CacheUnchanged, ElsewhereUnchanged DEF AdminRead, TypeInv
  <2>3. CASE i \notin SongId(draft)
    <3>1. RequestsOK'
      BY <1>3, <2>1, <2>3, LenDraft, DoneStep DEF AdminRead, TypeInv
    <3> QED
      BY <1>3, <2>1, <3>1, CacheUnchanged, ElsewhereUnchanged DEF AdminRead, TypeInv
  <2> QED
    BY <2>2, <2>3
<1>4. CASE AdminFlag(r)
  <2>1. TablesOK' /\ Len(draft') = Len(draft)
    BY <1>4, WriteInsideTables DEF AdminFlag, FlagSong, TypeInv, TablesOK
  <2>2. RequestsOK'
    BY <1>2, <1>4, <2>1, LenDraft, GotoStep DEF AdminFlag, AdminPC, TypeInv
  <2> QED
    BY <1>4, <2>1, <2>2, CacheUnchanged, ElsewhereUnchanged DEF AdminFlag, TypeInv
<1>5. CASE AdminHead(r)
  <2>1. TablesOK' /\ Len(draft') = Len(draft)
    BY <1>5, ReadInsideTables DEF AdminHead, TypeInv
  <2>2. Goto(r, "stop") \/ Goto(r, "adminRemove")
    BY <1>5 DEF AdminHead
  <2>3. RequestsOK'
    BY <1>2, <2>1, <2>2, LenDraft, GotoStep DEF AdminPC, TypeInv
  <2> QED
    BY <1>5, <2>1, <2>3, CacheUnchanged, ElsewhereUnchanged DEF AdminHead, TypeInv
<1>6. CASE AdminStop(r)
  <2>1. TablesOK' /\ Len(draft') = Len(draft)
    BY <1>6, TablesUnchanged DEF AdminStop, TypeInv
  <2>2. RequestsOK'
    BY <1>6, <2>1, LenDraft, DoneStep DEF AdminStop, TypeInv
  <2>3. q.song \in Nat
    BY <1>1 DEF Request
  <2>4. RestOK' /\ PlayerOK'
    BY <1>6, <2>3 DEF AdminStop, TypeInv, RestOK, PlayerOK
  <2> QED
    BY <1>6, <2>1, <2>2, <2>4, CacheUnchanged DEF AdminStop, TypeInv
<1>7. CASE AdminRemove(r)
  <2> DEFINE new == RemoveSong(draft, q.song)
  <2>1. new \in Table /\ Len(new) = Len(draft)
    BY RemoveSongUpdates DEF Updates, TypeInv, TablesOK
  <2>2. TablesOK' /\ Len(draft') = Len(draft)
    BY <1>7, <2>1, WriteInsideTables DEF AdminRemove, TypeInv
  <2>3. RequestsOK'
    BY <1>2, <1>7, <2>2, LenDraft, GotoStep DEF AdminRemove, AdminPC, TypeInv
  <2> QED
    BY <1>7, <2>2, <2>3, CacheUnchanged, ElsewhereUnchanged DEF AdminRemove, TypeInv
<1>8. CASE AdminUnlink(r)
  <2>1. TablesOK' /\ Len(draft') = Len(draft)
    BY <1>8, TablesUnchanged DEF AdminUnlink, TypeInv
  <2>2. CacheOK'
    BY <1>8, DeleteFileCache DEF AdminUnlink, StoredPath, TypeInv
  <2>3. RequestsOK'
    BY <1>8, <2>1, LenDraft, DoneStep DEF AdminUnlink, TypeInv
  <2> QED
    BY <1>8, <2>1, <2>2, <2>3, ElsewhereUnchanged DEF AdminUnlink, TypeInv
<1>9. CASE AdminRefused(r)
  <2>1. TablesOK' /\ Len(draft') = Len(draft)
    BY <1>9, TablesUnchanged DEF AdminRefused, TypeInv
  <2>2. RequestsOK'
    BY <1>9, <2>1, LenDraft, DoneStep DEF AdminRefused, TypeInv
  <2> QED
    BY <1>9, <2>1, <2>2, CacheUnchanged, ElsewhereUnchanged DEF AdminRefused, TypeInv
<1> QED
  BY <1>3, <1>4, <1>5, <1>6, <1>7, <1>8, <1>9 DEF AdminNext

LEMMA InvertType == ASSUME TypeInv, NEW r \in Slot, InvertNext(r) PROVE TypeInv'
<1> DEFINE q == req[r]
           goto(pc) == [q EXCEPT !.pc = pc]
<1>1. q \in Request /\ RequestOK(q, Len(draft)) /\ Len(draft) \in Nat
  BY LenDraft DEF TypeInv, RequestsOK
<1>2. CASE InvertRead(r)
  <2>1. TablesOK' /\ Len(draft') = Len(draft)
    BY <1>2, ReadInsideTables DEF InvertRead, TypeInv
  <2>2. CASE q.pc = "read1" /\ InQueue(q.song)
    <3>1. RequestOK(goto("read2"), Len(draft))
      BY <1>1, <2>2 DEF InQueue, SongId, RequestOK, Request, PostPC, DeletePC, InvertPC
    <3> QED
      BY <1>2, <2>1, <2>2, <3>1, LenDraft, GotoStep, CacheUnchanged, ElsewhereUnchanged
      DEF InvertRead, TypeInv
  <2>3. CASE q.pc = "read2" /\ InQueue(q.other)
    <3>1. RequestOK(goto("invertHead"), Len(draft))
      BY <1>1, <2>3 DEF InQueue, SongId, RequestOK, Request, PostPC, DeletePC, InvertPC
    <3> QED
      BY <1>2, <2>1, <2>3, <3>1, LenDraft, GotoStep, CacheUnchanged, ElsewhereUnchanged
      DEF InvertRead, TypeInv
  <2>4. CASE Done(r)
    BY <1>2, <2>1, <2>4, LenDraft, DoneStep, CacheUnchanged, ElsewhereUnchanged
    DEF InvertRead, TypeInv
  <2> QED
    BY <1>2, <2>2, <2>3, <2>4 DEF InvertRead
<1>3. CASE InvertHead(r)
  <2>1. TablesOK' /\ Len(draft') = Len(draft)
    BY <1>3, ReadInsideTables DEF InvertHead, TypeInv
  <2>2. RequestOK(goto("begin"), Len(draft))
    BY <1>1, <1>3 DEF InvertHead, RequestOK, Request, PostPC, DeletePC, InvertPC
  <2>3. Goto(r, "begin") \/ Done(r)
    BY <1>3 DEF InvertHead
  <2>4. RequestsOK'
    BY <2>1, <2>2, <2>3, LenDraft, GotoStep, DoneStep DEF TypeInv
  <2> QED
    BY <1>3, <2>1, <2>4, CacheUnchanged, ElsewhereUnchanged DEF InvertHead, TypeInv
<1>4. CASE InvertBegin(r)
  <2>1. TablesOK' /\ Len(draft') = Len(draft)
    BY <1>4 DEF InvertBegin, NoTxn, TypeInv, TablesOK
  <2>2. RequestOK(goto("select"), Len(draft))
    BY <1>1, <1>4 DEF InvertBegin, RequestOK, Request, PostPC, DeletePC, InvertPC
  <2>3. Goto(r, "select") \/ Done(r)
    BY <1>4 DEF InvertBegin
  <2>4. RequestsOK'
    BY <2>1, <2>2, <2>3, LenDraft, GotoStep, DoneStep DEF TypeInv
  <2> QED
    BY <1>4, <2>1, <2>4, CacheUnchanged, ElsewhereUnchanged DEF InvertBegin, TypeInv
<1>5. CASE InvertSelect(r)
  <2> DEFINE new == [q EXCEPT !.pc = "update1", !.order1 = draft[q.song].order,
                              !.order2 = draft[q.other].order]
  <2>1. TablesOK' /\ Len(draft') = Len(draft)
    BY <1>5, ReadInsideTables DEF InvertSelect, TypeInv
  <2>2. q.song \in SongId(draft) /\ q.other \in SongId(draft)
    BY <1>1, <1>5 DEF InvertSelect, RequestOK, InvertPC, SongId
  <2>3. draft[q.song].order \in Nat /\ draft[q.other].order \in Nat
    BY <2>2, RowOfTable DEF TypeInv, TablesOK
  <2>4. RequestOK(new, Len(draft))
    BY <1>1, <1>5, <2>3 DEF InvertSelect, RequestOK, Request, PostPC, DeletePC, InvertPC
  <2>5. RequestsOK'
    BY <1>5, <2>1, <2>4, LenDraft, RequestStep DEF InvertSelect, TypeInv
  <2> QED
    BY <1>5, <2>1, <2>5, CacheUnchanged, ElsewhereUnchanged DEF InvertSelect, TypeInv
<1>6. CASE InvertUpdate1(r)
  <2> DEFINE new == SetOrder(draft, q.song, q.order2)
  <2>1. new \in Table /\ Len(new) = Len(draft)
    BY <1>1, SetOrderUpdates DEF Updates, TypeInv, TablesOK, Request
  <2>2. TablesOK' /\ Len(draft') = Len(draft)
    BY <1>6, <2>1, WriteInsideTables DEF InvertUpdate1, TypeInv
  <2>3. RequestOK(goto("update2"), Len(draft))
    BY <1>1, <1>6 DEF InvertUpdate1, RequestOK, Request, PostPC, DeletePC, InvertPC
  <2>4. RequestsOK'
    BY <1>6, <2>2, <2>3, LenDraft, GotoStep DEF InvertUpdate1, TypeInv
  <2> QED
    BY <1>6, <2>2, <2>4, CacheUnchanged, ElsewhereUnchanged DEF InvertUpdate1, TypeInv
<1>7. CASE InvertUpdate2(r)
  <2> DEFINE new == SetOrder(draft, q.other, q.order1)
  <2>1. new \in Table /\ Len(new) = Len(draft)
    BY <1>1, SetOrderUpdates DEF Updates, TypeInv, TablesOK, Request
  <2>2. TablesOK' /\ Len(draft') = Len(draft)
    BY <1>7, <2>1, WriteInsideTables DEF InvertUpdate2, TypeInv
  <2>3. RequestOK(goto("commit"), Len(draft))
    BY <1>1, <1>7 DEF InvertUpdate2, RequestOK, Request, PostPC, DeletePC, InvertPC
  <2>4. RequestsOK'
    BY <1>7, <2>2, <2>3, LenDraft, GotoStep DEF InvertUpdate2, TypeInv
  <2> QED
    BY <1>7, <2>2, <2>4, CacheUnchanged, ElsewhereUnchanged DEF InvertUpdate2, TypeInv
<1>8. CASE InvertCommit(r)
  <2>1. TablesOK' /\ Len(draft') = Len(draft)
    BY <1>8 DEF InvertCommit, NoTxn, TypeInv, TablesOK
  <2>2. RequestsOK'
    BY <1>8, <2>1, LenDraft, DoneStep DEF InvertCommit, TypeInv
  <2> QED
    BY <1>8, <2>1, <2>2, CacheUnchanged, ElsewhereUnchanged DEF InvertCommit, TypeInv
<1>9. CASE InvertRollback(r)
  <2>1. TablesOK' /\ Len(draft') = Len(draft)
    BY <1>9 DEF InvertRollback, NoTxn, TypeInv, TablesOK
  <2>2. RequestsOK'
    BY <1>9, <2>1, LenDraft, DoneStep DEF InvertRollback, TypeInv
  <2> QED
    BY <1>9, <2>1, <2>2, CacheUnchanged, ElsewhereUnchanged DEF InvertRollback, TypeInv
<1> QED
  BY <1>2, <1>3, <1>4, <1>5, <1>6, <1>7, <1>8, <1>9 DEF InvertNext

LEMMA ArriveType == ASSUME TypeInv, NEW r \in Slot, Arrive(r) PROVE TypeInv'
<1>1. Len(draft) \in Nat /\ \A i \in SongId(songs) : i \in Nat
  BY DEF TypeInv, TablesOK, Table, SongId
<1>2. PICK q : RequestOK(q, Len(draft)) /\ req' = [req EXCEPT ![r] = q]
  <2>1. CASE \E u \in User, content \in Uploads : PostStart(r, u, content)
    <3>1. PICK u \in User, content \in Uploads : PostStart(r, u, content)
      BY <2>1
    <3> DEFINE new == [Idle EXCEPT !.pc = "name", !.user = u, !.content = content]
    <3>2. RequestOK(new, Len(draft))
      BY UploadsAssumption DEF RequestOK, Idle, Request, PostPC, DeletePC, AdminPC, InvertPC,
                               Content, Path, NoSong
    <3> QED
      BY <3>1, <3>2 DEF PostStart
  <2>2. CASE \E u \in User, i \in SongId(songs) : DeleteStart(r, u, i)
    <3>1. PICK u \in User, i \in SongId(songs) : DeleteStart(r, u, i)
      BY <2>2
    <3> DEFINE new == [Idle EXCEPT !.pc = "read", !.user = u, !.song = i]
    <3>2. RequestOK(new, Len(draft))
      BY <1>1 DEF RequestOK, Idle, Request, PostPC, DeletePC, AdminPC, InvertPC,
                  Content, Path, NoSong
    <3> QED
      BY <3>1, <3>2 DEF DeleteStart
  <2>3. CASE \E i \in SongId(songs) : AdminStart(r, i)
    <3>1. PICK i \in SongId(songs) : AdminStart(r, i)
      BY <2>3
    <3> DEFINE new == [Idle EXCEPT !.pc = "adminRead", !.song = i]
    <3>2. RequestOK(new, Len(draft))
      BY <1>1 DEF RequestOK, Idle, Request, PostPC, DeletePC, AdminPC, InvertPC,
                  Content, Path, NoSong
    <3> QED
      BY <3>1, <3>2 DEF AdminStart
  <2>4. CASE \E i, j \in SongId(songs) : i < j /\ InvertStart(r, i, j)
    <3>1. PICK i \in SongId(songs), j \in SongId(songs) : InvertStart(r, i, j)
      BY <2>4
    <3> DEFINE new == [Idle EXCEPT !.pc = "read1", !.song = i, !.other = j]
    <3>2. RequestOK(new, Len(draft))
      BY <1>1, <3>1 DEF InvertStart, RequestOK, Idle, Request, PostPC, DeletePC, AdminPC,
                        InvertPC, Content, Path, NoSong
    <3> QED
      BY <3>1, <3>2 DEF InvertStart
  <2> QED
    BY <2>1, <2>2, <2>3, <2>4 DEF Arrive
<1>3. UNCHANGED <<Database, cache, Elsewhere>>
  BY DEF Arrive, PostStart, DeleteStart, AdminStart, InvertStart
<1>4. TablesOK' /\ Len(draft') = Len(draft)
  BY <1>3, TablesUnchanged DEF TypeInv
<1>5. RequestsOK'
  BY <1>2, <1>4, LenDraft, RequestStep DEF TypeInv
<1> QED
  BY <1>3, <1>4, <1>5, CacheUnchanged, ElsewhereUnchanged DEF TypeInv

(* A step that leaves every request alone. *)
LEMMA RequestsUnchanged ==
    ASSUME RequestsOK, TablesOK, TablesOK', Len(draft') = Len(draft), UNCHANGED req
    PROVE  RequestsOK'
BY DEF RequestsOK

LEMMA PlayerType == ASSUME TypeInv, PlayerNext PROVE TypeInv'
<1>1. player \in [pc : {"poll", "open", "play", "lookup", "remove", "unlink"},
                  song : Nat, target : Nat, path : Path, heard : Content]
  BY DEF TypeInv, PlayerOK
<1>2. CASE PlayerPoll
  <2>1. PICK h \in Heads(songs) :
           player' = [IdlePlayer EXCEPT !.pc = "open", !.song = h, !.path = songs[h].path]
    BY <1>2 DEF PlayerPoll
  <2>2. h \in Nat /\ songs[h].path \in Path
    BY <2>1, RowOfTable DEF Heads, Playable, SongId, TypeInv, TablesOK
  <2>3. PlayerOK'
    BY <2>1, <2>2 DEF PlayerOK, IdlePlayer, Content, Path, NoSong
  <2> QED
    BY <1>2, <2>3, TablesUnchanged, RequestsUnchanged, CacheUnchanged
    DEF PlayerPoll, TypeInv, RestOK
<1>3. CASE PlayerOpen
  <2>1. IsFileCached(cache, player.path) => cache.files[player.path] \in Content
    BY DEF IsFileCached, TypeInv, CacheOK
  <2>2. PlayerOK'
    BY <1>1, <1>3, <2>1 DEF PlayerOpen, PlayerOK, Content
  <2> QED
    BY <1>3, <2>2, TablesUnchanged, RequestsUnchanged, CacheUnchanged
    DEF PlayerOpen, TypeInv, RestOK
<1>4. CASE PlayerFinish
  <2>1. PlayerOK'
    BY <1>1, <1>4 DEF PlayerFinish, PlayerOK
  <2> QED
    BY <1>4, <2>1, TablesUnchanged, RequestsUnchanged, CacheUnchanged
    DEF PlayerFinish, TypeInv, RestOK
<1>5. CASE PlayerLookup
  <2> DEFINE hits == SongByPath(songs, player.path)
  <2>1. hits # {} => (CHOOSE i \in hits : TRUE) \in Nat
    BY DEF SongByPath, SongId
  <2>2. PlayerOK'
    BY <1>1, <1>5, <2>1 DEF PlayerLookup, PlayerOK
  <2> QED
    BY <1>5, <2>2, TablesUnchanged, RequestsUnchanged, CacheUnchanged
    DEF PlayerLookup, TypeInv, RestOK
<1>6. CASE PlayerRemove
  <2> DEFINE new == RemoveSong(songs, player.target)
  <2>1. new \in Table /\ Len(new) = Len(draft)
    BY RemoveSongUpdates DEF Updates, TypeInv, TablesOK
  <2>2. TablesOK' /\ Len(draft') = Len(draft)
    BY <1>6, <2>1, CommitOutsideTables DEF PlayerRemove, TypeInv
  <2>3. PlayerOK'
    BY <1>1, <1>6 DEF PlayerRemove, PlayerOK
  <2> QED
    BY <1>6, <2>2, <2>3, RequestsUnchanged, CacheUnchanged DEF PlayerRemove, TypeInv, RestOK
<1>7. CASE PlayerUnlink
  <2>1. CacheOK'
    BY <1>7, DeleteFileCache DEF PlayerUnlink, Bare, TypeInv
  <2>2. PlayerOK'
    BY <1>1, <1>7 DEF PlayerUnlink, PlayerOK, IdlePlayer, Content, Path, NoSong
  <2> QED
    BY <1>7, <2>1, <2>2, TablesUnchanged, RequestsUnchanged DEF PlayerUnlink, TypeInv, RestOK
<1> QED
  BY <1>2, <1>3, <1>4, <1>5, <1>6, <1>7 DEF PlayerNext

LEMMA DeliverStopType == ASSUME TypeInv, DeliverStop PROVE TypeInv'
<1>1. PlayerOK' /\ RestOK'
  BY DEF DeliverStop, TypeInv, PlayerOK, RestOK
<1> QED
  BY <1>1, TablesUnchanged, RequestsUnchanged, CacheUnchanged DEF DeliverStop, TypeInv

(* A starting process empties the cache. *)
LEMMA FreshStoreCache == ASSUME cache' = FreshStore PROVE CacheOK'
BY DEF CacheOK, FreshStore, Empty

LEMMA BootType == ASSUME TypeInv, BootNext PROVE TypeInv'
<1> DEFINE new == WipeSongs(songs)
<1>1. new \in Table /\ Len(new) = Len(draft)
  BY WipeSongsUpdates DEF Updates, TypeInv, TablesOK
<1>2. CASE BootHttp
  <2>1. TablesOK' /\ Len(draft') = Len(draft)
    BY <1>1, <1>2, CommitOutsideTables DEF BootHttp, TypeInv
  <2> QED
    BY <1>2, <2>1, RequestsUnchanged, FreshStoreCache DEF BootHttp, TypeInv, RestOK, PlayerOK
<1>3. CASE BootHttpsCache
  BY <1>3, TablesUnchanged, RequestsUnchanged, FreshStoreCache
  DEF BootHttpsCache, TypeInv, RestOK, PlayerOK
<1>4. CASE BootHttpsDatabase
  <2>1. TablesOK' /\ Len(draft') = Len(draft)
    BY <1>1, <1>4, CommitOutsideTables DEF BootHttpsDatabase, TypeInv
  <2> QED
    BY <1>4, <2>1, RequestsUnchanged, CacheUnchanged
    DEF BootHttpsDatabase, TypeInv, RestOK, PlayerOK
<1> QED
  BY <1>2, <1>3, <1>4 DEF BootNext

(* With every request gone there is nothing left to check. *)
LEMMA NoRequests ==
    ASSUME TablesOK, req = [r \in Slot |-> Idle]
    PROVE  RequestsOK
<1>1. Len(draft) \in Nat
  BY DEF TablesOK, Table
<1>2. RequestOK(Idle, Len(draft))
  BY <1>1, IdleOK
<1> QED
  BY <1>2 DEF RequestsOK, RequestOK

LEMMA RestartType == ASSUME TypeInv, Restart PROVE TypeInv'
<1> DEFINE new == WipeSongs(songs)
<1>1. new \in Table /\ Len(new) = Len(draft)
  BY WipeSongsUpdates DEF Updates, TypeInv, TablesOK
<1>2. TablesOK'
  BY <1>1 DEF Restart, NoTxn, TablesOK, TypeInv
<1>3. RequestsOK'
  <2>1. req' = [r \in Slot |-> Idle] /\ Len(draft') \in Nat
    BY <1>2 DEF Restart, TablesOK, Table
  <2>2. RequestOK(Idle, Len(draft'))
    BY <2>1, IdleOK
  <2> QED
    BY <2>1, <2>2 DEF RequestsOK, RequestOK
<1>4. PlayerOK' /\ RestOK'
  BY DEF Restart, TypeInv, PlayerOK, RestOK, IdlePlayer, Content, Path, NoSong
<1> QED
  BY <1>2, <1>3, <1>4, FreshStoreCache DEF Restart, TypeInv

LEMMA InitType == Init => TypeInv
<1> SUFFICES ASSUME Init PROVE TypeInv
  OBVIOUS
<1>1. TablesOK
  BY DEF Init, TablesOK, NoTxn, Table
<1>2. RequestsOK
  BY <1>1, NoRequests DEF Init
<1>3. CacheOK
  BY DEF Init, CacheOK, FreshStore, Empty
<1>4. PlayerOK /\ RestOK
  BY DEF Init, PlayerOK, RestOK, IdlePlayer, Content, Path, NoSong
<1> QED
  BY <1>1, <1>2, <1>3, <1>4 DEF TypeInv

LEMMA NextType == TypeInv /\ [Next]_vars => TypeInv'
<1> SUFFICES ASSUME TypeInv, [Next]_vars PROVE TypeInv'
  OBVIOUS
<1>1. CASE UNCHANGED vars
  BY <1>1, TablesUnchanged, RequestsUnchanged, CacheUnchanged
  DEF vars, Database, TypeInv, PlayerOK, RestOK
<1>2. CASE \E r \in Slot : Arrive(r) \/ Serve(r)
  BY <1>2, ArriveType, PostType, DeleteType, AdminType, InvertType DEF Serve
<1> QED
  BY <1>1, <1>2, PlayerType, DeliverStopType, BootType, RestartType DEF Next

(* The types of the variables hold in every state: among them, that a path   *)
(* is a name postFile_ made, and that an inversion under way knows two rows. *)
THEOREM TypeCorrect == Spec => []TypeOK
<1>1. TypeInv => TypeOK
  BY DEF TypeInv, TypeOK, RequestsOK, TablesOK, CacheOK, PlayerOK, RestOK
<1> QED
  BY <1>1, InitType, NextType, PTL DEF Spec

-----------------------------------------------------------------------------
(* The places of the songs.  An inversion reads two places and writes them    *)
(* crosswise in a transaction other threads write in too, so the committed   *)
(* table is safe only because the draft differs from it, at each step of the *)
(* inversion, by exactly what the inversion has written so far.              *)

Swapping == {"select", "update1", "update2", "commit"}

LockInv ==
    /\ ~txn.wrote => draft = songs
    /\ txn.wrote => txn.shared
    /\ txn.shared => txn.owner # NoSlot
    /\ \A r \in Slot : req[r].pc \in Swapping <=> txn.owner = r

(* What the thread of an open transaction has read and written. *)
SwapInv(q) ==
    /\ q.pc \in {"update1", "update2", "commit"} =>
          /\ txn.shared
          /\ q.order1 = songs[q.song].order
          /\ q.order2 = songs[q.other].order
    /\ q.pc \in {"select", "update1"} => KeepsOrders(songs, draft)
    /\ q.pc = "update2" =>
          \A i \in SongId(songs) :
             draft[i].order = IF i = q.song THEN q.order2 ELSE songs[i].order
    /\ q.pc = "commit" =>
          \A i \in SongId(songs) :
             draft[i].order = IF i = q.song THEN q.order2
                              ELSE IF i = q.other THEN q.order1 ELSE songs[i].order

GoneInv == \A i \in SongId(songs) : songs[i].path = NoPath => draft[i].path = NoPath

IInv ==
    /\ TypeInv
    /\ LockInv
    /\ \A r \in Slot : SwapInv(req[r])
    /\ GoneInv
    /\ OrdersDistinct(songs)

(* The steps of threads that are in no transaction of their own. *)
Quiet == \A r \in Slot :
            req[r].pc \in Swapping \/ req'[r].pc \in Swapping => req'[r] = req[r]

(* What a step never brings back. *)
SongsStayGone == \A i \in SongId(songs) : songs[i].path = NoPath => songs'[i].path = NoPath
DraftStaysGone == \A i \in SongId(draft) : draft[i].path = NoPath => draft'[i].path = NoPath

StepOK == IInv' /\ SongsStayGone /\ DraftStaysGone

LEMMA QuietUnchanged ==
    ASSUME IInv, TypeInv', UNCHANGED <<songs, draft>>, txn'.owner = txn.owner,
           txn'.wrote = txn.wrote, txn.shared => txn'.shared,
           txn'.shared => txn.owner # NoSlot, Quiet
    PROVE  StepOK
<1>1. LockInv'
  BY DEF IInv, LockInv, Quiet
<1>2. ASSUME NEW r \in Slot PROVE SwapInv(req[r])'
  <2>1. CASE req'[r].pc \in Swapping
    <3>1. req'[r] = req[r] /\ SwapInv(req[r])
      BY <2>1 DEF Quiet, IInv
    <3> QED
      BY <3>1 DEF SwapInv, KeepsOrders
  <2>2. CASE req'[r].pc \notin Swapping
    BY <2>2 DEF SwapInv, Swapping
  <2> QED
    BY <2>1, <2>2
<1>3. GoneInv' /\ OrdersDistinct(songs)'
  BY DEF IInv, GoneInv
<1> QED
  BY <1>1, <1>2, <1>3 DEF StepOK, IInv, SongsStayGone, DraftStaysGone

LEMMA QuietReadInside ==
    ASSUME IInv, TypeInv', ReadInside, Quiet
    PROVE  StepOK
<1>1. txn'.owner = txn.owner /\ txn'.wrote = txn.wrote /\ txn'.shared = (txn.owner # NoSlot)
  BY DEF ReadInside, IInv, TypeInv, TablesOK
<1> QED
  BY <1>1, QuietUnchanged DEF ReadInside, IInv, LockInv

LEMMA QuietNoDatabase ==
    ASSUME IInv, TypeInv', UNCHANGED Database, Quiet
    PROVE  StepOK
BY QuietUnchanged DEF Database, IInv, LockInv

LEMMA QuietCommitOutside ==
    ASSUME IInv, TypeInv', NEW t \in Table, CommitOutside(t), Quiet, OrdersDistinct(t),
           \A i \in SongId(songs) : songs[i].path = NoPath => t[i].path = NoPath
    PROVE  StepOK
<1>1. draft = songs /\ songs' = t /\ draft' = t /\ txn' = txn /\ ~txn.shared
  BY DEF CommitOutside, IInv, LockInv
<1>2. LockInv'
  BY <1>1 DEF IInv, LockInv, Quiet
<1>3. ASSUME NEW r \in Slot PROVE SwapInv(req[r])'
  <2>1. req'[r].pc \notin {"update1", "update2", "commit"}
    <3>1. SwapInv(req[r])
      BY DEF IInv
    <3> QED
      BY <1>1, <3>1 DEF SwapInv, Quiet, Swapping
  <2> QED
    BY <1>1, <2>1 DEF SwapInv, KeepsOrders
<1>4. GoneInv' /\ OrdersDistinct(songs)'
  BY <1>1 DEF GoneInv
<1> QED
  BY <1>1, <1>2, <1>3, <1>4 DEF StepOK, IInv, SongsStayGone, DraftStaysGone

LEMMA QuietWriteInside ==
    ASSUME IInv, TypeInv', NEW t \in Table, WriteInside(t), Quiet,
           Updates(draft, t), KeepsOrders(draft, t)
    PROVE  StepOK
<1>0. songs \in Table /\ draft \in Table /\ SongId(songs) = SongId(draft) /\ Len(t) = Len(draft)
  BY DEF IInv, TypeInv, TablesOK, SongId, Updates
<1>1. CASE txn.owner = NoSlot
  <2>1. /\ draft = songs /\ songs' = t /\ draft' = t
        /\ txn'.owner = NoSlot /\ ~txn'.shared /\ ~txn'.wrote
    BY <1>1 DEF WriteInside, IInv, LockInv, TypeInv, TablesOK
  <2>2. \A r \in Slot : req[r].pc \notin Swapping /\ req'[r].pc \notin Swapping
    BY <1>1, SlotAssumption DEF IInv, LockInv, Quiet
  <2>3. LockInv' /\ \A r \in Slot : SwapInv(req[r])'
    BY <2>1, <2>2, SlotAssumption DEF LockInv, SwapInv, Swapping
  <2>4. OrdersDistinct(songs)'
    BY <1>0, <2>1, SameOrdersDistinct DEF IInv
  <2> QED
    BY <1>0, <2>1, <2>3, <2>4 DEF StepOK, IInv, GoneInv, SongsStayGone, DraftStaysGone, Updates
<1>2. CASE txn.owner # NoSlot
  <2>1. /\ songs' = songs /\ draft' = t
        /\ txn'.owner = txn.owner /\ txn'.shared = TRUE /\ txn'.wrote = TRUE
    BY <1>2 DEF WriteInside, IInv, TypeInv, TablesOK
  <2>2. LockInv'
    BY <1>2, <2>1 DEF IInv, LockInv, Quiet
  <2>3. ASSUME NEW r \in Slot PROVE SwapInv(req[r])'
    <3>1. CASE req'[r].pc \in Swapping
      <4>1. req'[r] = req[r] /\ SwapInv(req[r])
        BY <3>1 DEF Quiet, IInv
      <4> QED
        BY <1>0, <2>1, <4>1 DEF SwapInv, KeepsOrders
    <3>2. CASE req'[r].pc \notin Swapping
      BY <3>2 DEF SwapInv, Swapping
    <3> QED
      BY <3>1, <3>2
  <2>4. GoneInv' /\ OrdersDistinct(songs)'
    BY <1>0, <2>1 DEF GoneInv, IInv, Updates
  <2> QED
    BY <1>0, <2>1, <2>2, <2>3, <2>4 DEF StepOK, IInv, SongsStayGone, DraftStaysGone, Updates
<1> QED
  BY <1>1, <1>2

-----------------------------------------------------------------------------
(* Every step keeps the places, one process at a time. *)

(* Only the thread of a step changes its request. *)
LEMMA QuietStep ==
    ASSUME TypeInv, NEW r \in Slot, NEW q, req' = [req EXCEPT ![r] = q],
           req[r].pc \notin Swapping, q.pc \notin Swapping
    PROVE  Quiet
BY DEF Quiet, TypeInv, RequestsOK

LEMMA QuietGoto ==
    ASSUME TypeInv, NEW r \in Slot, NEW pc, Goto(r, pc),
           req[r].pc \notin Swapping, pc \notin Swapping
    PROVE  Quiet
<1>1. req[r] \in Request
  BY DEF TypeInv, RequestsOK
<1>2. [req[r] EXCEPT !.pc = pc].pc = pc
  BY <1>1 DEF Request
<1> QED
  BY <1>2, QuietStep DEF Goto

LEMMA QuietDone ==
    ASSUME TypeInv, NEW r \in Slot, Done(r), req[r].pc \notin Swapping
    PROVE  Quiet
BY QuietStep DEF Done, Idle, Swapping

LEMMA QuietIdle == ASSUME UNCHANGED req PROVE Quiet
BY DEF Quiet

LEMMA PostOrders ==
    ASSUME IInv, TypeInv', NEW r \in Slot, PostNext(r)
    PROVE  StepOK
<1>1. TypeInv /\ req[r] \in Request
  BY DEF IInv, TypeInv, RequestsOK
<1>2. Quiet
  <2>1. req[r].pc \in PostPC
    BY DEF PostNext, PostFetch, PostName, PostWrite, PostHeader, PostCheck, PostDrop,
           PostInsert, PostPC
  <2>2. (\A s \in Slot : s # r => req'[s] = req[s]) /\ req'[r].pc \notin Swapping
    <3>1. CASE PostName(r)
      BY <1>1, <3>1 DEF PostName, TypeInv, RequestsOK, Request, Swapping
    <3>2. CASE PostFetch(r)
      BY <1>1, <3>2 DEF PostFetch, TypeInv, RequestsOK, Request, Swapping
    <3>3. CASE PostHeader(r)
      BY <1>1, <3>3 DEF PostHeader, TypeInv, RequestsOK, Request, Swapping
    <3>4. ASSUME \E pc \in {"header", "drop", "insert"} : Goto(r, pc)
          PROVE  (\A s \in Slot : s # r => req'[s] = req[s]) /\ req'[r].pc \notin Swapping
      BY <1>1, <3>4 DEF Goto, TypeInv, RequestsOK, Request, Swapping
    <3>5. ASSUME Done(r)
          PROVE  (\A s \in Slot : s # r => req'[s] = req[s]) /\ req'[r].pc \notin Swapping
      BY <1>1, <3>5 DEF Done, Idle, TypeInv, RequestsOK, Swapping
    <3> QED
      BY <3>1, <3>2, <3>3, <3>4, <3>5
      DEF PostNext, PostWrite, PostCheck, PostDrop, PostInsert
  <2> QED
    BY <2>1, <2>2 DEF Quiet, PostPC, Swapping
<1>3. CASE PostInsert(r)
  <2> DEFINE q == req[r]
             new == CreateSong(songs, q.user, q.content, q.path)
  <2>1. q.user \in User /\ q.content \in Title /\ q.path \in Path /\ songs \in Table
    BY <1>1, <1>3 DEF PostInsert, RequestOK, PostPC, Path, TypeInv, RequestsOK, TablesOK
  <2>2. new \in Table /\ OrdersDistinct(new) /\ \A i \in SongId(songs) : new[i] = songs[i]
    BY <2>1, CreateSongAppends, NewSongOrdersDistinct DEF IInv
  <2> QED
    BY <1>2, <1>3, <2>2, QuietCommitOutside DEF PostInsert
<1> QED
  BY <1>2, <1>3, QuietNoDatabase
  DEF PostNext, PostFetch, PostName, PostWrite, PostHeader, PostCheck, PostDrop

(* A table with one more path cleared keeps the places. *)
LEMMA RemoveSongPlaces ==
    ASSUME IInv, NEW n
    PROVE  LET new == RemoveSong(songs, n)
           IN  /\ new \in Table /\ OrdersDistinct(new)
               /\ \A i \in SongId(songs) : songs[i].path = NoPath => new[i].path = NoPath
<1>1. songs \in Table
  BY DEF IInv, TypeInv, TablesOK
<1> QED
  BY <1>1, RemoveSongUpdates, SameOrdersDistinct DEF IInv, Updates

LEMMA WipeSongsPlaces ==
    ASSUME IInv
    PROVE  LET new == WipeSongs(songs)
           IN  /\ new \in Table /\ Len(new) = Len(songs) /\ OrdersDistinct(new)
               /\ \A i \in SongId(songs) : new[i].path = NoPath
<1>1. songs \in Table
  BY DEF IInv, TypeInv, TablesOK
<1> QED
  BY <1>1, WipeSongsUpdates, SameOrdersDistinct DEF IInv, Updates

LEMMA DeleteOrders ==
    ASSUME IInv, TypeInv', NEW r \in Slot, DeleteNext(r)
    PROVE  StepOK
<1>1. TypeInv /\ req[r] \in Request
  BY DEF IInv, TypeInv, RequestsOK
<1>2. Quiet
  <2>1. req[r].pc \in DeletePC
    BY DEF DeleteNext, DeleteRead, DeleteHead, DeleteRemove, DeleteUnlink, DeletePC
  <2>2. \A s \in Slot : s # r => req'[s] = req[s]
    BY <1>1 DEF DeleteNext, DeleteRead, DeleteHead, DeleteRemove, DeleteUnlink,
                Goto, Done, TypeInv, RequestsOK
  <2>3. req'[r].pc \notin Swapping
    BY <1>1 DEF DeleteNext, DeleteRead, DeleteHead, DeleteRemove, DeleteUnlink,
                Goto, Done, Idle, TypeInv, RequestsOK, Request, Swapping
  <2> QED
    BY <2>1, <2>2, <2>3 DEF Quiet, DeletePC, Swapping
<1>3. CASE DeleteRemove(r)
  BY <1>2, <1>3, RemoveSongPlaces, QuietCommitOutside DEF DeleteRemove
<1> QED
  BY <1>2, <1>3, QuietNoDatabase DEF DeleteNext, DeleteRead, DeleteHead, DeleteUnlink

LEMMA AdminOrders ==
    ASSUME IInv, TypeInv', NEW r \in Slot, AdminNext(r)
    PROVE  StepOK
<1>1. TypeInv /\ req[r] \in Request /\ draft \in Table
  BY DEF IInv, TypeInv, RequestsOK, TablesOK
<1>2. Quiet
  <2>1. req[r].pc \in AdminPC
    BY DEF AdminNext, AdminRead, AdminFlag, AdminHead, AdminStop, AdminRemove, AdminUnlink,
           AdminRefused, AdminPC
  <2>2. \A s \in Slot : s # r => req'[s] = req[s]
    BY <1>1 DEF AdminNext, AdminRead, AdminFlag, AdminHead, AdminStop, AdminRemove,
                AdminUnlink, AdminRefused, Goto, Done, TypeInv, RequestsOK
  <2>3. req'[r].pc \notin Swapping
    BY <1>1 DEF AdminNext, AdminRead, AdminFlag, AdminHead, AdminStop, AdminRemove,
                AdminUnlink, AdminRefused, Goto, Done, Idle, TypeInv, RequestsOK, Request,
                Swapping
  <2> QED
    BY <2>1, <2>2, <2>3 DEF Quiet, AdminPC, Swapping
<1>3. CASE AdminFlag(r)
  <2>1. Updates(draft, draft) /\ KeepsOrders(draft, draft)
    BY <1>1 DEF Updates, KeepsOrders
  <2> QED
    BY <1>1, <1>2, <1>3, <2>1, QuietWriteInside DEF AdminFlag, FlagSong
<1>4. CASE AdminRemove(r)
  <2> DEFINE new == RemoveSong(draft, req[r].song)
  <2>1. new \in Table /\ Updates(draft, new) /\ KeepsOrders(draft, new)
    BY <1>1, RemoveSongUpdates DEF Updates
  <2> QED
    BY <1>2, <1>4, <2>1, QuietWriteInside DEF AdminRemove
<1>5. CASE AdminRead(r) \/ AdminHead(r)
  BY <1>2, <1>5, QuietReadInside DEF AdminRead, AdminHead
<1> QED
  BY <1>2, <1>3, <1>4, <1>5, QuietNoDatabase DEF AdminNext, AdminStop, AdminUnlink, AdminRefused

(* Of the threads of the https server, one owns the transaction. *)
LEMMA OneOwner ==
    ASSUME IInv, NEW r \in Slot, req[r].pc \in Swapping
    PROVE  txn.owner = r /\ \A s \in Slot : s # r => req[s].pc \notin Swapping
BY DEF IInv, LockInv

(* The parts of StepOK an inversion's own steps have to show. *)
LEMMA OwnerStep ==
    ASSUME IInv, TypeInv', LockInv', GoneInv', OrdersDistinct(songs)',
           SongsStayGone, DraftStaysGone, NEW r \in Slot, SwapInv(req[r])',
           \A s \in Slot : s # r => req'[s].pc \notin Swapping
    PROVE  StepOK
<1>1. \A s \in Slot : SwapInv(req[s])'
  BY DEF SwapInv, Swapping
<1> QED
  BY <1>1 DEF StepOK, IInv

LEMMA InvertOrders ==
    ASSUME IInv, TypeInv', NEW r \in Slot, InvertNext(r)
    PROVE  StepOK
<1> DEFINE q == req[r]
<1>1. /\ TypeInv /\ q \in Request /\ RequestOK(q, Len(draft)) /\ SwapInv(q)
      /\ songs \in Table /\ draft \in Table /\ Len(songs) = Len(draft) /\ LockInv
      /\ SongId(songs) = SongId(draft) /\ txn.owner \in Slot \cup {NoSlot}
  BY DEF IInv, TypeInv, RequestsOK, TablesOK, SongId
<1>2. \A s \in Slot : s # r => req'[s] = req[s]
  BY <1>1 DEF InvertNext, InvertRead, InvertHead, InvertBegin, InvertSelect, InvertUpdate1,
              InvertUpdate2, InvertCommit, InvertRollback, Goto, Done, TypeInv, RequestsOK
<1>3. CASE InvertRead(r) \/ InvertHead(r)
  <2>1. q.pc \notin Swapping /\ req'[r].pc \notin Swapping
    <3>1. Done(r) \/ \E pc \in {"read2", "invertHead", "begin"} : Goto(r, pc)
      BY <1>3 DEF InvertRead, InvertHead
    <3>2. CASE Done(r)
      BY <1>1, <1>3, <3>2 DEF InvertRead, InvertHead, Done, Idle, TypeInv, RequestsOK, Swapping
    <3>3. CASE \E pc \in {"read2", "invertHead", "begin"} : Goto(r, pc)
      BY <1>1, <1>3, <3>3
      DEF InvertRead, InvertHead, Goto, TypeInv, RequestsOK, Request, Swapping
    <3> QED
      BY <3>1, <3>2, <3>3
  <2>2. Quiet
    BY <1>2, <2>1 DEF Quiet
  <2> QED
    BY <1>3, <2>2, QuietReadInside DEF InvertRead, InvertHead
<1>4. CASE InvertBegin(r)
  <2>1. CASE txn.owner = NoSlot
    <3>1. /\ txn' = [owner |-> r, shared |-> FALSE, wrote |-> FALSE]
          /\ songs' = songs /\ draft' = draft /\ req'[r].pc = "select"
      BY <1>1, <1>4, <2>1 DEF InvertBegin, NoTxn, Goto, TypeInv, RequestsOK, Request
    <3>2. draft = songs
      BY <1>1, <2>1 DEF LockInv
    <3>3. \A s \in Slot : req[s].pc \notin Swapping
      BY <1>1, <2>1, SlotAssumption DEF LockInv
    <3>4. LockInv'
      BY <1>2, <3>1, <3>2, <3>3, SlotAssumption DEF LockInv, Swapping
    <3>5. SwapInv(req[r])'
      BY <3>1, <3>2 DEF SwapInv, KeepsOrders
    <3>6. GoneInv' /\ OrdersDistinct(songs)' /\ SongsStayGone /\ DraftStaysGone
      BY <3>1 DEF IInv, GoneInv, SongsStayGone, DraftStaysGone
    <3> QED
      BY <1>2, <3>3, <3>4, <3>5, <3>6, OwnerStep
  <2>2. CASE txn.owner # NoSlot
    <3>1. Done(r) /\ UNCHANGED Database /\ q.pc \notin Swapping
      BY <1>4, <2>2 DEF InvertBegin, Database, Swapping
    <3> QED
      BY <1>1, <3>1, QuietDone, QuietNoDatabase
  <2> QED
    BY <2>1, <2>2
<1>5. CASE InvertSelect(r)
  <2>1. txn.owner = r /\ \A s \in Slot : s # r => req[s].pc \notin Swapping
    BY <1>5, OneOwner DEF InvertSelect, Swapping
  <2>2. /\ txn'.owner = r /\ txn'.shared = TRUE /\ txn'.wrote = txn.wrote
        /\ songs' = songs /\ draft' = draft
        /\ req'[r] = [q EXCEPT !.pc = "update1", !.order1 = draft[q.song].order,
                               !.order2 = draft[q.other].order]
    BY <1>1, <1>5, <2>1, SlotAssumption
    DEF InvertSelect, ReadInside, TypeInv, TablesOK, RequestsOK
  <2>3. LockInv'
    <3>1. req'[r].pc = "update1"
      BY <1>1, <2>2 DEF Request
    <3> QED
      BY <1>1, <1>2, <2>1, <2>2, <3>1, SlotAssumption DEF LockInv, Swapping
  <2>4. q.song \in SongId(songs) /\ q.other \in SongId(songs) /\ KeepsOrders(songs, draft)
    BY <1>1, <1>5 DEF InvertSelect, RequestOK, InvertPC, SwapInv, SongId
  <2>5. SwapInv(req[r])'
    BY <1>1, <2>2, <2>4 DEF SwapInv, KeepsOrders, Request
  <2>6. GoneInv' /\ OrdersDistinct(songs)' /\ SongsStayGone /\ DraftStaysGone
    BY <2>2 DEF IInv, GoneInv, SongsStayGone, DraftStaysGone
  <2> QED
    BY <1>2, <2>1, <2>3, <2>5, <2>6, OwnerStep
<1>6. CASE InvertUpdate1(r) \/ InvertUpdate2(r)
  <2> DEFINE first == q.pc = "update1"
             i == IF first THEN q.song ELSE q.other
             o == IF first THEN q.order2 ELSE q.order1
             new == SetOrder(draft, i, o)
  <2>1. /\ txn.owner = r /\ \A s \in Slot : s # r => req[s].pc \notin Swapping
        /\ q.pc \in {"update1", "update2"}
    BY <1>6, OneOwner DEF InvertUpdate1, InvertUpdate2, Swapping
  <2>2. o \in Nat
    BY <1>1 DEF Request
  <2>3. /\ new \in Table /\ Len(new) = Len(draft) /\ KeepsPaths(draft, new)
        /\ \A k \in SongId(draft) : new[k].order = IF k = i THEN o ELSE draft[k].order
    BY <1>1, <2>2, SetOrderUpdates DEF Updates
  <2>4. /\ txn'.owner = r /\ txn'.shared = TRUE /\ txn'.wrote = TRUE
        /\ songs' = songs /\ draft' = new
        /\ req'[r] = [q EXCEPT !.pc = IF first THEN "update2" ELSE "commit"]
    BY <1>1, <1>6, <2>1, SlotAssumption
    DEF InvertUpdate1, InvertUpdate2, WriteInside, Goto, TypeInv, TablesOK, RequestsOK
  <2>5. LockInv'
    BY <1>1, <1>2, <2>1, <2>4, SlotAssumption DEF LockInv, Swapping, Request
  <2>6. SwapInv(req[r])'
    BY <1>1, <2>1, <2>3, <2>4 DEF SwapInv, KeepsOrders, Request, RequestOK, InvertPC
  <2>7. GoneInv' /\ OrdersDistinct(songs)' /\ SongsStayGone /\ DraftStaysGone
    BY <1>1, <2>3, <2>4 DEF IInv, GoneInv, SongsStayGone, DraftStaysGone, KeepsPaths
  <2> QED
    BY <1>2, <2>1, <2>5, <2>6, <2>7, OwnerStep
<1>7. CASE InvertCommit(r)
  <2>1. txn.owner = r /\ \A s \in Slot : s # r => req[s].pc \notin Swapping
    BY <1>7, OneOwner DEF InvertCommit, Swapping
  <2>2. /\ txn' = [owner |-> NoSlot, shared |-> FALSE, wrote |-> FALSE]
        /\ songs' = draft /\ draft' = draft /\ req'[r] = Idle
    BY <1>1, <1>7 DEF InvertCommit, NoTxn, Done, TypeInv, RequestsOK
  <2>3. LockInv'
    BY <1>2, <2>1, <2>2, SlotAssumption DEF LockInv, Swapping, Idle
  <2>4. SwapInv(req[r])'
    BY <2>2 DEF SwapInv, Idle
  <2>5. OrdersDistinct(draft)
    <3>1. q.song \in SongId(songs) /\ q.other \in SongId(songs)
      BY <1>1, <1>7 DEF InvertCommit, RequestOK, InvertPC, SongId
    <3>2. ExchangesOrders(songs, draft, q.song, q.other)
      BY <1>1, <1>7 DEF InvertCommit, SwapInv, ExchangesOrders
    <3>3. songs \in Table /\ draft \in Table /\ Len(draft) = Len(songs)
      BY <1>1
    <3>4. OrdersDistinct(songs)
      BY DEF IInv
    <3> QED
      BY <3>1, <3>2, <3>3, <3>4, ExchangedOrdersDistinct
  <2>6. GoneInv' /\ OrdersDistinct(songs)' /\ SongsStayGone /\ DraftStaysGone
    BY <1>1, <2>2, <2>5 DEF IInv, GoneInv, SongsStayGone, DraftStaysGone
  <2> QED
    BY <1>2, <2>1, <2>3, <2>4, <2>6, OwnerStep
<1>8. CASE InvertRollback(r)
  <2>1. txn.owner = r /\ \A s \in Slot : s # r => req[s].pc \notin Swapping
    BY <1>8, OneOwner DEF InvertRollback, Swapping
  <2>2. draft = songs
    BY <1>1, <1>8 DEF InvertRollback, WriteRefused, LockInv
  <2>3. /\ txn' = [owner |-> NoSlot, shared |-> FALSE, wrote |-> FALSE]
        /\ songs' = songs /\ draft' = songs /\ req'[r] = Idle
    BY <1>1, <1>8 DEF InvertRollback, NoTxn, Done, TypeInv, RequestsOK
  <2>4. LockInv'
    BY <1>2, <2>1, <2>3, SlotAssumption DEF LockInv, Swapping, Idle
  <2>5. SwapInv(req[r])'
    BY <2>3 DEF SwapInv, Idle
  <2>6. GoneInv' /\ OrdersDistinct(songs)' /\ SongsStayGone /\ DraftStaysGone
    BY <2>2, <2>3 DEF IInv, GoneInv, SongsStayGone, DraftStaysGone
  <2> QED
    BY <1>2, <2>1, <2>4, <2>5, <2>6, OwnerStep
<1> QED
  BY <1>3, <1>4, <1>5, <1>6, <1>7, <1>8 DEF InvertNext

LEMMA PlayerOrders == ASSUME IInv, TypeInv', PlayerNext PROVE StepOK
<1>1. Quiet
  BY QuietIdle DEF PlayerNext, PlayerPoll, PlayerOpen, PlayerFinish, PlayerLookup,
                   PlayerRemove, PlayerUnlink
<1>2. CASE PlayerRemove
  BY <1>1, <1>2, RemoveSongPlaces, QuietCommitOutside DEF PlayerRemove
<1> QED
  BY <1>1, <1>2, QuietNoDatabase
  DEF PlayerNext, PlayerPoll, PlayerOpen, PlayerFinish, PlayerLookup, PlayerUnlink

LEMMA BootOrders == ASSUME IInv, TypeInv', BootNext PROVE StepOK
<1>1. Quiet
  BY QuietIdle DEF BootNext, BootHttp, BootHttpsCache, BootHttpsDatabase
<1>2. CASE BootHttp \/ BootHttpsDatabase
  BY <1>1, <1>2, WipeSongsPlaces, QuietCommitOutside DEF BootHttp, BootHttpsDatabase
<1> QED
  BY <1>1, <1>2, QuietNoDatabase DEF BootNext, BootHttpsCache

LEMMA RestartOrders == ASSUME IInv, TypeInv', Restart PROVE StepOK
<1> DEFINE new == WipeSongs(songs)
<1>1. /\ new \in Table /\ OrdersDistinct(new) /\ Len(new) = Len(songs)
      /\ \A i \in SongId(songs) : new[i].path = NoPath
      /\ SongId(songs) = SongId(draft)
  BY WipeSongsPlaces DEF IInv, TypeInv, TablesOK, SongId
<1>2. /\ songs' = new /\ draft' = new
      /\ txn' = [owner |-> NoSlot, shared |-> FALSE, wrote |-> FALSE]
      /\ \A r \in Slot : req'[r] = Idle
  BY DEF Restart, NoTxn
<1>3. LockInv'
  BY <1>2, SlotAssumption DEF LockInv, Swapping, Idle
<1>4. \A r \in Slot : SwapInv(req[r])'
  BY <1>2 DEF SwapInv, Idle
<1> QED
  BY <1>1, <1>2, <1>3, <1>4 DEF StepOK, IInv, GoneInv, SongsStayGone, DraftStaysGone

LEMMA ArriveOrders == ASSUME IInv, TypeInv', NEW r \in Slot, Arrive(r) PROVE StepOK
<1>1. TypeInv /\ req[r].pc \notin Swapping
  BY DEF IInv, Arrive, PostStart, DeleteStart, AdminStart, InvertStart, Swapping
<1>2. (\A s \in Slot : s # r => req'[s] = req[s]) /\ req'[r].pc \notin Swapping
  <2>1. CASE \E u \in User, content \in Uploads : PostStart(r, u, content)
    BY <1>1, <2>1 DEF PostStart, Idle, Swapping, TypeInv, RequestsOK
  <2>2. CASE \E u \in User, i \in SongId(songs) : DeleteStart(r, u, i)
    BY <1>1, <2>2 DEF DeleteStart, Idle, Swapping, TypeInv, RequestsOK
  <2>3. CASE \E i \in SongId(songs) : AdminStart(r, i)
    BY <1>1, <2>3 DEF AdminStart, Idle, Swapping, TypeInv, RequestsOK
  <2>4. CASE \E i, j \in SongId(songs) : i < j /\ InvertStart(r, i, j)
    BY <1>1, <2>4 DEF InvertStart, Idle, Swapping, TypeInv, RequestsOK
  <2> QED
    BY <2>1, <2>2, <2>3, <2>4 DEF Arrive
<1>3. Quiet
  BY <1>1, <1>2 DEF Quiet
<1> QED
  BY <1>3, QuietNoDatabase DEF Arrive, PostStart, DeleteStart, AdminStart, InvertStart

LEMMA InitOrders == Init => IInv
<1> SUFFICES ASSUME Init PROVE IInv
  OBVIOUS
<1>1. TypeInv
  BY InitType
<1>2. LockInv /\ \A r \in Slot : SwapInv(req[r])
  BY SlotAssumption DEF Init, LockInv, NoTxn, Swapping, Idle, SwapInv
<1>3. GoneInv /\ OrdersDistinct(songs)
  BY DEF Init, GoneInv, OrdersDistinct, SongId
<1> QED
  BY <1>1, <1>2, <1>3 DEF IInv

LEMMA NextOrders == IInv /\ [Next]_vars => StepOK
<1> SUFFICES ASSUME IInv, [Next]_vars PROVE StepOK
  OBVIOUS
<1>1. TypeInv'
  BY NextType DEF IInv
<1>2. CASE UNCHANGED vars
  BY <1>1, <1>2, QuietIdle, QuietNoDatabase DEF vars, Database
<1>3. CASE \E r \in Slot : Arrive(r) \/ Serve(r)
  BY <1>1, <1>3, ArriveOrders, PostOrders, DeleteOrders, AdminOrders, InvertOrders DEF Serve
<1>4. CASE DeliverStop
  BY <1>1, <1>4, QuietIdle, QuietNoDatabase DEF DeliverStop
<1> QED
  BY <1>1, <1>2, <1>3, <1>4, PlayerOrders, BootOrders, RestartOrders DEF Next

(* The committed places are a permutation of the song numbers: inversions,   *)
(* posts, deletions, the player and restarts, overlapping in any number and  *)
(* any order, never give two songs one place.                                *)
THEOREM PlacesDistinct == Spec => []CommittedOrders
<1>1. IInv => CommittedOrders
  BY DEF IInv, CommittedOrders
<1>2. StepOK => IInv'
  BY DEF StepOK
<1> QED
  BY <1>1, <1>2, InitOrders, NextOrders, PTL DEF Spec

(* The rollback of an inversion brings back no song another request of the   *)
(* same connection has deleted meanwhile.                                    *)
THEOREM RollbackIsHarmless == Spec => RollbackLosesNothing
<1>1. IInv /\ [Next]_vars =>
         [\A i \in SongId(draft) : draft[i].path = NoPath => draft'[i].path = NoPath]_draft
  BY NextOrders DEF StepOK, DraftStaysGone
<1>2. StepOK => IInv'
  BY DEF StepOK
<1> QED
  BY <1>1, <1>2, InitOrders, NextOrders, PTL DEF Spec, RollbackLosesNothing

-----------------------------------------------------------------------------
(* Whose file a name is.  A row, a request and the player hold names of       *)
(* files on their own, so what is heard is what was posted only because no   *)
(* name is ever given twice (DistinctSeconds), and because each of the three *)
(* keeps the name it was given, or lets it go, while the others change.      *)

Named == PostPC \ {"name"}

UsedName(n) == n.second < second[n.user]

HoldsTitle(n, title) == n \in DOMAIN cache.files => cache.files[n] = title

(* The draft is the committed table but for the places and the songs that    *)
(* have left.                                                                *)
FollowInv == \A i \in SongId(songs) : /\ draft[i].path \in {songs[i].path, NoPath}
                                      /\ draft[i].title = songs[i].title
                                      /\ draft[i].owner = songs[i].owner

PostInv(r) ==
    req[r].pc \in Named =>
       /\ UsedName(req[r].path)
       /\ \A s \in Slot : req[s].pc \in Named /\ req[s].path = req[r].path => s = r
       /\ \A i \in SongId(songs) : songs[i].path # req[r].path
       /\ player.pc # "poll" => player.path # req[r].path
       /\ req[r].pc \in {"check", "insert"} => HoldsTitle(req[r].path, req[r].content)

RowInv(i) ==
    songs[i].path # NoPath =>
       /\ UsedName(songs[i].path)
       /\ \A j \in SongId(songs) : songs[j].path = songs[i].path => j = i
       /\ HoldsTitle(songs[i].path, songs[i].title)

PlayInv ==
    /\ player.song # NoSong => player.song \in SongId(songs)
    /\ player.pc = "poll" /\ player.song # NoSong => songs[player.song].path = NoPath
    /\ player.pc # "poll" =>
          /\ player.song # NoSong
          /\ player.path \in Name
          /\ UsedName(player.path)
          /\ songs[player.song].path \in {player.path, NoPath}
          /\ \A i \in SongId(songs) : songs[i].path = player.path => i = player.song
          /\ HoldsTitle(player.path, songs[player.song].title)
    /\ player.pc = "play" => player.heard = songs[player.song].title
    /\ player.pc = "remove" => player.target = player.song
    /\ player.pc = "unlink" => songs[player.song].path = NoPath

Posts == \A r \in Slot : PostInv(r)
Rows == \A i \in SongId(songs) : RowInv(i)

NameInv == FollowInv /\ Posts /\ Rows /\ PlayInv

(* What most steps leave alone. *)
TablesKept == Updates(songs, songs') /\ FollowInv'

FilesKept == /\ DOMAIN cache'.files \subseteq DOMAIN cache.files
             /\ \A n \in DOMAIN cache'.files : cache'.files[n] = cache.files[n]

NamesKept ==
    /\ second' = second
    /\ \A s \in Slot : req'[s].pc \in Named => req[s].pc \in Named /\ req'[s].path = req[s].path
    /\ \A s \in Slot : req'[s].pc \in {"check", "insert"} =>
          req[s].pc \in {"check", "insert"} /\ req'[s].content = req[s].content

LEMMA UpdatesItself == ASSUME NEW t \in Table PROVE Updates(t, t)
BY DEF Updates

LEMMA UnchangedTables ==
    ASSUME IInv, FollowInv, UNCHANGED <<songs, draft>>
    PROVE  TablesKept
BY UpdatesItself DEF TablesKept, FollowInv, IInv, TypeInv, TablesOK

LEMMA CommittedTables ==
    ASSUME NEW t \in Table, CommitOutside(t), Updates(songs, t)
    PROVE  TablesKept
BY DEF TablesKept, CommitOutside, FollowInv

LEMMA WrittenTables ==
    ASSUME IInv, FollowInv, NEW t, WriteInside(t), Updates(draft, t)
    PROVE  TablesKept
<1>1. CASE txn.owner = NoSlot
  <2>1. draft = songs /\ songs' = t /\ draft' = t
    BY <1>1 DEF WriteInside, IInv, LockInv
  <2> QED
    BY <2>1 DEF TablesKept, FollowInv
<1>2. CASE txn.owner # NoSlot
  <2>1. songs' = songs /\ draft' = t
    BY <1>2 DEF WriteInside
  <2>2. songs \in Table /\ SongId(songs) = SongId(draft)
    BY DEF IInv, TypeInv, TablesOK, SongId
  <2> QED
    BY <2>1, <2>2, UpdatesItself DEF TablesKept, FollowInv, Updates
<1> QED
  BY <1>1, <1>2

LEMMA SameSongs == ASSUME NEW t, NEW new, Updates(t, new) PROVE SongId(new) = SongId(t)
BY DEF Updates, SongId

LEMMA RowsKept ==
    ASSUME Rows, TablesKept, FilesKept, second' = second
    PROVE  Rows'
<1>1. SongId(songs') = SongId(songs)
  BY SameSongs DEF TablesKept
<1>2. \A i \in SongId(songs) : /\ songs'[i].title = songs[i].title
                               /\ songs'[i].path \in {songs[i].path, NoPath}
  BY DEF TablesKept, Updates
<1> SUFFICES ASSUME NEW i \in SongId(songs), songs'[i].path # NoPath PROVE RowInv(i)'
  BY <1>1 DEF Rows, RowInv
<1>3. songs'[i].path = songs[i].path /\ RowInv(i)
  BY <1>2 DEF Rows
<1>4. \A j \in SongId(songs) : songs'[j].path = songs'[i].path => j = i
  BY <1>2, <1>3 DEF RowInv
<1> QED
  BY <1>1, <1>2, <1>3, <1>4 DEF RowInv, UsedName, HoldsTitle, FilesKept

LEMMA PostsKept ==
    ASSUME Posts, TablesKept, FilesKept, NamesKept,
           \A r \in Slot : req[r].pc \in Named /\ player'.pc # "poll" => player'.path # req[r].path,
           \A r \in Slot : req[r].pc \in Named => req[r].path # NoPath
    PROVE  Posts'
<1>1. SongId(songs') = SongId(songs)
  BY SameSongs DEF TablesKept
<1>2. \A i \in SongId(songs) : songs'[i].path \in {songs[i].path, NoPath}
  BY DEF TablesKept, Updates
<1> SUFFICES ASSUME NEW r \in Slot, req'[r].pc \in Named PROVE PostInv(r)'
  BY DEF Posts, PostInv
<1>3. req[r].pc \in Named /\ req'[r].path = req[r].path /\ PostInv(r)
  BY DEF NamesKept, Posts
<1>4. \A s \in Slot : req'[s].pc \in Named /\ req'[s].path = req'[r].path => s = r
  BY <1>3 DEF NamesKept, PostInv
<1>5. \A i \in SongId(songs') : songs'[i].path # req'[r].path
  BY <1>1, <1>2, <1>3 DEF PostInv
<1>6. req'[r].pc \in {"check", "insert"} => HoldsTitle(req[r].path, req[r].content)'
  BY <1>3 DEF NamesKept, PostInv, HoldsTitle, FilesKept
<1> QED
  BY <1>3, <1>4, <1>5, <1>6 DEF PostInv, UsedName, NamesKept, HoldsTitle

(* The player's file is as it was, whatever the tables and the cache lose. *)
PlayerFollows ==
    \/ player' = player
    \/ player.pc = "play" /\ player' = [player EXCEPT !.pc = "lookup"]

LEMMA PlayKept ==
    ASSUME TypeInv, PlayInv, TablesKept, FilesKept, second' = second, PlayerFollows
    PROVE  PlayInv'
<1>1. SongId(songs') = SongId(songs)
  BY SameSongs DEF TablesKept
<1>2. \A i \in SongId(songs) : /\ songs'[i].title = songs[i].title
                               /\ songs'[i].path \in {songs[i].path, NoPath}
  BY DEF TablesKept, Updates
<1>3. /\ player'.song = player.song /\ player'.path = player.path
      /\ player'.heard = player.heard /\ player'.target = player.target
      /\ player'.pc = player.pc \/ (player.pc = "play" /\ player'.pc = "lookup")
  BY DEF PlayerFollows, TypeInv, PlayerOK
<1>4. NoPath \notin Name
  BY NoPathAssumption
<1>5. player'.song # NoSong => player'.song \in SongId(songs')
  BY <1>1, <1>3 DEF PlayInv
<1>6. player'.pc = "poll" /\ player'.song # NoSong => songs'[player'.song].path = NoPath
  BY <1>2, <1>3 DEF PlayInv
<1>7. ASSUME player'.pc # "poll"
      PROVE  /\ player'.song # NoSong
             /\ player'.path \in Name
             /\ UsedName(player.path)'
             /\ songs'[player'.song].path \in {player'.path, NoPath}
             /\ \A i \in SongId(songs') : songs'[i].path = player'.path => i = player'.song
             /\ HoldsTitle(player.path, songs[player.song].title)'
  <2>1. player.pc # "poll" /\ player.song \in SongId(songs)
    BY <1>3, <1>7 DEF PlayInv
  <2>2. /\ player'.song # NoSong
        /\ player'.path \in Name
        /\ UsedName(player.path)'
        /\ songs'[player'.song].path \in {player'.path, NoPath}
    BY <1>2, <1>3, <2>1 DEF PlayInv, UsedName
  <2>3. \A i \in SongId(songs') : songs'[i].path = player'.path => i = player'.song
    BY <1>1, <1>2, <1>3, <1>4, <2>1 DEF PlayInv
  <2>4. HoldsTitle(player.path, songs[player.song].title)'
    BY <1>2, <1>3, <2>1 DEF PlayInv, HoldsTitle, FilesKept
  <2> QED
    BY <2>2, <2>3, <2>4
<1>8. player'.pc = "play" => player'.heard = songs'[player'.song].title
  BY <1>2, <1>3 DEF PlayInv
<1>9. player'.pc = "remove" => player'.target = player'.song
  BY <1>3 DEF PlayInv
<1>10. player'.pc = "unlink" => songs'[player'.song].path = NoPath
  BY <1>2, <1>3 DEF PlayInv
<1> QED
  BY <1>5, <1>6, <1>7, <1>8, <1>9, <1>10 DEF PlayInv, HoldsTitle, UsedName

(* A step that gives no name keeps every name where it was. *)
LEMMA NamesQuiet ==
    ASSUME TypeInv, NameInv, TablesKept, FilesKept, NamesKept, PlayerFollows
    PROVE  NameInv'
<1>1. \A r \in Slot : req[r].pc \in Named /\ player'.pc # "poll" => player'.path # req[r].path
  BY DEF NameInv, Posts, PostInv, PlayerFollows, TypeInv, PlayerOK
<1>2. \A r \in Slot : req[r].pc \in Named => req[r].path # NoPath
  BY NoPathAssumption DEF TypeInv, RequestsOK, RequestOK, Named
<1> QED
  BY <1>1, <1>2, RowsKept, PostsKept, PlayKept DEF NameInv, TablesKept, NamesKept

(* The requests of the other threads stay as they are, and so do the names,  *)
(* when the request of a thread moves on without one or with the one it has. *)
LEMMA NamesKeptStep ==
    ASSUME TypeInv, second' = second, NEW r \in Slot,
           \A s \in Slot : s # r => req'[s] = req[s],
           req'[r].pc \in Named => req[r].pc \in Named /\ req'[r].path = req[r].path,
           req'[r].pc \in {"check", "insert"} =>
              req[r].pc \in {"check", "insert"} /\ req'[r].content = req[r].content
    PROVE  NamesKept
BY DEF NamesKept

LEMMA OneRequest ==
    ASSUME TypeInv, NEW r \in Slot, NEW q, req' = [req EXCEPT ![r] = q]
    PROVE  req'[r] = q /\ \A s \in Slot : s # r => req'[s] = req[s]
BY DEF TypeInv, RequestsOK

LEMMA GotoNames ==
    ASSUME TypeInv, second' = second, NEW r \in Slot, NEW pc, Goto(r, pc),
           pc \in Named => req[r].pc \in Named,
           pc \in {"check", "insert"} => req[r].pc \in {"check", "insert"}
    PROVE  NamesKept
<1>1. /\ req'[r] = [req[r] EXCEPT !.pc = pc]
      /\ \A s \in Slot : s # r => req'[s] = req[s]
  BY OneRequest DEF Goto
<1>2. req[r] \in Request
  BY DEF TypeInv, RequestsOK
<1>3. req'[r].pc = pc /\ req'[r].path = req[r].path /\ req'[r].content = req[r].content
  BY <1>1, <1>2 DEF Request
<1> QED
  BY <1>1, <1>3, NamesKeptStep

LEMMA DoneNames ==
    ASSUME TypeInv, second' = second, NEW r \in Slot, Done(r)
    PROVE  NamesKept
<1>1. req'[r] = Idle /\ \A s \in Slot : s # r => req'[s] = req[s]
  BY OneRequest DEF Done
<1>2. req'[r].pc = "idle"
  BY <1>1 DEF Idle
<1> QED
  BY <1>1, <1>2, NamesKeptStep DEF Named, PostPC

(* Any step of a request that does not post. *)
LEMMA OtherNames ==
    ASSUME TypeInv, second' = second, NEW r \in Slot, NEW q, req' = [req EXCEPT ![r] = q],
           q.pc \notin Named
    PROVE  NamesKept
BY OneRequest, NamesKeptStep DEF Named, PostPC

LEMMA SameFiles == ASSUME UNCHANGED cache PROVE FilesKept
BY DEF FilesKept

LEMMA DeletedFiles ==
    ASSUME NEW arg, arg.kind \in {"bare", "empty", "absolute"}, cache' = DeleteFile(cache, arg),
           CacheOK
    PROVE  FilesKept
<1>1. CASE arg.kind = "bare"
  BY <1>1 DEF FilesKept, DeleteFile, Restrict, CacheOK
<1>2. CASE arg.kind = "empty"
  BY <1>2 DEF FilesKept, DeleteFile, Empty
<1>3. CASE arg.kind = "absolute"
  BY <1>3 DEF FilesKept, DeleteFile
<1> QED
  BY <1>1, <1>2, <1>3

LEMMA FreshFiles == ASSUME cache' = FreshStore PROVE FilesKept
BY DEF FilesKept, FreshStore, Empty

(* The tables of the steps that touch none, and of those of the connection.  *)
LEMMA SameTables ==
    ASSUME IInv, FollowInv, UNCHANGED Database
    PROVE  TablesKept
BY UnchangedTables DEF Database

LEMMA ReadTables ==
    ASSUME IInv, FollowInv, ReadInside
    PROVE  TablesKept
BY UnchangedTables DEF ReadInside

NamesStep == IInv /\ NameInv

LEMMA ArriveNames == ASSUME NamesStep, NEW r \in Slot, Arrive(r) PROVE NameInv'
<1>1. TypeInv /\ IInv /\ NameInv /\ FollowInv
  BY DEF NamesStep, IInv, NameInv
<1>2. second' = second /\ UNCHANGED <<Database, cache, player>>
  BY DEF Arrive, PostStart, DeleteStart, AdminStart, InvertStart, Elsewhere
<1>3. NamesKept
  <2>1. ASSUME \E q : req' = [req EXCEPT ![r] = q] /\ q.pc \in {"name", "read", "adminRead", "read1"}
        PROVE  NamesKept
    BY <1>1, <1>2, <2>1, OtherNames DEF Named, PostPC
  <2>2. CASE \E u \in User, content \in Uploads : PostStart(r, u, content)
    <3>1. PICK u \in User, content \in Uploads : PostStart(r, u, content)
      BY <2>2
    <3> DEFINE q == [Idle EXCEPT !.pc = "name", !.user = u, !.content = content]
    <3>2. q.pc = "name" /\ req' = [req EXCEPT ![r] = q]
      BY <3>1 DEF PostStart, Idle
    <3> QED
      BY <2>1, <3>2
  <2>3. CASE \E u \in User, i \in SongId(songs) : DeleteStart(r, u, i)
    <3>1. PICK u \in User, i \in SongId(songs) : DeleteStart(r, u, i)
      BY <2>3
    <3> DEFINE q == [Idle EXCEPT !.pc = "read", !.user = u, !.song = i]
    <3>2. q.pc = "read" /\ req' = [req EXCEPT ![r] = q]
      BY <3>1 DEF DeleteStart, Idle
    <3> QED
      BY <2>1, <3>2
  <2>4. CASE \E i \in SongId(songs) : AdminStart(r, i)
    <3>1. PICK i \in SongId(songs) : AdminStart(r, i)
      BY <2>4
    <3> DEFINE q == [Idle EXCEPT !.pc = "adminRead", !.song = i]
    <3>2. q.pc = "adminRead" /\ req' = [req EXCEPT ![r] = q]
      BY <3>1 DEF AdminStart, Idle
    <3> QED
      BY <2>1, <3>2
  <2>5. CASE \E i, j \in SongId(songs) : i < j /\ InvertStart(r, i, j)
    <3>1. PICK i, j \in SongId(songs) : InvertStart(r, i, j)
      BY <2>5
    <3> DEFINE q == [Idle EXCEPT !.pc = "read1", !.song = i, !.other = j]
    <3>2. q.pc = "read1" /\ req' = [req EXCEPT ![r] = q]
      BY <3>1 DEF InvertStart, Idle
    <3> QED
      BY <2>1, <3>2
  <2> QED
    BY <2>2, <2>3, <2>4, <2>5 DEF Arrive
<1> QED
  BY <1>1, <1>2, <1>3, SameTables, SameFiles, NamesQuiet DEF PlayerFollows

(* The requests that do not post write the tables as statements of the       *)
(* connection or commits of their own, and none of them gives a name.        *)
LEMMA OtherTables ==
    ASSUME IInv, FollowInv, NEW r \in Slot, DeleteNext(r) \/ AdminNext(r) \/ InvertNext(r)
    PROVE  TablesKept
<1>1. /\ songs \in Table /\ draft \in Table /\ Len(songs) = Len(draft)
      /\ req[r] \in Request /\ RequestOK(req[r], Len(draft))
  BY DEF IInv, TypeInv, TablesOK, RequestsOK
<1>2. CASE DeleteNext(r)
  <2>1. CASE DeleteRemove(r)
    BY <1>1, <2>1, RemoveSongUpdates, CommittedTables DEF DeleteRemove, Updates
  <2> QED
    BY <1>2, <2>1, SameTables DEF DeleteNext, DeleteRead, DeleteHead, DeleteUnlink
<1>3. CASE AdminNext(r)
  <2>1. CASE AdminRemove(r)
    BY <1>1, <2>1, RemoveSongUpdates, WrittenTables DEF AdminRemove
  <2>2. CASE AdminFlag(r)
    BY <1>1, <2>2, UpdatesItself, WrittenTables DEF AdminFlag, FlagSong
  <2>3. CASE AdminRead(r) \/ AdminHead(r)
    BY <2>3, ReadTables DEF AdminRead, AdminHead
  <2> QED
    BY <1>3, <2>1, <2>2, <2>3, SameTables DEF AdminNext, AdminStop, AdminUnlink, AdminRefused
<1>4. CASE InvertNext(r)
  <2>1. CASE InvertUpdate1(r)
    <3>1. req[r].order2 \in Nat
      BY <1>1 DEF Request
    <3> QED
      BY <1>1, <2>1, <3>1, SetOrderUpdates, WrittenTables DEF InvertUpdate1
  <2>2. CASE InvertUpdate2(r)
    <3>1. req[r].order1 \in Nat
      BY <1>1 DEF Request
    <3> QED
      BY <1>1, <2>2, <3>1, SetOrderUpdates, WrittenTables DEF InvertUpdate2
  <2>3. CASE InvertCommit(r)
    BY <1>1, <2>3 DEF InvertCommit, TablesKept, Updates, FollowInv, SongId
  <2>4. CASE InvertRollback(r)
    BY <1>1, <2>4, UpdatesItself DEF InvertRollback, TablesKept, FollowInv
  <2>5. CASE InvertRead(r) \/ InvertHead(r) \/ InvertSelect(r)
    BY <2>5, ReadTables DEF InvertRead, InvertHead, InvertSelect
  <2>6. CASE InvertBegin(r)
    BY <2>6, UnchangedTables DEF InvertBegin
  <2> QED
    BY <1>4, <2>1, <2>2, <2>3, <2>4, <2>5, <2>6 DEF InvertNext
<1> QED
  BY <1>2, <1>3, <1>4

LEMMA OtherRequests ==
    ASSUME TypeInv, NEW r \in Slot, DeleteNext(r) \/ AdminNext(r) \/ InvertNext(r)
    PROVE  \E q : req' = [req EXCEPT ![r] = q] /\ q.pc \notin PostPC
<1>1. req[r] \in Request
  BY DEF TypeInv, RequestsOK
<1> DEFINE Goal == \E q : req' = [req EXCEPT ![r] = q] /\ q.pc \notin PostPC
<1>2. ASSUME NEW pc \in DeletePC \cup AdminPC \cup InvertPC, Goto(r, pc) PROVE Goal
  <2>1. [req[r] EXCEPT !.pc = pc].pc = pc
    BY <1>1 DEF Request
  <2>2. pc \notin PostPC
    BY DEF PostPC, DeletePC, AdminPC, InvertPC
  <2> QED
    BY <1>2, <2>1, <2>2 DEF Goto
<1>3. ASSUME Done(r) PROVE Goal
  <2>1. Idle.pc \notin PostPC
    BY DEF Idle, PostPC
  <2> QED
    BY <1>3, <2>1 DEF Done
<1>4. CASE DeleteNext(r)
  <2>1. CASE DeleteRead(r)
    <3> DEFINE q == [[req[r] EXCEPT !.pc = "head"] EXCEPT !.path = songs[req[r].song].path]
    <3>1. q.pc \notin PostPC
      BY <1>1 DEF Request, PostPC
    <3>2. req' = [req EXCEPT ![r] = q] \/ Done(r)
      BY <2>1 DEF DeleteRead
    <3> QED
      BY <1>3, <3>1, <3>2
  <2> QED
    BY <1>2, <1>3, <1>4, <2>1 DEF DeleteNext, DeleteHead, DeleteRemove, DeleteUnlink, DeletePC
<1>5. CASE AdminNext(r)
  <2>1. CASE AdminRead(r)
    <3> DEFINE q == [[req[r] EXCEPT !.pc = "flag"] EXCEPT !.path = draft[req[r].song].path]
    <3>1. q.pc \notin PostPC
      BY <1>1 DEF Request, PostPC
    <3>2. req' = [req EXCEPT ![r] = q] \/ Done(r)
      BY <2>1 DEF AdminRead
    <3> QED
      BY <1>3, <3>1, <3>2
  <2> QED
    BY <1>2, <1>3, <1>5, <2>1
    DEF AdminNext, AdminFlag, AdminHead, AdminStop, AdminRemove, AdminUnlink, AdminRefused, AdminPC
<1>6. CASE InvertNext(r)
  <2>1. CASE InvertSelect(r)
    <3> DEFINE q == [req[r] EXCEPT !.pc = "update1",
                                   !.order1 = draft[req[r].song].order,
                                   !.order2 = draft[req[r].other].order]
    <3>1. q.pc \notin PostPC /\ req' = [req EXCEPT ![r] = q]
      BY <1>1, <2>1 DEF InvertSelect, Request, PostPC, TypeInv, RequestsOK
    <3> QED
      BY <3>1
  <2>2. CASE InvertRead(r)
    <3>1. \E pc \in {"read2", "invertHead"} : Goto(r, pc) \/ Done(r)
      BY <2>2 DEF InvertRead
    <3> QED
      BY <1>2, <1>3, <3>1 DEF InvertPC
  <2> QED
    BY <1>2, <1>3, <1>6, <2>1, <2>2
    DEF InvertNext, InvertHead, InvertBegin, InvertUpdate1, InvertUpdate2,
        InvertCommit, InvertRollback, InvertPC
<1> QED
  BY <1>4, <1>5, <1>6

LEMMA OtherServed ==
    ASSUME NamesStep, NEW r \in Slot, DeleteNext(r) \/ AdminNext(r) \/ InvertNext(r)
    PROVE  NameInv'
<1>1. TypeInv /\ IInv /\ NameInv /\ FollowInv /\ CacheOK
  BY DEF NamesStep, IInv, NameInv, TypeInv
<1>2. second' = second /\ player' = player
  BY DEF DeleteNext, DeleteRead, DeleteHead, DeleteRemove, DeleteUnlink, AdminNext, AdminRead,
         AdminFlag, AdminHead, AdminStop, AdminRemove, AdminUnlink, AdminRefused, InvertNext,
         InvertRead, InvertHead, InvertBegin, InvertSelect, InvertUpdate1, InvertUpdate2,
         InvertCommit, InvertRollback, Elsewhere
<1>3. FilesKept
  <2>1. CASE DeleteUnlink(r) \/ AdminUnlink(r)
    BY <1>1, <2>1, DeletedFiles DEF DeleteUnlink, AdminUnlink, StoredPath
  <2> QED
    BY <2>1, SameFiles
    DEF DeleteNext, DeleteRead, DeleteHead, DeleteRemove, AdminNext, AdminRead, AdminFlag,
        AdminHead, AdminStop, AdminRemove, AdminRefused, InvertNext, InvertRead, InvertHead,
        InvertBegin, InvertSelect, InvertUpdate1, InvertUpdate2, InvertCommit, InvertRollback
<1>4. NamesKept
  <2>1. PICK q : req' = [req EXCEPT ![r] = q] /\ q.pc \notin PostPC
    BY <1>1, OtherRequests
  <2> QED
    BY <1>1, <1>2, <2>1, OtherNames DEF Named
<1> QED
  BY <1>1, <1>2, <1>3, <1>4, OtherTables, NamesQuiet DEF PlayerFollows

(* A name that is given: no request, no row and not the player holds it, for  *)
(* it holds a second of its user that no name before it was given in.        *)
LEMMA NewName ==
    ASSUME NamesStep, DistinctSeconds, NEW r \in Slot, PostName(r)
    PROVE  NameInv'
<1> DEFINE q == req[r]
           u == q.user
           n == FreshName(u, second[u])
<1>1. /\ TypeInv /\ IInv /\ NameInv /\ FollowInv
      /\ q \in Request /\ RequestOK(q, Len(draft)) /\ second \in [User -> Nat]
  BY DEF NamesStep, IInv, NameInv, TypeInv, RequestsOK, RestOK
<1>2. u \in User /\ q.pc = "name"
  BY <1>1 DEF PostName, RequestOK, PostPC
<1>3. n = [user |-> u, second |-> second[u], counter |-> 0, mp3 |-> TRUE]
  <2> HIDE DEF u
  <2> QED
    BY <1>1, <1>2, FreshNameIsFirst DEF TypeInv
<1>4. /\ req' = [req EXCEPT ![r] = [[q EXCEPT !.pc = "write"] EXCEPT !.path = n]]
      /\ second' = [second EXCEPT ![u] = second[u] + 1]
      /\ UNCHANGED <<Database, cache, player>>
  <2>1. PICK s \in {second[u]} :
           /\ req' = [req EXCEPT ![r].pc = "write", ![r].path = FreshName(u, s)]
           /\ second' = [second EXCEPT ![u] = s + 1]
    BY DEF PostName
  <2> QED
    BY <1>1, <2>1 DEF PostName, TypeInv, RequestsOK
<1> HIDE DEF n
<1>5. n.user = u /\ n.second = second[u]
  BY <1>3
<1>6. ~UsedName(n) /\ n.second < second'[n.user]
  BY <1>1, <1>2, <1>4, <1>5 DEF UsedName
<1>7. \A m \in Name : UsedName(m) => UsedName(m)'
  BY <1>1, <1>2, <1>4 DEF UsedName, Name
<1>8. /\ req'[r].pc = "write" /\ req'[r].path = n
      /\ \A s \in Slot : s # r => req'[s] = req[s]
  <2>1. /\ req'[r] = [[q EXCEPT !.pc = "write"] EXCEPT !.path = n]
        /\ \A s \in Slot : s # r => req'[s] = req[s]
    BY <1>1, <1>4 DEF TypeInv, RequestsOK
  <2> QED
    BY <1>1, <2>1 DEF Request
<1>9. songs' = songs /\ draft' = draft
  BY <1>4 DEF Database
<1>10. \A i \in SongId(songs) : songs[i].path # NoPath => songs[i].path \in Name
  BY <1>1, RowOfTable DEF TypeInv, TablesOK, Path
<1>11. \A s \in Slot : req[s].pc \in Named => req[s].path \in Name
  BY <1>1 DEF TypeInv, RequestsOK, RequestOK, Named
<1>12. FollowInv'
  BY <1>1, <1>9 DEF FollowInv
<1>13. Rows'
  BY <1>1, <1>4, <1>7, <1>9, <1>10 DEF NameInv, Rows, RowInv, HoldsTitle
<1>14. PlayInv'
  BY <1>1, <1>4, <1>7, <1>9 DEF NameInv, PlayInv, HoldsTitle
<1>15. ASSUME NEW t \in Slot PROVE PostInv(t)'
  <2>1. CASE t = r
    <3>1. \A s \in Slot : s # r /\ req'[s].pc \in Named => req'[s].path # n
      BY <1>1, <1>6, <1>8 DEF NameInv, Posts, PostInv
    <3>2. \A i \in SongId(songs) : songs[i].path # n
      <4>1. n # NoPath
        <5>1. n \in Name
          BY <1>1, <1>2, <1>3 DEF Name
        <5> QED
          BY <5>1, NoPathAssumption
      <4> QED
        BY <1>1, <1>6, <4>1 DEF NameInv, Rows, RowInv
    <3>3. player.pc # "poll" => player.path # n
      BY <1>1, <1>6 DEF NameInv, PlayInv
    <3> QED
      BY <1>4, <1>6, <1>8, <1>9, <2>1, <3>1, <3>2, <3>3 DEF PostInv, UsedName
  <2>2. CASE t # r /\ req[t].pc \in Named
    <3>1. PostInv(t) /\ req[t].path \in Name
      BY <1>1, <1>11, <2>2 DEF NameInv, Posts
    <3>2. req[t].path # n
      BY <1>6, <2>2, <3>1 DEF PostInv
    <3> QED
      BY <1>4, <1>7, <1>8, <1>9, <2>2, <3>1, <3>2 DEF PostInv, HoldsTitle
  <2>3. CASE t # r /\ req[t].pc \notin Named
    BY <1>8, <2>3 DEF PostInv
  <2> QED
    BY <2>1, <2>2, <2>3
<1> QED
  BY <1>12, <1>13, <1>14, <1>15 DEF NameInv, Posts

(* The file of a name is written while only the request that writes it holds *)
(* the name.                                                                 *)
LEMMA WrittenFile ==
    ASSUME NamesStep, NEW r \in Slot, PostWrite(r)
    PROVE  NameInv'
<1>1. /\ TypeInv /\ IInv /\ NameInv /\ FollowInv /\ req[r] \in Request
  BY DEF NamesStep, IInv, NameInv, TypeInv, RequestsOK
<1>2. second' = second /\ player' = player /\ UNCHANGED Database
  BY DEF PostWrite, Elsewhere
<1>3. CASE ~cache.dir
  BY <1>1, <1>2, <1>3, SameTables, SameFiles, DoneNames, NamesQuiet DEF PostWrite, PlayerFollows
<1>4. CASE cache.dir
  <2> DEFINE n == req[r].path
  <2>1. \A m \in DOMAIN cache'.files : m # n =>
           m \in DOMAIN cache.files /\ cache'.files[m] = cache.files[m]
    BY <1>1, <1>4 DEF PostWrite, SetFileContent, TypeInv, CacheOK
  <2>2. /\ req[r].pc = "write" /\ req'[r].pc = "header" /\ req'[r].path = n
        /\ \A s \in Slot : s # r => req'[s] = req[s]
    <3>1. req' = [req EXCEPT ![r] = [req[r] EXCEPT !.pc = "header"]] /\ req[r].pc = "write"
      BY <1>4 DEF PostWrite, Goto
    <3>2. /\ req'[r] = [req[r] EXCEPT !.pc = "header"]
          /\ \A s \in Slot : s # r => req'[s] = req[s]
      BY <1>1, <3>1 DEF TypeInv, RequestsOK
    <3> QED
      BY <1>1, <3>1, <3>2 DEF Request
  <2>3. songs' = songs /\ draft' = draft
    BY <1>2 DEF Database
  <2>4. PostInv(r) /\ req[r].pc \in Named
    BY <1>1, <2>2 DEF NameInv, Posts, Named, PostPC
  <2>5. FollowInv'
    BY <1>1, <2>3 DEF FollowInv
  <2>6. ASSUME NEW i \in SongId(songs) PROVE RowInv(i)'
    <3>1. songs[i].path # n /\ RowInv(i)
      BY <1>1, <2>4 DEF PostInv, NameInv, Rows
    <3> QED
      BY <1>2, <2>1, <2>3, <3>1 DEF RowInv, UsedName, HoldsTitle
  <2>7. PlayInv'
    <3>1. player.pc # "poll" => player.path # n
      BY <2>4 DEF PostInv
    <3> QED
      BY <1>1, <1>2, <2>1, <2>3, <3>1 DEF NameInv, PlayInv, UsedName, HoldsTitle
  <2>8. ASSUME NEW t \in Slot PROVE PostInv(t)'
    <3>1. CASE t = r
      BY <1>2, <2>2, <2>3, <2>4, <3>1 DEF PostInv, UsedName, Named, PostPC
    <3>2. CASE t # r
      <4>1. PostInv(t) /\ (req[t].pc \in Named => req[t].path # n)
        BY <1>1, <2>4, <3>2 DEF PostInv, NameInv, Posts
      <4> QED
        BY <1>2, <2>1, <2>2, <2>3, <2>4, <3>2, <4>1 DEF PostInv, UsedName, HoldsTitle
    <3> QED
      BY <3>1, <3>2
  <2> QED
    BY <2>3, <2>5, <2>6, <2>7, <2>8 DEF NameInv, Posts, Rows
<1> QED
  BY <1>3, <1>4

(* The title is read from the file of the request's own name.                *)
LEMMA ReadHeader ==
    ASSUME NamesStep, NEW r \in Slot, PostHeader(r)
    PROVE  NameInv'
<1> DEFINE n == req[r].path
           found == IF IsFileCached(cache, n) THEN cache.files[n] ELSE NotMp3
<1>1. /\ TypeInv /\ IInv /\ NameInv /\ FollowInv /\ req[r] \in Request
  BY DEF NamesStep, IInv, NameInv, TypeInv, RequestsOK
<1>2. second' = second /\ player' = player /\ UNCHANGED <<Database, cache>>
  BY DEF PostHeader, Elsewhere
<1>3. /\ req[r].pc = "header" /\ req'[r].pc \in {"drop", "check"}
      /\ req'[r].path = n /\ req'[r].content = found
      /\ \A s \in Slot : s # r => req'[s] = req[s]
  BY <1>1 DEF PostHeader, TypeInv, RequestsOK, Request
<1>4. songs' = songs /\ draft' = draft
  BY <1>2 DEF Database
<1>5. FollowInv' /\ Rows' /\ PlayInv'
  BY <1>1, <1>2, <1>4
  DEF NameInv, FollowInv, Rows, RowInv, PlayInv, UsedName, HoldsTitle
<1>6. ASSUME NEW t \in Slot PROVE PostInv(t)'
  <2>1. PostInv(t)
    BY <1>1 DEF NameInv, Posts
  <2>2. CASE t = r
    <3>1. req[r].pc \in Named
      BY <1>3 DEF Named, PostPC
    <3>2. n \in DOMAIN cache.files => cache.files[n] = found
      BY DEF IsFileCached
    <3> HIDE DEF found
    <3> QED
      BY <1>2, <1>3, <1>4, <2>1, <2>2, <3>1, <3>2 DEF PostInv, UsedName, HoldsTitle
  <2>3. CASE t # r
    <3>1. req[r].pc \in Named
      BY <1>3 DEF Named, PostPC
    <3> QED
      BY <1>2, <1>3, <1>4, <2>1, <2>3, <3>1 DEF PostInv, UsedName, HoldsTitle
  <2> QED
    BY <2>2, <2>3
<1> QED
  BY <1>5, <1>6 DEF NameInv, Posts

(* The name passes from the request to the row it inserts. *)
LEMMA InsertedRow ==
    ASSUME NamesStep, NEW r \in Slot, PostInsert(r)
    PROVE  NameInv'
<1> DEFINE q == req[r]
           new == CreateSong(songs, q.user, q.content, q.path)
           last == Len(songs) + 1
<1>1. /\ TypeInv /\ IInv /\ NameInv /\ FollowInv /\ q \in Request /\ songs \in Table
      /\ RequestOK(q, Len(draft)) /\ Len(songs) \in Nat
  BY DEF NamesStep, IInv, NameInv, TypeInv, RequestsOK, TablesOK, Table
<1>2. second' = second /\ player' = player /\ cache' = cache /\ songs' = new /\ draft' = new
  BY DEF PostInsert, Elsewhere, CommitOutside
<1>3. q.user \in User /\ q.content \in Title /\ q.path \in Path /\ q.path \in Name /\ q.pc = "insert"
  BY <1>1 DEF PostInsert, RequestOK, PostPC, Path
<1>4. /\ new \in Table
      /\ Len(new) = last
      /\ \A i \in SongId(songs) : new[i] = songs[i]
  BY <1>1, <1>3, CreateSongAppends
<1>5. new[last].path = q.path /\ new[last].title = q.content
  BY <1>1 DEF CreateSong, Table
<1> HIDE DEF new
<1>6. SongId(new) = SongId(songs) \cup {last} /\ last \notin SongId(songs)
  BY <1>1, <1>4 DEF SongId
<1>7. req' = [req EXCEPT ![r] = Idle] /\ Idle.pc = "idle"
  BY DEF PostInsert, Done, Idle
<1>8. /\ req'[r].pc = "idle"
      /\ \A s \in Slot : s # r => req'[s] = req[s]
  BY <1>1, <1>7, OneRequest
<1>9. PostInv(r) /\ q.pc \in Named /\ q.path # NoPath
  BY <1>1, <1>3, NoPathAssumption DEF NameInv, Posts, Named, PostPC
<1>10. FollowInv'
  BY <1>2 DEF FollowInv
<1>11. ASSUME NEW i \in SongId(new) PROVE RowInv(i)'
  <2>1. CASE i = last
    BY <1>2, <1>3, <1>4, <1>5, <1>6, <1>9, <2>1 DEF RowInv, PostInv, UsedName, HoldsTitle
  <2>2. CASE i \in SongId(songs)
    <3>1. RowInv(i) /\ songs[i].path # q.path
      BY <1>1, <1>9, <2>2 DEF NameInv, Rows, PostInv
    <3> QED
      BY <1>2, <1>4, <1>5, <1>6, <2>2, <3>1 DEF RowInv, UsedName, HoldsTitle
  <2> QED
    BY <1>6, <2>1, <2>2
<1>12. PlayInv'
  <2>1. player.pc # "poll" => player.path # q.path
    BY <1>9 DEF PostInv
  <2> QED
    BY <1>1, <1>2, <1>4, <1>5, <1>6, <2>1 DEF NameInv, PlayInv, UsedName, HoldsTitle
<1>13. ASSUME NEW t \in Slot PROVE PostInv(t)'
  <2>1. CASE t = r
    BY <1>8, <2>1 DEF PostInv, Named, PostPC
  <2>2. CASE t # r
    <3>1. PostInv(t) /\ (req[t].pc \in Named => req[t].path # q.path)
      BY <1>1, <1>9, <2>2 DEF PostInv, NameInv, Posts
    <3>2. req'[t].pc \in Named =>
             \A s \in Slot : req'[s].pc \in Named /\ req'[s].path = req'[t].path => s = t
      BY <1>8, <2>2, <3>1 DEF PostInv, Named, PostPC
    <3> QED
      BY <1>2, <1>4, <1>5, <1>6, <1>8, <2>2, <3>1, <3>2 DEF PostInv, UsedName, HoldsTitle
  <2> QED
    BY <2>1, <2>2
<1> QED
  BY <1>2, <1>10, <1>11, <1>12, <1>13 DEF NameInv, Posts, Rows

LEMMA PostNames ==
    ASSUME NamesStep, DistinctSeconds, NEW r \in Slot, PostNext(r)
    PROVE  NameInv'
<1>1. TypeInv /\ IInv /\ NameInv /\ FollowInv /\ CacheOK /\ req[r] \in Request
  BY DEF NamesStep, IInv, NameInv, TypeInv, RequestsOK
<1>2. CASE PostFetch(r)
  <2> DEFINE mine == SongsByUser(songs, req[r].user)
             new == [req[r] EXCEPT !.fetched = TRUE,
                                   !.titles = {songs[i].title : i \in mine},
                                   !.count = Cardinality(mine)]
  <2>1. req' = [req EXCEPT ![r] = new]
    BY <1>1, <1>2 DEF PostFetch, TypeInv, RequestsOK
  <2>2. req'[r] = new /\ \A s \in Slot : s # r => req'[s] = req[s]
    BY <1>1, <2>1 DEF TypeInv, RequestsOK
  <2>3. new.pc = req[r].pc /\ new.path = req[r].path /\ new.content = req[r].content
    BY <1>1 DEF Request
  <2>4. second' = second /\ player' = player /\ cache' = cache /\ UNCHANGED Database
    BY <1>2 DEF PostFetch, Elsewhere
  <2> HIDE DEF new
  <2>5. NamesKept
    BY <1>1, <2>2, <2>3, <2>4, NamesKeptStep
  <2> QED
    BY <1>1, <2>4, <2>5, SameTables, SameFiles, NamesQuiet DEF PlayerFollows
<1>3. CASE PostCheck(r)
  <2>1. \E pc \in {"drop", "insert"} : Goto(r, pc)
    BY <1>3 DEF PostCheck
  <2>2. second' = second /\ player' = player /\ cache' = cache /\ UNCHANGED Database
        /\ req[r].pc = "check"
    BY <1>3 DEF PostCheck, Elsewhere
  <2>3. NamesKept
    BY <1>1, <2>1, <2>2, GotoNames DEF Named, PostPC
  <2> QED
    BY <1>1, <2>2, <2>3, SameTables, SameFiles, NamesQuiet DEF PlayerFollows
<1>4. CASE PostDrop(r)
  <2>1. second' = second /\ player' = player /\ UNCHANGED Database
    BY <1>4 DEF PostDrop, Elsewhere
  <2>2. FilesKept
    BY <1>1, <1>4, DeletedFiles DEF PostDrop, Bare
  <2>3. NamesKept
    BY <1>1, <1>4, <2>1, DoneNames DEF PostDrop
  <2> QED
    BY <1>1, <2>1, <2>2, <2>3, SameTables, NamesQuiet DEF PlayerFollows
<1> QED
  BY <1>2, <1>3, <1>4, NewName, WrittenFile, ReadHeader, InsertedRow DEF PostNext

(* The player takes the head's name, and keeps it until its song has left.   *)
LEMMA KeptQuiet ==
    ASSUME NamesStep, UNCHANGED <<req, second>>, TablesKept, FilesKept, PlayInv',
           player'.pc # "poll" => player.pc # "poll" /\ player'.path = player.path
    PROVE  NameInv'
<1>1. TypeInv /\ Posts /\ Rows /\ NamesKept
  BY DEF NamesStep, IInv, NameInv, NamesKept
<1>2. \A r \in Slot : req[r].pc \in Named /\ player'.pc # "poll" => player'.path # req[r].path
  BY <1>1 DEF Posts, PostInv
<1>3. \A r \in Slot : req[r].pc \in Named => req[r].path # NoPath
  BY <1>1, NoPathAssumption DEF TypeInv, RequestsOK, RequestOK, Named
<1> QED
  BY <1>1, <1>2, <1>3, RowsKept, PostsKept DEF NameInv, TablesKept

LEMMA PlayerNames == ASSUME NamesStep, PlayerNext PROVE NameInv'
<1>1. /\ TypeInv /\ IInv /\ NameInv /\ FollowInv /\ PlayInv /\ Posts /\ Rows
      /\ CacheOK /\ PlayerOK /\ songs \in Table
  BY DEF NamesStep, IInv, NameInv, TypeInv, TablesOK
<1>2. UNCHANGED <<req, second>>
  BY DEF PlayerNext, PlayerPoll, PlayerOpen, PlayerFinish, PlayerLookup, PlayerRemove, PlayerUnlink
<1>3. NoPath \notin Name
  BY NoPathAssumption
<1>4. CASE PlayerPoll
  <2>1. PICK h \in Heads(songs) :
           player' = [IdlePlayer EXCEPT !.pc = "open", !.song = h, !.path = songs[h].path]
    BY <1>4 DEF PlayerPoll
  <2>2. h \in SongId(songs) /\ songs[h].path # NoPath /\ h # NoSong
    BY <2>1 DEF Heads, Playable, SongId, NoSong
  <2>3. songs[h].path \in Name
    BY <1>1, <2>2, RowOfTable DEF Path
  <2>4. player'.pc = "open" /\ player'.song = h /\ player'.path = songs[h].path
    BY <2>1 DEF IdlePlayer
  <2>5. /\ songs' = songs /\ draft' = draft /\ cache' = cache
    BY <1>4 DEF PlayerPoll, Database
  <2>6. PlayInv'
    BY <1>1, <1>2, <2>2, <2>3, <2>4, <2>5 DEF PlayInv, Rows, RowInv, UsedName, HoldsTitle
  <2>7. Posts'
    BY <1>1, <1>2, <2>2, <2>4, <2>5 DEF Posts, PostInv, UsedName, HoldsTitle
  <2> QED
    BY <1>1, <1>2, <2>5, <2>6, <2>7 DEF NameInv, FollowInv, Rows, RowInv, UsedName, HoldsTitle
<1>5. CASE PlayerOpen
  <2>1. songs' = songs /\ draft' = draft /\ cache' = cache /\ player.pc = "open"
    BY <1>5 DEF PlayerOpen, Database
  <2>2. /\ player'.song = player.song /\ player'.path = player.path
        /\ \/ player'.pc = "lookup"
           \/ /\ player'.pc = "play" /\ player.path \in DOMAIN cache.files
              /\ player'.heard = cache.files[player.path]
    BY <1>1, <1>5 DEF PlayerOpen, PlayerOK, IsFileCached
  <2>3. PlayInv'
    BY <1>1, <1>2, <2>1, <2>2 DEF PlayInv, UsedName, HoldsTitle
  <2> QED
    BY <1>1, <1>2, <2>1, <2>2, <2>3, UnchangedTables, SameFiles, KeptQuiet DEF NamesStep
<1>6. CASE PlayerFinish
  <2>1. PlayerFollows /\ cache' = cache /\ UNCHANGED Database
    BY <1>6 DEF PlayerFollows, PlayerFinish
  <2> QED
    BY <1>1, <1>2, <2>1, SameTables, SameFiles, NamesQuiet DEF NamesKept
<1>7. CASE PlayerLookup
  <2> DEFINE hits == SongByPath(songs, player.path)
  <2>1. /\ songs' = songs /\ draft' = draft /\ cache' = cache /\ player.pc = "lookup"
        /\ player' = IF hits = {} THEN [player EXCEPT !.pc = "unlink"]
                     ELSE [player EXCEPT !.pc = "remove", !.target = CHOOSE i \in hits : TRUE]
    BY <1>7 DEF PlayerLookup, Database
  <2>2. player.song \in SongId(songs) /\ songs[player.song].path \in {player.path, NoPath}
    BY <1>1, <2>1 DEF PlayInv
  <2>3. hits = {i \in SongId(songs) : songs[i].path = player.path}
    <3> DEFINE named == {i \in SongId(songs) : songs[i].path = player.path}
    <3>1. \A i, j \in named : i = j /\ i \in Nat
      BY <1>1, <2>1 DEF PlayInv, SongId
    <3>2. \A i, j \in named : i <= j
      BY <3>1
    <3> QED
      BY <3>2 DEF SongByPath
  <2>4. \A i \in hits : i = player.song
    BY <1>1, <2>1, <2>3 DEF PlayInv
  <2>5. CASE hits = {}
    <3>1. songs[player.song].path = NoPath
      BY <2>2, <2>3, <2>5
    <3>2. player' = [player EXCEPT !.pc = "unlink"]
      BY <2>1, <2>5
    <3>3. PlayInv'
      BY <1>1, <1>2, <2>1, <3>1, <3>2 DEF PlayInv, PlayerOK, UsedName, HoldsTitle
    <3> QED
      BY <1>1, <1>2, <2>1, <3>2, <3>3, UnchangedTables, SameFiles, KeptQuiet DEF NamesStep, PlayerOK
  <2>6. CASE hits # {}
    <3> DEFINE chosen == CHOOSE i \in hits : TRUE
    <3>1. chosen \in hits
      BY <2>6
    <3>2. chosen = player.song
      BY <2>4, <3>1
    <3>3. player' = [player EXCEPT !.pc = "remove", !.target = player.song]
      BY <2>1, <2>6, <3>2
    <3>4. PlayInv'
      BY <1>1, <1>2, <2>1, <3>3 DEF PlayInv, PlayerOK, UsedName, HoldsTitle
    <3> QED
      BY <1>1, <1>2, <2>1, <3>3, <3>4, UnchangedTables, SameFiles, KeptQuiet DEF NamesStep, PlayerOK
  <2> QED
    BY <2>5, <2>6
<1>8. CASE PlayerRemove
  <2>1. /\ player.pc = "remove" /\ cache' = cache
        /\ player' = [player EXCEPT !.pc = "unlink"]
        /\ CommitOutside(RemoveSong(songs, player.song))
    BY <1>1, <1>8 DEF PlayerRemove, PlayInv
  <2>2. player.song \in SongId(songs)
    BY <1>1, <2>1 DEF PlayInv
  <2> DEFINE new == RemoveSong(songs, player.song)
  <2>3. new \in Table /\ Updates(songs, new) /\ new[player.song].path = NoPath
    <3>1. new \in Table /\ Updates(songs, new)
      BY <1>1, RemoveSongUpdates DEF Updates
    <3>2. new[player.song].path = NoPath
      BY <1>1, <2>2, RowOfTable DEF RemoveSong, Row
    <3> QED
      BY <3>1, <3>2
  <2>4. songs' = new
    BY <2>1 DEF CommitOutside
  <2> HIDE DEF new
  <2>5. TablesKept
    BY <1>1, <2>1, <2>3, CommittedTables DEF new
  <2>6. SongId(songs') = SongId(songs)
    BY <2>5, SameSongs DEF TablesKept
  <2>7. \A i \in SongId(songs) : /\ songs'[i].title = songs[i].title
                                 /\ songs'[i].path \in {songs[i].path, NoPath}
    BY <2>5 DEF TablesKept, Updates
  <2>8. PlayInv'
    BY <1>1, <1>2, <1>3, <2>1, <2>2, <2>3, <2>4, <2>6, <2>7 DEF PlayInv, PlayerOK, UsedName, HoldsTitle
  <2> QED
    BY <1>1, <1>2, <2>1, <2>5, <2>8, SameFiles, KeptQuiet DEF PlayerOK
<1>9. CASE PlayerUnlink
  <2>1. /\ songs' = songs /\ draft' = draft /\ player.pc = "unlink"
        /\ player'.pc = "poll" /\ player'.song = player.song
    BY <1>9 DEF PlayerUnlink, Database, IdlePlayer
  <2>2. FilesKept
    BY <1>1, <1>9, DeletedFiles DEF PlayerUnlink, Bare
  <2>3. PlayInv'
    BY <1>1, <2>1 DEF PlayInv
  <2> QED
    BY <1>1, <1>2, <2>1, <2>2, <2>3, UnchangedTables, KeptQuiet
<1> QED
  BY <1>4, <1>5, <1>6, <1>7, <1>8, <1>9 DEF PlayerNext

LEMMA DeliverStopNames == ASSUME NamesStep, DeliverStop PROVE NameInv'
<1>1. IInv /\ TypeInv /\ NameInv /\ FollowInv
  BY DEF NamesStep, IInv, NameInv
<1>2. PlayerFollows /\ UNCHANGED <<Database, cache, req, second>>
  BY DEF DeliverStop, PlayerFollows
<1> QED
  BY <1>1, <1>2, SameTables, SameFiles, NamesQuiet DEF NamesKept

LEMMA BootNames == ASSUME NamesStep, BootNext PROVE NameInv'
<1>1. IInv /\ TypeInv /\ NameInv /\ FollowInv /\ songs \in Table
  BY DEF NamesStep, IInv, NameInv, TypeInv, TablesOK
<1>2. PlayerFollows /\ UNCHANGED <<req, second>>
  BY DEF BootNext, BootHttp, BootHttpsCache, BootHttpsDatabase, PlayerFollows
<1>3. TablesKept
  BY <1>1, WipeSongsUpdates, CommittedTables, SameTables
  DEF BootNext, BootHttp, BootHttpsCache, BootHttpsDatabase, Updates
<1>4. FilesKept
  BY FreshFiles, SameFiles DEF BootNext, BootHttp, BootHttpsCache, BootHttpsDatabase
<1> QED
  BY <1>1, <1>2, <1>3, <1>4, NamesQuiet DEF NamesKept

LEMMA RestartNames == ASSUME NamesStep, Restart PROVE NameInv'
<1>1. TypeInv /\ NameInv /\ songs \in Table
  BY DEF NamesStep, IInv, TypeInv, TablesOK
<1>2. /\ songs' = WipeSongs(songs) /\ draft' = songs' /\ second' = second
      /\ cache' = FreshStore /\ req' = [r \in Slot |-> Idle] /\ player' = IdlePlayer
  BY DEF Restart
<1>3. TablesKept
  BY <1>1, <1>2, WipeSongsUpdates DEF TablesKept, FollowInv
<1>4. Rows'
  BY <1>1, <1>2, <1>3, FreshFiles, RowsKept DEF NameInv
<1>5. Posts'
  BY <1>2 DEF Posts, PostInv, Idle, Named, PostPC
<1>6. PlayInv'
  BY <1>2 DEF PlayInv, IdlePlayer
<1> QED
  BY <1>3, <1>4, <1>5, <1>6 DEF NameInv, TablesKept

LEMMA NextNames == ASSUME DistinctSeconds, NamesStep, [Next]_vars PROVE NameInv'
<1>1. CASE UNCHANGED vars
  BY <1>1 DEF NamesStep, vars, NameInv, FollowInv, Posts, PostInv, Rows, RowInv, PlayInv,
              UsedName, HoldsTitle
<1>2. CASE \E r \in Slot : Arrive(r) \/ Serve(r)
  BY <1>2, ArriveNames, PostNames, OtherServed DEF Serve
<1> QED
  BY <1>1, <1>2, PlayerNames, DeliverStopNames, BootNames, RestartNames DEF Next

LEMMA InitNames == Init => NameInv
<1> SUFFICES ASSUME Init PROVE NameInv
  OBVIOUS
<1>1. SongId(songs) = {}
  BY DEF Init, SongId
<1> QED
  BY <1>1 DEF Init, NameInv, FollowInv, Posts, PostInv, Rows, RowInv, PlayInv, Idle, IdlePlayer,
              Named, PostPC

LEMMA NamesHold == ASSUME DistinctSeconds PROVE Spec => [](IInv /\ NameInv)
<1>1. Init => IInv /\ NameInv
  BY InitOrders, InitNames
<1>2. IInv /\ NameInv /\ [Next]_vars => (IInv /\ NameInv)'
  BY NextOrders, NextNames DEF NamesStep, StepOK
<1> QED
  BY <1>1, <1>2, PTL DEF Spec

(* songRemover_ takes the song it played out of the queue, whoever else      *)
(* deletes, posts or swaps meanwhile: back at newSongProvider_, the song it  *)
(* last took is gone.                                                        *)
THEOREM PlayedSongLeaves == ASSUME DistinctSeconds PROVE Spec => []LastSongGone
<1>1. IInv /\ NameInv => LastSongGone
  BY DEF NameInv, PlayInv, LastSongGone
<1> QED
  BY <1>1, NamesHold, PTL

(* What the player plays is the song whose row it took: no other post's file *)
(* ever stands under its name.                                               *)
THEOREM PostIsHeard == ASSUME DistinctSeconds PROVE Spec => []HeardIsPosted
<1>1. IInv /\ NameInv => HeardIsPosted
  BY DEF NameInv, PlayInv, HeardIsPosted
<1> QED
  BY <1>1, NamesHold, PTL

FileStays(i) == songs[i].path \in DOMAIN cache'.files \/ ~cache'.dir \/ boot' # boot

LEMMA GrowingFiles ==
    ASSUME NEW i \in SongId(songs), songs[i].path \in DOMAIN cache.files,
           DOMAIN cache.files \subseteq DOMAIN cache'.files
    PROVE  FileStays(i)
BY DEF FileStays

(* The one name a bare deletion takes is no queued song's. *)
LEMMA BareDeletion ==
    ASSUME CacheOK, NEW i \in SongId(songs), songs[i].path \in DOMAIN cache.files,
           NEW n, n # songs[i].path, cache' = DeleteFile(cache, Bare(n))
    PROVE  FileStays(i)
<1>1. cache' = [cache EXCEPT !.files = Restrict(cache.files, DOMAIN cache.files \ {n})]
  BY DEF DeleteFile, Bare
<1>2. cache'.files = Restrict(cache.files, DOMAIN cache.files \ {n})
  BY <1>1 DEF CacheOK
<1>3. DOMAIN cache'.files = DOMAIN cache.files \ {n}
  BY <1>2 DEF Restrict
<1> QED
  BY <1>3 DEF FileStays

LEMMA StoredDeletion ==
    ASSUME NEW i \in SongId(songs), songs[i].path \in DOMAIN cache.files,
           NEW p, cache' = DeleteFile(cache, StoredPath(p, NoPath))
    PROVE  FileStays(i)
<1>1. CASE p = NoPath
  BY <1>1 DEF DeleteFile, StoredPath, FileStays
<1>2. CASE p # NoPath
  BY <1>2 DEF DeleteFile, StoredPath, FileStays
<1> QED
  BY <1>1, <1>2

LEMMA StepKeepsFiles ==
    ASSUME NamesStep, [Next]_vars,
           NEW i \in SongId(songs), songs[i].path \in DOMAIN cache.files,
           songs'[i].path = songs[i].path
    PROVE  FileStays(i)
<1>1. /\ TypeInv /\ CacheOK /\ Posts /\ PlayInv /\ songs \in Table
      /\ songs[i].path \in Name /\ NoPath \notin Name
  BY NoPathAssumption DEF NamesStep, IInv, NameInv, TypeInv, TablesOK, CacheOK
<1>2. CASE UNCHANGED cache
  BY <1>2, GrowingFiles
<1>3. ASSUME NEW r \in Slot, PostWrite(r) PROVE FileStays(i)
  <2>1. CASE cache.dir
    <3>1. cache' = SetFileContent(cache, req[r].path, req[r].content)
      BY <1>3, <2>1 DEF PostWrite
    <3>2. DOMAIN cache.files \subseteq DOMAIN cache'.files
      BY <1>1, <3>1 DEF SetFileContent, CacheOK
    <3> QED
      BY <3>2, GrowingFiles
  <2> QED
    BY <1>2, <1>3, <2>1 DEF PostWrite
<1>4. ASSUME NEW r \in Slot, PostDrop(r) PROVE FileStays(i)
  <2>1. songs[i].path # req[r].path
    BY <1>1, <1>4 DEF PostDrop, Posts, PostInv, Named, PostPC
  <2> QED
    BY <1>1, <1>4, <2>1, BareDeletion DEF PostDrop
<1>5. ASSUME NEW r \in Slot, DeleteUnlink(r) \/ AdminUnlink(r) PROVE FileStays(i)
  BY <1>5, StoredDeletion DEF DeleteUnlink, AdminUnlink
<1>6. CASE PlayerUnlink
  <2>1. songs[i].path # player.path
    BY <1>1, <1>6 DEF PlayerUnlink, PlayInv
  <2> QED
    BY <1>1, <1>6, <2>1, BareDeletion DEF PlayerUnlink
<1>7. CASE BootNext
  BY <1>7 DEF BootNext, BootHttp, BootHttpsCache, BootHttpsDatabase, FileStays
<1>8. CASE Restart
  <2>1. songs'[i].path = NoPath
    BY <1>1, <1>8, WipeSongsUpdates DEF Restart
  <2> QED
    BY <1>1, <2>1
<1>9. ASSUME NEW r \in Slot, Arrive(r) PROVE UNCHANGED cache
  BY <1>9 DEF Arrive, PostStart, DeleteStart, AdminStart, InvertStart
<1>10. ASSUME NEW r \in Slot, Serve(r) PROVE FileStays(i)
  <2>1. CASE PostNext(r)
    BY <1>2, <1>3, <1>4, <2>1
    DEF PostNext, PostFetch, PostName, PostHeader, PostCheck, PostInsert
  <2>2. CASE DeleteNext(r)
    BY <1>2, <1>5, <2>2 DEF DeleteNext, DeleteRead, DeleteHead, DeleteRemove
  <2>3. CASE AdminNext(r)
    BY <1>2, <1>5, <2>3
    DEF AdminNext, AdminRead, AdminFlag, AdminHead, AdminStop, AdminRemove, AdminRefused
  <2>4. CASE InvertNext(r)
    BY <1>2, <2>4
    DEF InvertNext, InvertRead, InvertHead, InvertBegin, InvertSelect, InvertUpdate1,
        InvertUpdate2, InvertCommit, InvertRollback
  <2> QED
    BY <1>10, <2>1, <2>2, <2>3, <2>4 DEF Serve
<1>11. CASE PlayerNext
  BY <1>2, <1>6, <1>11
  DEF PlayerNext, PlayerPoll, PlayerOpen, PlayerFinish, PlayerLookup, PlayerRemove
<1>12. CASE DeliverStop \/ UNCHANGED vars
  BY <1>2, <1>12 DEF DeliverStop, vars
<1> QED
  BY <1>2, <1>7, <1>8, <1>9, <1>10, <1>11, <1>12 DEF Next

(* A file a queued song names goes only with the whole directory: a refused  *)
(* post deletes its own file, and the player that of a song that has left.   *)
THEOREM QueuedFilesStay == ASSUME DistinctSeconds PROVE Spec => NoForeignDelete
<1> DEFINE Stay == \A i \in SongId(songs) :
                      /\ songs[i].path \in DOMAIN cache.files
                      /\ songs'[i].path = songs[i].path
                      => songs[i].path \in DOMAIN cache'.files \/ ~cache'.dir \/ boot' # boot
<1>1. IInv /\ NameInv /\ [Next]_vars => Stay
  BY StepKeepsFiles DEF NamesStep, FileStays
<1>2. IInv /\ NameInv /\ [Next]_vars => [Stay]_<<songs, cache>>
  BY <1>1
<1> HIDE DEF Stay
<1>3. Spec => [][Stay]_<<songs, cache>>
  BY <1>2, NamesHold, PTL DEF Spec
<1> QED
  BY <1>3 DEF NoForeignDelete, Stay

-----------------------------------------------------------------------------
(* How far the limit can be passed.  A post that has read fewer songs than   *)
(* the limit counts as if it were stored; the reading that lets it count     *)
(* leaves room for every post in flight but one.                             *)

Admitted(r) == req[r].fetched /\ req[r].count < MAX_SONG_PER_USER

Counted(u) == {r \in Requests(PostPC) : req[r].user = u /\ Admitted(r)}

Stored(u) == Cardinality(SongsByUser(songs, u))

LimitInv ==
    /\ IsFiniteSet(Requests(PostPC))
    /\ Cardinality(Requests(PostPC)) <= AtMost["post"]
    /\ \A r \in Slot : req[r].pc = "insert" => Admitted(r)
    /\ \A u \in User : Stored(u) + Cardinality(Counted(u)) < MAX_SONG_PER_USER + AtMost["post"]

LEMMA StoredFinite ==
    ASSUME NEW t \in Table, NEW u
    PROVE  IsFiniteSet(SongsByUser(t, u)) /\ Cardinality(SongsByUser(t, u)) \in Nat
<1>1. IsFiniteSet(SongId(t))
  BY FS_Interval DEF SongId, Table
<1>2. SongsByUser(t, u) \subseteq SongId(t)
  BY DEF SongsByUser, Playable
<1> QED
  BY <1>1, <1>2, FS_Subset, FS_CardinalityType

LEMMA CountedFinite ==
    ASSUME IsFiniteSet(Requests(PostPC)), NEW u
    PROVE  /\ IsFiniteSet(Counted(u)) /\ Cardinality(Counted(u)) \in Nat
           /\ Cardinality(Counted(u)) <= Cardinality(Requests(PostPC))
<1>1. Counted(u) \subseteq Requests(PostPC)
  BY DEF Counted
<1> QED
  BY <1>1, FS_Subset, FS_CardinalityType

(* No song is stored, and no more posts are admitted than before. *)
LEMMA LimitQuiet ==
    ASSUME TypeInv, LimitInv, Updates(songs, songs'),
           IsFiniteSet(Requests(PostPC)'), Cardinality(Requests(PostPC)') <= AtMost["post"],
           \A s \in Slot : req'[s].pc \in PostPC /\ Admitted(s)' =>
              req[s].pc \in PostPC /\ Admitted(s) /\ req'[s].user = req[s].user,
           \A s \in Slot : req'[s].pc = "insert" => Admitted(s)'
    PROVE  LimitInv'
<1>1. songs \in Table /\ MAX_SONG_PER_USER \in Nat /\ AtMost["post"] \in Nat
  BY LimitAssumption, AtMostAssumption DEF TypeInv, TablesOK
<1>2. ASSUME NEW u \in User
      PROVE  Stored(u)' + Cardinality(Counted(u)') < MAX_SONG_PER_USER + AtMost["post"]
  <2>1. SongsByUser(songs', u) \subseteq SongsByUser(songs, u)
    BY SameSongs DEF Updates, SongsByUser, Playable
  <2>2. Counted(u)' \subseteq Counted(u)
    BY DEF Counted, Requests
  <2>3. /\ IsFiniteSet(SongsByUser(songs, u)) /\ Stored(u) \in Nat
        /\ IsFiniteSet(Counted(u)) /\ Cardinality(Counted(u)) \in Nat
    BY <1>1, StoredFinite, CountedFinite DEF LimitInv, Stored
  <2>4. Cardinality(SongsByUser(songs', u)) <= Stored(u) /\ Cardinality(SongsByUser(songs', u)) \in Nat
    BY <2>1, <2>3, FS_Subset, FS_CardinalityType DEF Stored
  <2>5. Cardinality(Counted(u)') <= Cardinality(Counted(u)) /\ Cardinality(Counted(u)') \in Nat
    BY <2>2, <2>3, FS_Subset, FS_CardinalityType
  <2>6. Stored(u) + Cardinality(Counted(u)) < MAX_SONG_PER_USER + AtMost["post"]
    BY DEF LimitInv
  <2>7. Stored(u)' = Cardinality(SongsByUser(songs', u))
    BY DEF Stored
  <2> QED
    BY <1>1, <2>3, <2>4, <2>5, <2>6, <2>7
<1> QED
  BY <1>2 DEF LimitInv

LEMMA FewerPosts ==
    ASSUME LimitInv, Requests(PostPC)' \subseteq Requests(PostPC)
    PROVE  IsFiniteSet(Requests(PostPC)') /\ Cardinality(Requests(PostPC)') <= AtMost["post"]
<1>1. /\ IsFiniteSet(Requests(PostPC)')
      /\ Cardinality(Requests(PostPC)') <= Cardinality(Requests(PostPC))
  BY FS_Subset DEF LimitInv
<1>2. /\ Cardinality(Requests(PostPC)) \in Nat /\ Cardinality(Requests(PostPC)') \in Nat
      /\ AtMost["post"] \in Nat
  BY <1>1, FS_CardinalityType, AtMostAssumption DEF LimitInv
<1> QED
  BY <1>1, <1>2 DEF LimitInv

(* Any step of a request that is not posting afterwards, or goes on posting   *)
(* with what it has fetched, and is not brought to its insertion.            *)
LEMMA LimitStep ==
    ASSUME TypeInv, LimitInv, Updates(songs, songs'), NEW r \in Slot,
           \A s \in Slot : s # r => req'[s] = req[s],
           req'[r].pc \in PostPC =>
              /\ req[r].pc \in PostPC
              /\ req'[r].user = req[r].user
              /\ req'[r].fetched = req[r].fetched
              /\ req'[r].count = req[r].count,
           req'[r].pc = "insert" => Admitted(r)
    PROVE  LimitInv'
<1>1. Requests(PostPC)' \subseteq Requests(PostPC)
  BY DEF Requests
<1>2. \A s \in Slot : req'[s].pc \in PostPC /\ Admitted(s)' =>
              req[s].pc \in PostPC /\ Admitted(s) /\ req'[s].user = req[s].user
  BY DEF Admitted
<1>3. "insert" \in PostPC
  BY DEF PostPC
<1>4. \A s \in Slot : req'[s].pc = "insert" => Admitted(s)'
  BY <1>3 DEF Admitted, LimitInv
<1> QED
  BY <1>1, <1>2, <1>4, FewerPosts, LimitQuiet

LEMMA LimitSame ==
    ASSUME TypeInv, LimitInv, Updates(songs, songs'), req' = req
    PROVE  LimitInv'
<1>1. Requests(PostPC)' \subseteq Requests(PostPC)
  BY DEF Requests
<1>2. \A s \in Slot : Admitted(s)' <=> Admitted(s)
  BY DEF Admitted
<1> QED
  BY <1>1, <1>2, FewerPosts, LimitQuiet DEF LimitInv

LimitsStep == IInv /\ FollowInv /\ LimitInv

(* What getSongsByUser returns admits the post only below the limit. *)
LEMMA FetchLimit == ASSUME LimitsStep, NEW r \in Slot, PostFetch(r) PROVE LimitInv'
<1> DEFINE mine == SongsByUser(songs, req[r].user)
           new == [req[r] EXCEPT !.fetched = TRUE,
                                 !.titles = {songs[i].title : i \in mine},
                                 !.count = Cardinality(mine)]
<1>1. TypeInv /\ LimitInv /\ songs \in Table /\ req[r] \in Request /\ req \in [Slot -> Request]
  BY DEF LimitsStep, IInv, TypeInv, TablesOK, RequestsOK
<1>2. /\ req' = [req EXCEPT ![r] = new] /\ songs' = songs /\ ~req[r].fetched
      /\ req[r].pc \in {"name", "write", "header", "check"}
  BY <1>1 DEF PostFetch, Database
<1>3. /\ req'[r].pc = req[r].pc /\ req'[r].user = req[r].user /\ req'[r].fetched = TRUE
      /\ req'[r].count = Cardinality(mine)
      /\ \A s \in Slot : s # r => req'[s] = req[s]
  <2>1. req'[r] = new /\ \A s \in Slot : s # r => req'[s] = req[s]
    BY <1>1, <1>2
  <2> QED
    BY <1>1, <2>1 DEF Request
<1> HIDE DEF new
<1>4. Requests(PostPC)' = Requests(PostPC)
  BY <1>3 DEF Requests
<1>5. \A s \in Slot : req'[s].pc = "insert" => Admitted(s)'
  BY <1>1, <1>2, <1>3 DEF LimitInv, Admitted
<1>6. MAX_SONG_PER_USER \in Nat /\ AtMost["post"] \in Nat /\ Cardinality(Requests(PostPC)) \in Nat
  BY <1>1, LimitAssumption, AtMostAssumption, FS_CardinalityType DEF LimitInv
<1>7. ASSUME NEW u \in User
      PROVE  Stored(u) + Cardinality(Counted(u)') < MAX_SONG_PER_USER + AtMost["post"]
  <2>1. Stored(u) \in Nat /\ Stored(u) + Cardinality(Counted(u)) < MAX_SONG_PER_USER + AtMost["post"]
    BY <1>1, StoredFinite DEF Stored, LimitInv
  <2>2. CASE u = req[r].user /\ Cardinality(mine) < MAX_SONG_PER_USER
    <3>1. Counted(u)' \subseteq Requests(PostPC)
      BY <1>4 DEF Counted
    <3>2. Cardinality(Counted(u)') <= Cardinality(Requests(PostPC)) /\ Cardinality(Counted(u)') \in Nat
      BY <1>1, <3>1, FS_Subset, FS_CardinalityType DEF LimitInv
    <3>3. Stored(u) < MAX_SONG_PER_USER /\ Cardinality(Requests(PostPC)) <= AtMost["post"]
      BY <1>1, <2>2 DEF Stored, LimitInv
    <3> QED
      BY <1>6, <2>1, <3>2, <3>3
  <2>3. CASE ~(u = req[r].user /\ Cardinality(mine) < MAX_SONG_PER_USER)
    <3>1. Counted(u)' = Counted(u)
      BY <1>2, <1>3, <1>4, <2>3 DEF Counted, Admitted, Requests
    <3> QED
      BY <2>1, <3>1
  <2> QED
    BY <2>2, <2>3
<1>8. \A u \in User : Stored(u)' = Stored(u)
  BY <1>2 DEF Stored
<1> QED
  BY <1>1, <1>4, <1>5, <1>7, <1>8 DEF LimitInv

(* The song that is stored takes the place of the post that was counted. *)
LEMMA InsertLimit == ASSUME LimitsStep, NEW r \in Slot, PostInsert(r) PROVE LimitInv'
<1> DEFINE q == req[r]
           new == CreateSong(songs, q.user, q.content, q.path)
           last == Len(songs) + 1
<1>1. /\ TypeInv /\ LimitInv /\ songs \in Table /\ Len(songs) \in Nat /\ q \in Request
      /\ RequestOK(q, Len(draft)) /\ req \in [Slot -> Request]
  BY DEF LimitsStep, IInv, TypeInv, TablesOK, RequestsOK, Table
<1>2. q.user \in User /\ q.content \in Title /\ q.path \in Path /\ q.path \in Name /\ q.pc = "insert"
  BY <1>1 DEF PostInsert, RequestOK, PostPC, Path
<1>3. songs' = new /\ req' = [req EXCEPT ![r] = Idle]
  BY DEF PostInsert, CommitOutside, Done
<1>4. req'[r].pc = "idle" /\ \A s \in Slot : s # r => req'[s] = req[s]
  BY <1>1, <1>3 DEF Idle
<1>5. new \in Table /\ Len(new) = last /\ \A i \in SongId(songs) : new[i] = songs[i]
  BY <1>1, <1>2, CreateSongAppends
<1>6. new[last].owner = q.user
  BY <1>1 DEF CreateSong, Table
<1> HIDE DEF new
<1>7. SongId(new) = SongId(songs) \cup {last} /\ last \notin SongId(songs)
  BY <1>1, <1>5 DEF SongId
<1>8. Requests(PostPC)' = Requests(PostPC) \ {r} /\ r \in Requests(PostPC)
  BY <1>2, <1>4 DEF Requests, PostPC
<1>9. IsFiniteSet(Requests(PostPC)') /\ Cardinality(Requests(PostPC)') <= AtMost["post"]
  BY <1>1, <1>8, FewerPosts
<1>10. \A s \in Slot : req'[s].pc = "insert" => Admitted(s)'
  BY <1>1, <1>4 DEF LimitInv, Admitted
<1>11. MAX_SONG_PER_USER \in Nat /\ AtMost["post"] \in Nat
  BY LimitAssumption, AtMostAssumption
<1>12. ASSUME NEW u \in User
       PROVE  Stored(u)' + Cardinality(Counted(u)') < MAX_SONG_PER_USER + AtMost["post"]
  <2>1. /\ IsFiniteSet(SongsByUser(songs, u)) /\ Stored(u) \in Nat
        /\ IsFiniteSet(Counted(u)) /\ Cardinality(Counted(u)) \in Nat
        /\ Stored(u) + Cardinality(Counted(u)) < MAX_SONG_PER_USER + AtMost["post"]
    BY <1>1, StoredFinite, CountedFinite DEF LimitInv, Stored
  <2>2. Stored(u)' = Cardinality(SongsByUser(new, u))
    BY <1>3 DEF Stored
  <2>3. CASE u = q.user
    <3>1. Counted(u)' = Counted(u) \ {r} /\ r \in Counted(u)
      BY <1>1, <1>2, <1>4, <1>8, <2>3 DEF Counted, Admitted, LimitInv, Requests
    <3>2. Cardinality(Counted(u)') = Cardinality(Counted(u)) - 1
      BY <2>1, <3>1, FS_RemoveElement
    <3>3. SongsByUser(new, u) \subseteq SongsByUser(songs, u) \cup {last}
      BY <1>5, <1>7 DEF SongsByUser, Playable
    <3>4. /\ IsFiniteSet(SongsByUser(songs, u) \cup {last})
          /\ Cardinality(SongsByUser(songs, u) \cup {last}) <= Stored(u) + 1
      <4>1. last \notin SongsByUser(songs, u)
        BY <1>7 DEF SongsByUser, Playable
      <4>2. /\ IsFiniteSet(SongsByUser(songs, u) \cup {last})
            /\ Cardinality(SongsByUser(songs, u) \cup {last}) = Cardinality(SongsByUser(songs, u)) + 1
        <5> HIDE DEF last
        <5> QED
          BY <2>1, <4>1, FS_AddElement
      <4> QED
        BY <2>1, <4>2 DEF Stored
    <3>5. /\ Cardinality(SongsByUser(new, u)) <= Cardinality(SongsByUser(songs, u) \cup {last})
          /\ Cardinality(SongsByUser(new, u)) \in Nat
          /\ Cardinality(SongsByUser(songs, u) \cup {last}) \in Nat
      BY <3>3, <3>4, FS_Subset, FS_CardinalityType
    <3> QED
      BY <1>11, <2>1, <2>2, <3>2, <3>4, <3>5
  <2>4. CASE u # q.user
    <3>1. Counted(u)' = Counted(u)
      BY <1>4, <1>8, <2>4 DEF Counted, Admitted, Requests
    <3>2. SongsByUser(new, u) = SongsByUser(songs, u)
      BY <1>5, <1>6, <1>7, <2>4 DEF SongsByUser, Playable
    <3> QED
      BY <2>1, <2>2, <3>1, <3>2 DEF Stored
  <2> QED
    BY <2>3, <2>4
<1> QED
  BY <1>9, <1>10, <1>12 DEF LimitInv

LEMMA PostLimit == ASSUME LimitsStep, NEW r \in Slot, PostNext(r) PROVE LimitInv'
<1>1. /\ TypeInv /\ IInv /\ FollowInv /\ LimitInv /\ req[r] \in Request
      /\ req \in [Slot -> Request] /\ Updates(songs, songs)
  BY UpdatesItself DEF LimitsStep, IInv, TypeInv, RequestsOK, TablesOK
<1>2. CASE PostName(r) \/ PostWrite(r) \/ PostHeader(r) \/ PostCheck(r) \/ PostDrop(r)
  <2>1. songs' = songs
    BY <1>2 DEF PostName, PostWrite, PostHeader, PostCheck, PostDrop, Database
  <2>2. ASSUME NEW q, q.pc \notin PostPC, req' = [req EXCEPT ![r] = q] PROVE LimitInv'
    BY <1>1, <2>1, <2>2, OneRequest, LimitStep DEF PostPC
  <2>3. ASSUME Done(r) PROVE LimitInv'
    BY <2>2, <2>3 DEF Done, Idle, PostPC
  <2>4. ASSUME NEW pc \in {"header", "drop", "insert"}, Goto(r, pc), req[r].pc \in PostPC,
               pc = "insert" => Admitted(r)
        PROVE  LimitInv'
    <3>1. /\ req'[r] = [req[r] EXCEPT !.pc = pc]
          /\ \A s \in Slot : s # r => req'[s] = req[s]
      BY <1>1, <2>4 DEF Goto
    <3>2. /\ req'[r].pc = pc /\ req'[r].user = req[r].user
          /\ req'[r].fetched = req[r].fetched /\ req'[r].count = req[r].count
      BY <1>1, <3>1 DEF Request
    <3> QED
      BY <1>1, <2>1, <2>4, <3>1, <3>2, LimitStep
  <2>5. CASE PostName(r)
    <3>1. PICK n : req' = [req EXCEPT ![r].pc = "write", ![r].path = n]
      BY <2>5 DEF PostName
    <3>2. /\ req'[r] = [[req[r] EXCEPT !.pc = "write"] EXCEPT !.path = n]
          /\ \A s \in Slot : s # r => req'[s] = req[s]
      BY <1>1, <3>1
    <3>3. /\ req'[r].pc = "write" /\ req'[r].user = req[r].user
          /\ req'[r].fetched = req[r].fetched /\ req'[r].count = req[r].count
      BY <1>1, <3>2 DEF Request
    <3> QED
      BY <1>1, <2>1, <2>5, <3>2, <3>3, LimitStep DEF PostName, PostPC
  <2>6. CASE PostWrite(r)
    BY <2>3, <2>4, <2>6 DEF PostWrite, PostPC
  <2>7. CASE PostHeader(r)
    <3>0. PICK pc \in {"drop", "check"} :
             \E c : req' = [req EXCEPT ![r].pc = pc, ![r].content = c]
      BY <2>7 DEF PostHeader
    <3>1. PICK c : req' = [req EXCEPT ![r].pc = pc, ![r].content = c]
      BY <3>0
    <3>2. /\ req'[r] = [[req[r] EXCEPT !.pc = pc] EXCEPT !.content = c]
          /\ \A s \in Slot : s # r => req'[s] = req[s]
      BY <1>1, <3>1
    <3>3. /\ req'[r].pc = pc /\ req'[r].user = req[r].user
          /\ req'[r].fetched = req[r].fetched /\ req'[r].count = req[r].count
      BY <1>1, <3>2 DEF Request
    <3> QED
      BY <1>1, <2>1, <2>7, <3>1, <3>2, <3>3, LimitStep DEF PostHeader, PostPC
  <2>8. CASE PostCheck(r)
    <3>1. req[r].fetched /\ req[r].pc \in PostPC
      BY <2>8 DEF PostCheck, PostPC
    <3>2. CASE Goto(r, "drop")
      BY <2>4, <3>1, <3>2
    <3>3. CASE ~TooMany(req[r].count) /\ Goto(r, "insert")
      <4>1. req[r].count < MAX_SONG_PER_USER
        BY <1>1, <3>3, LimitAssumption DEF TooMany, Request
      <4> QED
        BY <2>4, <3>1, <3>3, <4>1 DEF Admitted
    <3> QED
      BY <2>8, <3>2, <3>3 DEF PostCheck
  <2>9. CASE PostDrop(r)
    BY <2>3, <2>9 DEF PostDrop
  <2> QED
    BY <1>2, <2>5, <2>6, <2>7, <2>8, <2>9
<1> QED
  BY <1>2, FetchLimit, InsertLimit DEF PostNext

LEMMA ArriveLimit == ASSUME LimitsStep, NEW r \in Slot, Arrive(r) PROVE LimitInv'
<1>1. /\ TypeInv /\ LimitInv /\ req[r] \in Request /\ req \in [Slot -> Request]
      /\ Updates(songs, songs)
  BY UpdatesItself DEF LimitsStep, IInv, TypeInv, RequestsOK, TablesOK
<1>2. songs' = songs
  BY DEF Arrive, PostStart, DeleteStart, AdminStart, InvertStart, Database
<1>3. ASSUME NEW u \in User, NEW content \in Uploads, PostStart(r, u, content),
             Cardinality(Requests(PostPC)) < AtMost["post"]
      PROVE  LimitInv'
  <2> DEFINE q == [Idle EXCEPT !.pc = "name", !.user = u, !.content = content]
  <2>1. req' = [req EXCEPT ![r] = q] /\ req[r].pc = "idle"
    BY <1>3 DEF PostStart
  <2>2. q.pc = "name" /\ q.fetched = FALSE
    BY DEF Idle
  <2> HIDE DEF q
  <2>3. /\ req'[r].pc = "name" /\ req'[r].fetched = FALSE
        /\ \A s \in Slot : s # r => req'[s] = req[s]
    BY <1>1, <2>1, <2>2
  <2>4. Requests(PostPC)' = Requests(PostPC) \cup {r} /\ r \notin Requests(PostPC)
    BY <2>1, <2>3 DEF Requests, PostPC
  <2>5. IsFiniteSet(Requests(PostPC)') /\ Cardinality(Requests(PostPC)') <= AtMost["post"]
    <3>1. /\ IsFiniteSet(Requests(PostPC) \cup {r})
          /\ Cardinality(Requests(PostPC) \cup {r}) = Cardinality(Requests(PostPC)) + 1
      BY <1>1, <2>4, FS_AddElement DEF LimitInv
    <3>2. Cardinality(Requests(PostPC)) \in Nat /\ AtMost["post"] \in Nat
      BY <1>1, FS_CardinalityType, AtMostAssumption DEF LimitInv
    <3> QED
      BY <1>3, <2>4, <3>1, <3>2
  <2>6. \A s \in Slot : req'[s].pc \in PostPC /\ Admitted(s)' =>
              req[s].pc \in PostPC /\ Admitted(s) /\ req'[s].user = req[s].user
    BY <2>3 DEF Admitted
  <2>7. \A s \in Slot : req'[s].pc = "insert" => Admitted(s)'
    BY <1>1, <2>3 DEF Admitted, LimitInv
  <2> QED
    BY <1>1, <1>2, <2>5, <2>6, <2>7, LimitQuiet
<1>4. ASSUME NEW q, q.pc \notin PostPC, req' = [req EXCEPT ![r] = q] PROVE LimitInv'
  BY <1>1, <1>2, <1>4, OneRequest, LimitStep DEF PostPC
<1>5. ASSUME NEW u \in User, NEW i \in SongId(songs), DeleteStart(r, u, i) PROVE LimitInv'
  <2> DEFINE q == [Idle EXCEPT !.pc = "read", !.user = u, !.song = i]
  <2>1. q.pc \notin PostPC /\ req' = [req EXCEPT ![r] = q]
    BY <1>5 DEF DeleteStart, Idle, PostPC
  <2> QED
    BY <1>4, <2>1
<1>6. ASSUME NEW i \in SongId(songs), AdminStart(r, i) PROVE LimitInv'
  <2> DEFINE q == [Idle EXCEPT !.pc = "adminRead", !.song = i]
  <2>1. q.pc \notin PostPC /\ req' = [req EXCEPT ![r] = q]
    BY <1>6 DEF AdminStart, Idle, PostPC
  <2> QED
    BY <1>4, <2>1
<1>7. ASSUME NEW i \in SongId(songs), NEW j \in SongId(songs), InvertStart(r, i, j) PROVE LimitInv'
  <2> DEFINE q == [Idle EXCEPT !.pc = "read1", !.song = i, !.other = j]
  <2>1. q.pc \notin PostPC /\ req' = [req EXCEPT ![r] = q]
    BY <1>7 DEF InvertStart, Idle, PostPC
  <2> QED
    BY <1>4, <2>1
<1> QED
  BY <1>3, <1>5, <1>6, <1>7 DEF Arrive

LEMMA OtherLimit ==
    ASSUME LimitsStep, NEW r \in Slot, DeleteNext(r) \/ AdminNext(r) \/ InvertNext(r)
    PROVE  LimitInv'
<1>1. TypeInv /\ LimitInv /\ IInv /\ FollowInv
  BY DEF LimitsStep, IInv
<1>2. PICK q : req' = [req EXCEPT ![r] = q] /\ q.pc \notin PostPC
  BY <1>1, OtherRequests
<1>3. Updates(songs, songs')
  BY <1>1, OtherTables DEF TablesKept
<1> QED
  BY <1>1, <1>2, <1>3, OneRequest, LimitStep DEF PostPC

LEMMA SystemTables ==
    ASSUME IInv, FollowInv, PlayerNext \/ DeliverStop \/ BootNext \/ Restart
    PROVE  TablesKept
<1>1. songs \in Table /\ draft \in Table /\ TypeInv
  BY DEF IInv, TypeInv, TablesOK
<1>2. CASE PlayerRemove
  BY <1>1, <1>2, RemoveSongUpdates, CommittedTables DEF PlayerRemove, Updates
<1>3. CASE BootHttp \/ BootHttpsDatabase
  BY <1>1, <1>3, WipeSongsUpdates, CommittedTables DEF BootHttp, BootHttpsDatabase, Updates
<1>4. CASE Restart
  BY <1>1, <1>4, WipeSongsUpdates DEF Restart, TablesKept, FollowInv
<1> QED
  BY <1>2, <1>3, <1>4, SameTables
  DEF PlayerNext, PlayerPoll, PlayerOpen, PlayerFinish, PlayerLookup, PlayerUnlink,
      DeliverStop, BootNext, BootHttpsCache

(* The limit does not rest on the seconds of the names. *)
LEMMA NextLimit == LimitsStep /\ [Next]_vars => FollowInv' /\ LimitInv'
<1> SUFFICES ASSUME LimitsStep, [Next]_vars PROVE FollowInv' /\ LimitInv'
  OBVIOUS
<1>1. TypeInv /\ LimitInv /\ IInv /\ FollowInv
  BY DEF LimitsStep, IInv
<1>2. FollowInv'
  <2>1. ASSUME NEW r \in Slot, Arrive(r) PROVE UNCHANGED Database
    BY <2>1 DEF Arrive, PostStart, DeleteStart, AdminStart, InvertStart
  <2>2. ASSUME NEW r \in Slot, PostNext(r) PROVE FollowInv'
    <3>1. CASE PostInsert(r)
      BY <3>1 DEF PostInsert, CommitOutside, FollowInv
    <3> QED
      BY <1>1, <2>2, <3>1, SameTables
      DEF PostNext, PostFetch, PostName, PostWrite, PostHeader, PostCheck, PostDrop, TablesKept
  <2>3. CASE UNCHANGED vars
    BY <1>1, <2>3, UnchangedTables DEF vars, TablesKept
  <2>4. ASSUME NEW r \in Slot, Arrive(r) \/ Serve(r) PROVE FollowInv'
    BY <1>1, <2>1, <2>2, <2>4, SameTables, OtherTables DEF Serve, TablesKept
  <2> QED
    BY <1>1, <2>3, <2>4, SystemTables DEF Next, TablesKept
<1>3. CASE PlayerNext \/ DeliverStop \/ BootNext
  <2>1. req' = req
    BY <1>3 DEF PlayerNext, PlayerPoll, PlayerOpen, PlayerFinish, PlayerLookup, PlayerRemove,
                PlayerUnlink, DeliverStop, BootNext, BootHttp, BootHttpsCache, BootHttpsDatabase
  <2> QED
    BY <1>1, <1>3, <2>1, SystemTables, LimitSame DEF TablesKept
<1>4. CASE Restart
  <2>1. \A s \in Slot : req'[s].pc = "idle"
    BY <1>4 DEF Restart, Idle
  <2>2. Requests(PostPC)' \subseteq Requests(PostPC)
    BY <2>1 DEF Requests, PostPC
  <2>3. Updates(songs, songs')
    BY <1>1, <1>4, SystemTables DEF TablesKept
  <2> QED
    <3>1. \A s \in Slot : req'[s].pc \notin PostPC /\ req'[s].pc # "insert"
      BY <2>1 DEF PostPC
    <3> QED
      BY <1>1, <1>2, <2>2, <2>3, <3>1, FewerPosts, LimitQuiet
<1>5. CASE UNCHANGED vars
  BY <1>1, <1>5, UnchangedTables, LimitSame DEF vars, TablesKept
<1>6. CASE \E r \in Slot : Arrive(r) \/ Serve(r)
  <2>1. PICK r \in Slot : Arrive(r) \/ Serve(r)
    BY <1>6
  <2>2. CASE Arrive(r)
    BY <1>2, <2>2, ArriveLimit
  <2>3. CASE PostNext(r)
    BY <1>2, <2>3, PostLimit
  <2>4. CASE DeleteNext(r) \/ AdminNext(r) \/ InvertNext(r)
    BY <1>2, <2>4, OtherLimit
  <2> QED
    BY <2>1, <2>2, <2>3, <2>4 DEF Serve
<1> QED
  BY <1>2, <1>3, <1>4, <1>5, <1>6 DEF Next

LEMMA InitLimit == Init => LimitsStep
<1> SUFFICES ASSUME Init PROVE LimitsStep
  OBVIOUS
<1>1. IInv
  BY InitOrders
<1>2. SongId(songs) = {} /\ Requests(PostPC) = {}
  BY DEF Init, SongId, Requests, Idle, PostPC
<1>3. \A u \in User : SongsByUser(songs, u) = {} /\ Counted(u) = {}
  BY <1>2 DEF SongsByUser, Playable, Counted
<1>4. /\ IsFiniteSet({}) /\ Cardinality({}) = 0
      /\ MAX_SONG_PER_USER \in Nat \ {0} /\ AtMost["post"] \in Nat
  BY FS_EmptySet, LimitAssumption, AtMostAssumption
<1>5. \A r \in Slot : req[r].pc # "insert"
  BY DEF Init, Idle
<1>6. \A u \in User : Stored(u) = 0 /\ Cardinality(Counted(u)) = 0
  BY <1>3, <1>4 DEF Stored
<1>7. LimitInv
  BY <1>2, <1>4, <1>5, <1>6 DEF LimitInv
<1>8. FollowInv
  BY <1>2 DEF FollowInv
<1> QED
  BY <1>1, <1>7, <1>8 DEF LimitsStep

(* The limit on a user's songs, read before the upload and used after it, is *)
(* passed by at most one song for each post in flight but one, and never by  *)
(* a post whose reading still holds.                                         *)
THEOREM LimitIsKept == Spec => []LimitHolds
<1>1. LimitsStep => LimitHolds
  <2> SUFFICES ASSUME LimitsStep, NEW u \in User
               PROVE  LET mine == {r \in Requests(PostPC) : req[r].user = u /\ req[r].fetched}
                          stored == Cardinality(SongsByUser(songs, u))
                      IN  /\ stored + Cardinality({r \in mine : req[r].count < MAX_SONG_PER_USER})
                                < MAX_SONG_PER_USER + AtMost["post"]
                          /\ \A r \in mine : req[r].pc = "insert" /\ req[r].count = stored
                                             => stored < MAX_SONG_PER_USER
    BY DEF LimitHolds
  <2> DEFINE mine == {r \in Requests(PostPC) : req[r].user = u /\ req[r].fetched}
  <2>1. {r \in mine : req[r].count < MAX_SONG_PER_USER} = Counted(u)
    BY DEF Counted, Admitted
  <2>2. Stored(u) + Cardinality(Counted(u)) < MAX_SONG_PER_USER + AtMost["post"]
    BY DEF LimitsStep, LimitInv
  <2>3. \A r \in mine : req[r].pc = "insert" /\ req[r].count = Stored(u)
                        => Stored(u) < MAX_SONG_PER_USER
    BY DEF LimitsStep, LimitInv, Admitted, Requests
  <2> QED
    BY <2>1, <2>2, <2>3 DEF Stored
<1>2. LimitsStep /\ [Next]_vars => LimitsStep'
  BY NextOrders, NextLimit DEF LimitsStep, StepOK
<1> QED
  BY <1>1, <1>2, InitLimit, PTL DEF Spec

-----------------------------------------------------------------------------
(* The playlist.  A step commits a removal, a wipe, a new song or an inversion; *)
(* of the inversion, SwapInv says what the draft is when it is committed.     *)

(* An update that keeps the places leaves the playlist's alone. *)
LEMMA SamePlaces ==
    ASSUME NEW t, NEW new, Updates(t, new), KeepsOrders(t, new)
    PROVE  Places(new) = Places(t)
<1>1. SongId(new) = SongId(t)
  BY SameSongs
<1> QED
  BY <1>1 DEF Places, KeepsOrders

(* removeSong takes one song out, if it waits. *)
LEMMA RemovedSong ==
    ASSUME NEW t \in Table, NEW n
    PROVE  Playable(RemoveSong(t, n)) = Playable(t) \ {n}
<1>1. SongId(RemoveSong(t, n)) = SongId(t)
  BY RemoveSongUpdates, SameSongs
<1>2. \A i \in SongId(t) : RemoveSong(t, n)[i].path = IF i = n THEN NoPath ELSE t[i].path
  BY RowOfTable DEF RemoveSong, Row
<1> QED
  BY <1>1, <1>2 DEF Playable

(* createSong adds one song, at the last place. *)
LEMMA CreatedSong ==
    ASSUME NEW t \in Table, NEW u \in User, NEW title \in Title, NEW p \in Path, p # NoPath
    PROVE  LET new == CreateSong(t, u, title, p)
           IN  /\ Playable(new) = Playable(t) \cup {Len(Places(t)) + 1}
               /\ Places(new) = Append(Places(t), Len(Places(t)) + 1)
<1> DEFINE row == [owner |-> u, title |-> title, path |-> p, order |-> Len(t) + 1]
           new == Append(t, row)
<1>1. row \in Row
  BY DEF Row, Table
<1>2. PICK n \in Nat : n = Len(t)
  BY DEF Table
<1>3. /\ new \in Seq(Row) /\ Len(new) = n + 1
      /\ \A i \in 1..n : new[i] = t[i]
      /\ new[n + 1] = row
  BY <1>1, <1>2 DEF Table
<1>4. row.path = p /\ row.order = n + 1
  BY <1>2
<1>5. new = CreateSong(t, u, title, p)
  BY DEF CreateSong
<1> HIDE DEF new, row
<1>6. SongId(new) = 1..n + 1 /\ SongId(t) = 1..n
  BY <1>2, <1>3 DEF SongId
<1>7. Playable(new) = Playable(t) \cup {n + 1}
  <2>1. \A i \in 1..n + 1 : i \in 1..n \/ i = n + 1
    OBVIOUS
  <2>2. 1..n \subseteq 1..n + 1 /\ n + 1 \in 1..n + 1
    OBVIOUS
  <2> QED
    BY <1>3, <1>4, <1>6, <2>1, <2>2 DEF Playable
<1>8. Places(t) \in Seq(Nat) /\ Len(Places(t)) = n
  <2>1. \A i \in 1..n : t[i].order \in Nat
    BY <1>6, RowOfTable
  <2> QED
    BY <1>6, <2>1 DEF Places
<1>9. Places(new) = Append(Places(t), n + 1)
  <2>1. Append(Places(t), n + 1) = [i \in 1..n + 1 |-> IF i = n + 1 THEN n + 1 ELSE Places(t)[i]]
    BY <1>8
  <2>2. \A i \in 1..n + 1 : new[i].order = IF i = n + 1 THEN n + 1 ELSE Places(t)[i]
    <3> SUFFICES ASSUME NEW i \in 1..n + 1
                 PROVE  new[i].order = IF i = n + 1 THEN n + 1 ELSE Places(t)[i]
      OBVIOUS
    <3>1. CASE i = n + 1
      BY <1>3, <1>4, <3>1
    <3>2. CASE i # n + 1
      <4>1. i \in 1..n
        BY <3>2
      <4> QED
        BY <1>3, <1>6, <3>2, <4>1 DEF Places
    <3> QED
      BY <3>1, <3>2
  <2>3. Places(new) = [i \in 1..n + 1 |-> new[i].order]
    BY <1>6 DEF Places
  <2> QED
    BY <2>1, <2>2, <2>3
<1> QED
  BY <1>5, <1>7, <1>8, <1>9

(* The commit of an inversion exchanges two places. *)
LEMMA SwappedSongs ==
    ASSUME NEW t \in Table, NEW new, Len(new) = Len(t),
           NEW a \in SongId(t), NEW b \in SongId(t), ExchangesOrders(t, new, a, b)
    PROVE  Places(new) = [Places(t) EXCEPT ![a] = Places(t)[b], ![b] = Places(t)[a]]
<1>1. SongId(new) = SongId(t)
  BY DEF SongId
<1>2. \A i \in SongId(t) : Places(t)[i] = t[i].order
  BY DEF Places
<1>3. [Places(t) EXCEPT ![a] = Places(t)[b], ![b] = Places(t)[a]] =
      [i \in SongId(t) |-> IF i = a THEN t[b].order ELSE IF i = b THEN t[a].order ELSE t[i].order]
  BY <1>2 DEF Places
<1> QED
  BY <1>1, <1>3 DEF Places, ExchangesOrders

(* A step of the playlist, or none. *)
PlaylistStep == P!Next \/ UNCHANGED <<Playable(songs), Places(songs)>>

(* Most steps commit nothing. *)
LEMMA SameTable == ASSUME UNCHANGED songs PROVE PlaylistStep
BY DEF PlaylistStep

(* One removal, or none. *)
LEMMA RemovalStep ==
    ASSUME songs \in Table, NEW n, songs' = RemoveSong(songs, n)
    PROVE  PlaylistStep
<1>1. Playable(songs') = Playable(songs) \ {n}
  BY RemovedSong
<1>2. Places(songs') = Places(songs)
  BY RemoveSongUpdates, SamePlaces
<1>3. CASE n \in Playable(songs)
  BY <1>1, <1>2, <1>3 DEF PlaylistStep, P!Next, P!Leave
<1>4. CASE n \notin Playable(songs)
  BY <1>1, <1>2, <1>4 DEF PlaylistStep
<1> QED
  BY <1>3, <1>4

(* wipeDbSongs_ *)
LEMMA WipeStep ==
    ASSUME songs \in Table, songs' = WipeSongs(songs)
    PROVE  PlaylistStep
<1>1. Playable(songs') = {}
  BY WipeSongsUpdates, SameSongs DEF Playable
<1>2. Places(songs') = Places(songs)
  BY WipeSongsUpdates, SamePlaces
<1> QED
  BY <1>1, <1>2 DEF PlaylistStep, P!Next, P!Clear

(* postFile_: createSong *)
LEMMA InsertStep ==
    ASSUME IInv, NEW r \in Slot, PostInsert(r)
    PROVE  PlaylistStep
<1> DEFINE q == req[r]
<1>1. songs \in Table /\ RequestOK(q, Len(draft)) /\ q.pc = "insert"
  BY DEF IInv, TypeInv, RequestsOK, TablesOK, PostInsert
<1>2. q.user \in User /\ q.content \in Title /\ q.path \in Path /\ q.path # NoPath
  BY <1>1, NoPathAssumption DEF RequestOK, PostPC, Path
<1>3. songs' = CreateSong(songs, q.user, q.content, q.path)
  BY DEF PostInsert, CommitOutside
<1>4. /\ Playable(songs') = Playable(songs) \cup {Len(Places(songs)) + 1}
      /\ Places(songs') = Append(Places(songs), Len(Places(songs)) + 1)
  BY <1>1, <1>2, <1>3, CreatedSong
<1> QED
  BY <1>4 DEF PlaylistStep, P!Next, P!Add

(* swapSongs: COMMIT, of the draft as SwapInv describes it *)
LEMMA CommitStep ==
    ASSUME IInv, NEW r \in Slot, InvertCommit(r)
    PROVE  PlaylistStep
<1> DEFINE q == req[r]
<1>1. /\ songs \in Table /\ draft \in Table /\ Len(draft) = Len(songs)
      /\ RequestOK(q, Len(draft)) /\ q.pc = "commit" /\ SwapInv(q) /\ songs' = draft
  BY DEF IInv, TypeInv, RequestsOK, TablesOK, InvertCommit
<1>2. q.song \in SongId(songs) /\ q.other \in SongId(songs) /\ q.song # q.other
  BY <1>1 DEF RequestOK, InvertPC, SongId
<1>3. ExchangesOrders(songs, draft, q.song, q.other)
  BY <1>1 DEF SwapInv, ExchangesOrders
<1>4. Places(draft) = [Places(songs) EXCEPT ![q.song] = Places(songs)[q.other],
                                            ![q.other] = Places(songs)[q.song]]
  BY <1>1, <1>2, <1>3, SwappedSongs
<1>5. Playable(draft) \subseteq Playable(songs)
  BY <1>1 DEF IInv, GoneInv, Playable, SongId
<1>6. DOMAIN Places(songs) = SongId(songs)
  BY DEF Places
<1> QED
  BY <1>1, <1>2, <1>4, <1>5, <1>6 DEF PlaylistStep, P!Next, P!Exchange

(* Every step of Jukebox is one of the playlist, or none. *)
LEMMA NextPlaylist == IInv /\ [Next]_vars => PlaylistStep
<1> SUFFICES ASSUME IInv, [Next]_vars PROVE PlaylistStep
  OBVIOUS
<1>1. /\ songs \in Table /\ draft \in Table
      /\ txn.owner = NoSlot => draft = songs
  BY DEF IInv, TypeInv, TablesOK, LockInv
<1>2. ASSUME NEW r \in Slot, Arrive(r) PROVE PlaylistStep
  BY <1>2, SameTable DEF Arrive, PostStart, DeleteStart, AdminStart, InvertStart, Database
<1>3. ASSUME NEW r \in Slot, PostNext(r) PROVE PlaylistStep
  BY <1>3, InsertStep, SameTable
  DEF PostNext, PostFetch, PostName, PostWrite, PostHeader, PostCheck, PostDrop, Database
<1>4. ASSUME NEW r \in Slot, DeleteNext(r) PROVE PlaylistStep
  <2>1. CASE DeleteRemove(r)
    BY <1>1, <2>1, RemovalStep DEF DeleteRemove, CommitOutside
  <2> QED
    BY <1>4, <2>1, SameTable DEF DeleteNext, DeleteRead, DeleteHead, DeleteUnlink, Database
<1>5. ASSUME NEW r \in Slot, AdminNext(r) PROVE PlaylistStep
  <2>1. CASE AdminFlag(r)
    BY <1>1, <2>1, SameTable DEF AdminFlag, WriteInside, FlagSong
  <2>2. CASE AdminRemove(r)
    BY <1>1, <2>2, RemovalStep, SameTable DEF AdminRemove, WriteInside
  <2> QED
    BY <1>5, <2>1, <2>2, SameTable
    DEF AdminNext, AdminRead, AdminHead, AdminStop, AdminUnlink, AdminRefused, ReadInside, Database
<1>6. ASSUME NEW r \in Slot, InvertNext(r) PROVE PlaylistStep
  <2>1. CASE InvertUpdate1(r) \/ InvertUpdate2(r)
    <3>1. txn.owner = r /\ r # NoSlot
      BY <2>1, OneOwner, SlotAssumption DEF InvertUpdate1, InvertUpdate2, Swapping
    <3> QED
      BY <2>1, <3>1, SameTable DEF InvertUpdate1, InvertUpdate2, WriteInside
  <2>2. CASE InvertCommit(r)
    BY <2>2, CommitStep
  <2> QED
    BY <1>6, <2>1, <2>2, SameTable
    DEF InvertNext, InvertRead, InvertHead, InvertBegin, InvertSelect, InvertRollback, ReadInside, Database
<1>7. CASE PlayerNext
  <2>1. CASE PlayerRemove
    BY <1>1, <2>1, RemovalStep DEF PlayerRemove, CommitOutside
  <2> QED
    BY <1>7, <2>1, SameTable
    DEF PlayerNext, PlayerPoll, PlayerOpen, PlayerFinish, PlayerLookup, PlayerUnlink, Database
<1>8. CASE BootNext
  BY <1>1, <1>8, WipeStep, SameTable
  DEF BootNext, BootHttp, BootHttpsCache, BootHttpsDatabase, CommitOutside, Database
<1>9. CASE Restart
  BY <1>1, <1>9, WipeStep DEF Restart
<1>10. CASE DeliverStop \/ UNCHANGED vars
  BY <1>10, SameTable DEF DeliverStop, vars, Database
<1> QED
  BY <1>2, <1>3, <1>4, <1>5, <1>6, <1>7, <1>8, <1>9, <1>10 DEF Next, Serve

(* The servers and the player implement a playlist: whatever requests,        *)
(* transactions, songs and restarts overlap, a song comes in last, goes out   *)
(* once, and changes places with another only by an inversion.                *)
THEOREM PlaylistIsKept == Spec => ImplementsPlaylist
<1>1. Init => P!Init
  BY DEF Init, P!Init, Playable, Places, SongId
<1>2. IInv /\ [Next]_vars => [P!Next]_<<Playable(songs), Places(songs)>>
  BY NextPlaylist DEF PlaylistStep
<1>3. IInv /\ [Next]_vars => IInv'
  BY NextOrders DEF StepOK
<1> QED
  BY <1>1, <1>2, <1>3, InitOrders, PTL DEF Spec, ImplementsPlaylist, P!Spec

-----------------------------------------------------------------------------
(* The head of the queue.  While nothing is inverted a step removes songs or   *)
(* adds one behind all the others, so the song the player took from the head  *)
(* keeps the lowest place.                                                    *)

NoInversion == \A r \in Slot : req[r].pc \notin InvertPC

First(i) == i \in SongId(songs) /\ (songs[i].path # NoPath => i \in Heads(songs))

HeadInv ==
    /\ IInv
    /\ NoInversion
    /\ player.pc \in {"open", "play", "lookup", "remove"} => First(player.song)

(* Without an inversion no transaction is open. *)
LEMMA NoTransaction == ASSUME IInv, NoInversion PROVE txn.owner = NoSlot /\ draft = songs
<1>1. \A r \in Slot : req[r].pc \notin Swapping
  BY DEF NoInversion, Swapping, InvertPC
<1>2. txn.owner \in Slot \cup {NoSlot}
  BY DEF IInv, TypeInv, TablesOK
<1> QED
  BY <1>1, <1>2 DEF IInv, LockInv

(* An update of rows that keeps their places leaves the first song first. *)
LEMMA FirstUpdated ==
    ASSUME songs \in Table, NEW i, First(i), Updates(songs, songs'), KeepsOrders(songs, songs')
    PROVE  First(i)'
<1>1. SongId(songs') = SongId(songs)
  BY SameSongs
<1>2. Playable(songs') \subseteq Playable(songs)
  BY <1>1 DEF Playable, Updates
<1> QED
  BY <1>1, <1>2 DEF First, Heads, Playable, KeepsOrders, Updates

(* A new song comes behind the first. *)
LEMMA FirstAppended ==
    ASSUME IInv, NEW i, First(i), NEW r \in Slot, PostInsert(r)
    PROVE  First(i)'
<1> DEFINE q == req[r]
<1>1. /\ songs \in Table /\ OrdersDistinct(songs) /\ i \in SongId(songs)
      /\ RequestOK(q, Len(draft)) /\ q.pc = "insert"
  BY DEF IInv, TypeInv, RequestsOK, TablesOK, PostInsert, First
<1>2. q.user \in User /\ q.content \in Title /\ q.path \in Path
  BY <1>1 DEF RequestOK, PostPC, Path
<1>3. songs' = CreateSong(songs, q.user, q.content, q.path)
  BY DEF PostInsert, CommitOutside
<1>4. /\ Len(songs') = Len(songs) + 1 /\ Len(songs) \in Nat
      /\ \A j \in SongId(songs) : songs'[j] = songs[j]
      /\ songs'[Len(songs) + 1].order = Len(songs) + 1
  BY <1>1, <1>2, <1>3, CreateSongAppends DEF Table
<1>5. \A j \in SongId(songs') : j \in SongId(songs) \/ j = Len(songs) + 1
  BY <1>4 DEF SongId
<1>6. SongId(songs) \subseteq SongId(songs') /\ songs[i].order \in 1 .. Len(songs)
  BY <1>1, <1>4 DEF SongId, OrdersDistinct
<1>7. ASSUME songs'[i].path # NoPath, NEW j \in Playable(songs')
      PROVE  songs'[i].order <= songs'[j].order
  <2>1. CASE j \in SongId(songs)
    BY <1>1, <1>4, <1>7, <2>1 DEF First, Heads, Playable
  <2>2. CASE j = Len(songs) + 1
    BY <1>1, <1>4, <1>6, <2>2
  <2> QED
    BY <1>5, <1>7, <2>1, <2>2 DEF Playable
<1> QED
  BY <1>1, <1>6, <1>7 DEF First, Heads, Playable

(* A request that is no inversion does not become one. *)
LEMMA NoNewInversion ==
    ASSUME TypeInv, NoInversion, NEW r \in Slot, NEW q, q.pc \notin InvertPC,
           req' = [req EXCEPT ![r] = q]
    PROVE  NoInversion'
BY DEF NoInversion, TypeInv, RequestsOK

LEMMA StillNoInversion ==
    ASSUME NoInversion,
           \A s \in Slot : req'[s].pc = req[s].pc \/ req'[s].pc \notin InvertPC
    PROVE  NoInversion'
BY DEF NoInversion, InvertPC

LEMMA NoInversionServed ==
    ASSUME TypeInv, NoInversion, NEW r \in Slot, Serve(r)
    PROVE  NoInversion' /\ (PostNext(r) \/ DeleteNext(r) \/ AdminNext(r))
<1>1. req[r] \in Request /\ req \in [Slot -> Request]
  BY DEF TypeInv, RequestsOK
<1>2. ASSUME NEW pc \in PostPC \cup DeletePC \cup AdminPC, Goto(r, pc) PROVE NoInversion'
  <2>1. [req[r] EXCEPT !.pc = pc].pc \notin InvertPC
    BY <1>1 DEF Request, PostPC, DeletePC, AdminPC, InvertPC
  <2> QED
    BY <1>2, <2>1, NoNewInversion DEF Goto
<1>3. ASSUME Done(r) PROVE NoInversion'
  BY <1>3, NoNewInversion DEF Done, Idle, InvertPC
<1>4. ASSUME PostNext(r) PROVE NoInversion'
  <2>1. ASSUME PostFetch(r) \/ PostName(r) \/ PostHeader(r) PROVE NoInversion'
    <3>1. ASSUME PostFetch(r) PROVE NoInversion'
      <4>1. \A s \in Slot : req'[s].pc = req[s].pc
        BY <1>1, <3>1 DEF PostFetch, Request, InvertPC
      <4> QED
        BY <4>1, StillNoInversion
    <3>2. ASSUME PostName(r) PROVE NoInversion'
      <4>1. \A s \in Slot : req'[s].pc = req[s].pc \/ req'[s].pc \notin InvertPC
        BY <1>1, <3>2 DEF PostName, Request, InvertPC
      <4> QED
        BY <4>1, StillNoInversion
    <3>3. ASSUME PostHeader(r) PROVE NoInversion'
      <4>1. \A s \in Slot : req'[s].pc = req[s].pc \/ req'[s].pc \notin InvertPC
        BY <1>1, <3>3 DEF PostHeader, Request, InvertPC
      <4> QED
        BY <4>1, StillNoInversion
    <3> QED
      BY <2>1, <3>1, <3>2, <3>3
  <2> QED
    BY <1>2, <1>3, <1>4, <2>1 DEF PostNext, PostWrite, PostCheck, PostDrop, PostInsert, PostPC
<1>5. ASSUME DeleteNext(r) PROVE NoInversion'
  <2>1. ASSUME DeleteRead(r) PROVE NoInversion'
    <3>1. \A s \in Slot : req'[s].pc = req[s].pc \/ req'[s].pc \notin InvertPC
      BY <1>1, <2>1 DEF DeleteRead, Done, Idle, Request, InvertPC
    <3> QED
      BY <3>1, StillNoInversion
  <2> QED
    BY <1>2, <1>3, <1>5, <2>1 DEF DeleteNext, DeleteHead, DeleteRemove, DeleteUnlink, DeletePC
<1>6. ASSUME AdminNext(r) PROVE NoInversion'
  <2>1. ASSUME AdminRead(r) PROVE NoInversion'
    <3>1. \A s \in Slot : req'[s].pc = req[s].pc \/ req'[s].pc \notin InvertPC
      BY <1>1, <2>1 DEF AdminRead, Done, Idle, Request, InvertPC
    <3> QED
      BY <3>1, StillNoInversion
  <2> QED
    BY <1>2, <1>3, <1>6, <2>1
    DEF AdminNext, AdminFlag, AdminHead, AdminStop, AdminRemove, AdminUnlink, AdminRefused, AdminPC
<1>7. ~InvertNext(r)
  BY DEF NoInversion, InvertPC, InvertNext, InvertRead, InvertHead, InvertBegin, InvertSelect,
         InvertUpdate1, InvertUpdate2, InvertCommit, InvertRollback
<1> QED
  BY <1>4, <1>5, <1>6, <1>7 DEF Serve

(* The traffic has no inversions. *)
LEMMA NoInversionArrives ==
    ASSUME TypeInv, NoInversion, AtMost["invert"] = 0, NEW r \in Slot, Arrive(r)
    PROVE  NoInversion' /\ UNCHANGED <<songs, player>>
<1>1. Cardinality(Requests(InvertPC)) = 0
  <2>1. Requests(InvertPC) = {}
    BY DEF NoInversion, Requests
  <2> QED
    BY <2>1, FS_EmptySet
<1>2. \/ \E u \in User, content \in Uploads : PostStart(r, u, content)
      \/ \E u \in User, i \in SongId(songs) : DeleteStart(r, u, i)
      \/ \E i \in SongId(songs) : AdminStart(r, i)
  BY <1>1 DEF Arrive
<1>3. \A s \in Slot : req'[s].pc = req[s].pc \/ req'[s].pc \notin InvertPC
  <2>1. PICK pc \in {"name", "read", "adminRead"} :
           \E q : q.pc = pc /\ req' = [req EXCEPT ![r] = q]
    <3>1. ASSUME NEW u \in User, NEW content \in Uploads, PostStart(r, u, content)
          PROVE  \E q : q.pc = "name" /\ req' = [req EXCEPT ![r] = q]
      BY <3>1 DEF PostStart, Idle
    <3>2. ASSUME NEW u \in User, NEW i \in SongId(songs), DeleteStart(r, u, i)
          PROVE  \E q : q.pc = "read" /\ req' = [req EXCEPT ![r] = q]
      BY <3>2 DEF DeleteStart, Idle
    <3>3. ASSUME NEW i \in SongId(songs), AdminStart(r, i)
          PROVE  \E q : q.pc = "adminRead" /\ req' = [req EXCEPT ![r] = q]
      BY <3>3 DEF AdminStart, Idle
    <3> QED
      BY <1>2, <3>1, <3>2, <3>3
  <2> QED
    BY <2>1 DEF InvertPC, TypeInv, RequestsOK
<1>4. NoInversion'
  BY <1>3, StillNoInversion
<1> QED
  BY <1>2, <1>4 DEF PostStart, DeleteStart, AdminStart, Database, Elsewhere

(* A committed removal, or any other request's step. *)
LEMMA FirstServed ==
    ASSUME IInv, NoInversion, NEW r \in Slot, NEW i, First(i),
           PostNext(r) \/ DeleteNext(r) \/ AdminNext(r)
    PROVE  First(i)'
<1>1. songs \in Table /\ txn.owner = NoSlot /\ draft = songs /\ Updates(songs, songs)
  BY NoTransaction, UpdatesItself DEF IInv, TypeInv, TablesOK
<1>2. ASSUME UNCHANGED songs PROVE First(i)'
  BY <1>1, <1>2, FirstUpdated DEF KeepsOrders
<1>3. ASSUME NEW n, songs' = RemoveSong(songs, n) PROVE First(i)'
  BY <1>1, <1>3, RemoveSongUpdates, FirstUpdated
<1>4. CASE PostNext(r)
  BY <1>2, <1>4, FirstAppended
  DEF PostNext, PostFetch, PostName, PostWrite, PostHeader, PostCheck, PostDrop, Database
<1>5. CASE DeleteNext(r)
  BY <1>2, <1>3, <1>5
  DEF DeleteNext, DeleteRead, DeleteHead, DeleteRemove, DeleteUnlink, CommitOutside, Database
<1>6. CASE AdminNext(r)
  BY <1>1, <1>2, <1>3, <1>6
  DEF AdminNext, AdminRead, AdminFlag, AdminHead, AdminStop, AdminRemove, AdminUnlink,
      AdminRefused, WriteInside, ReadInside, FlagSong, Database
<1> QED
  BY <1>4, <1>5, <1>6

LEMMA NextHead == ASSUME AtMost["invert"] = 0, HeadInv, [Next]_vars PROVE HeadInv'
<1>1. IInv /\ NoInversion /\ TypeInv /\ PlayerOK /\ songs \in Table /\ Updates(songs, songs)
  BY UpdatesItself DEF HeadInv, IInv, TypeInv, TablesOK
<1>2. IInv'
  BY <1>1, NextOrders DEF StepOK
<1> DEFINE Holds(p) == p.pc \in {"open", "play", "lookup", "remove"}
<1>3. Holds(player) => First(player.song)
  BY DEF HeadInv
<1>4. ASSUME NEW i, First(i), UNCHANGED songs PROVE First(i)'
  BY <1>1, <1>4, FirstUpdated DEF KeepsOrders
<1>5. ASSUME NEW r \in Slot, Arrive(r) \/ Serve(r) PROVE HeadInv'
  <2>1. CASE Arrive(r)
    BY <1>1, <1>2, <1>3, <1>4, <2>1, NoInversionArrives DEF HeadInv
  <2>2. CASE Serve(r)
    <3>1. NoInversion' /\ (PostNext(r) \/ DeleteNext(r) \/ AdminNext(r))
      BY <1>1, <2>2, NoInversionServed
    <3>2. player' = player
      BY <3>1 DEF PostNext, PostFetch, PostName, PostWrite, PostHeader, PostCheck, PostDrop,
           PostInsert, DeleteNext, DeleteRead, DeleteHead, DeleteRemove, DeleteUnlink, AdminNext,
           AdminRead, AdminFlag, AdminHead, AdminStop, AdminRemove, AdminUnlink, AdminRefused, Elsewhere
    <3> QED
      BY <1>1, <1>2, <1>3, <3>1, <3>2, FirstServed DEF HeadInv
  <2> QED
    BY <1>5, <2>1, <2>2
<1>6. CASE PlayerNext
  <2>1. req' = req /\ NoInversion'
    BY <1>1, <1>6 DEF NoInversion, PlayerNext, PlayerPoll, PlayerOpen, PlayerFinish, PlayerLookup,
                      PlayerRemove, PlayerUnlink
  <2>2. CASE PlayerPoll
    <3>1. PICK h \in Heads(songs) :
             player' = [IdlePlayer EXCEPT !.pc = "open", !.song = h, !.path = songs[h].path]
      BY <2>2 DEF PlayerPoll
    <3>2. player'.song = h /\ songs' = songs
      BY <2>2, <3>1 DEF IdlePlayer, PlayerPoll, Database
    <3>3. First(h)
      BY DEF First, Heads, Playable
    <3> QED
      BY <1>2, <1>4, <2>1, <3>2, <3>3 DEF HeadInv
  <2>3. CASE PlayerRemove
    BY <1>2, <2>1, <2>3, <1>1 DEF HeadInv, PlayerRemove, PlayerOK
  <2>4. CASE PlayerOpen \/ PlayerFinish \/ PlayerLookup
    <3>1. player'.song = player.song /\ Holds(player) /\ songs' = songs
      BY <1>1, <2>4 DEF PlayerOpen, PlayerFinish, PlayerLookup, PlayerOK, Database
    <3> QED
      BY <1>2, <1>3, <1>4, <2>1, <3>1 DEF HeadInv
  <2>5. CASE PlayerUnlink
    BY <1>2, <2>1, <2>5 DEF HeadInv, PlayerUnlink, IdlePlayer
  <2> QED
    BY <1>6, <2>2, <2>3, <2>4, <2>5 DEF PlayerNext
<1>7. CASE DeliverStop
  <2>1. /\ songs' = songs /\ req' = req
        /\ player'.song = player.song /\ (Holds(player)' => Holds(player))
    BY <1>1, <1>7 DEF DeliverStop, PlayerOK, Database
  <2> QED
    BY <1>1, <1>2, <1>3, <1>4, <2>1 DEF HeadInv, NoInversion
<1>8. CASE BootNext
  <2>1. req' = req /\ player' = player
    BY <1>8 DEF BootNext, BootHttp, BootHttpsCache, BootHttpsDatabase
  <2>2. CASE BootHttp \/ BootHttpsDatabase
    <3>1. songs' = WipeSongs(songs)
      BY <2>2 DEF BootHttp, BootHttpsDatabase, CommitOutside
    <3>2. ASSUME NEW i, First(i) PROVE First(i)'
      BY <1>1, <3>1, <3>2, WipeSongsUpdates, FirstUpdated
    <3> QED
      BY <1>1, <1>2, <1>3, <2>1, <3>2 DEF HeadInv, NoInversion
  <2>3. CASE BootHttpsCache
    BY <1>1, <1>2, <1>3, <1>4, <2>1, <2>3 DEF HeadInv, NoInversion, BootHttpsCache, Database
  <2> QED
    BY <1>8, <2>2, <2>3 DEF BootNext
<1>9. CASE Restart
  BY <1>2, <1>9 DEF HeadInv, NoInversion, Restart, Idle, IdlePlayer, InvertPC
<1>10. CASE UNCHANGED vars
  BY <1>1, <1>2, <1>3, <1>4, <1>10 DEF HeadInv, NoInversion, vars
<1> QED
  BY <1>5, <1>6, <1>7, <1>8, <1>9, <1>10 DEF Next

(* As long as nobody inverts songs, the song the player has is the head of    *)
(* the queue until it leaves it: the head which deleteFile_ refuses to delete, *)
(* and deleteSuperviseurChanson_ to delete without a stop, is the one that    *)
(* plays.                                                                     *)
THEOREM HeadIsPlayed == ASSUME AtMost["invert"] = 0 PROVE Spec => []PlayingIsFirst
<1>1. Init => HeadInv
  BY InitOrders DEF Init, HeadInv, NoInversion, Idle, IdlePlayer, InvertPC
<1>2. HeadInv => PlayingIsFirst
  <2> SUFFICES ASSUME HeadInv, player.pc \in {"open", "play", "lookup", "remove"},
                      songs[player.song].path # NoPath
               PROVE  Heads(songs) = {player.song}
    BY DEF PlayingIsFirst
  <2>1. player.song \in Heads(songs) /\ OrdersDistinct(songs)
    BY DEF HeadInv, First, IInv
  <2>2. \A i, j \in Heads(songs) : songs[i].order <= songs[j].order
    BY DEF Heads
  <2>3. \A i \in Heads(songs) : i \in SongId(songs) /\ songs[i].order \in Nat
    BY RowOfTable DEF Heads, Playable, HeadInv, IInv, TypeInv, TablesOK
  <2>4. \A i \in Heads(songs) : songs[i].order = songs[player.song].order
    BY <2>1, <2>2, <2>3
  <2> QED
    BY <2>1, <2>3, <2>4 DEF OrdersDistinct
<1>3. HeadInv /\ [Next]_vars => HeadInv'
  BY NextHead
<1> QED
  BY <1>1, <1>2, <1>3, PTL DEF Spec

-----------------------------------------------------------------------------
(* Base64.  For a body of any length: the padding tells Decode where to     *)
(* stop, or the length is a multiple of four and the byte of a4 the last    *)
(* extraction leaves stale is not written.                                  *)

(* Of the text a full or partial group of three bytes leaves. *)
TextOf(length) == 4 * (length \div 3) + (IF length % 3 = 0 THEN 0 ELSE (length % 3) + 1)

(* Every digit has a character, which is no '=' and is looked up as that digit. *)
LEMMA LookupOfAlphabet ==
    ASSUME NEW d \in Digit
    PROVE  /\ kBase64Alphabet(d) \in Byte
           /\ kBase64Alphabet(d) # Pad
           /\ b64_lookup(kBase64Alphabet(d)) = d
<1>1. CASE d < 26
  <2>1. kBase64Alphabet(d) = d + 65
    BY <1>1 DEF kBase64Alphabet, Digit
  <2> QED BY <1>1, <2>1 DEF b64_lookup, Digit, Byte, Pad
<1>2. CASE d \in 26 .. 51
  <2>1. kBase64Alphabet(d) = d + 71
    BY <1>2 DEF kBase64Alphabet, Digit
  <2> QED BY <1>2, <2>1 DEF b64_lookup, Digit, Byte, Pad
<1>3. CASE d \in 52 .. 61
  <2>1. kBase64Alphabet(d) = d - 4
    BY <1>3 DEF kBase64Alphabet, Digit
  <2> QED BY <1>3, <2>1 DEF b64_lookup, Digit, Byte, Pad
<1>4. CASE d = 62
  BY <1>4 DEF kBase64Alphabet, b64_lookup, Digit, Byte, Pad
<1>5. CASE d = 63
  BY <1>5 DEF kBase64Alphabet, b64_lookup, Digit, Byte, Pad
<1> QED BY <1>1, <1>2, <1>3, <1>4, <1>5 DEF Digit

(* b64_lookup answers a byte, whatever it is asked. *)
LEMMA LookupIsByte ==
    ASSUME NEW c
    PROVE  b64_lookup(c) \in Byte
BY DEF b64_lookup, Byte

(* The four parts of three bytes are digits. *)
LEMMA FourDigits ==
    ASSUME NEW a3 \in [1 .. 3 -> Byte], NEW j \in 1 .. 4
    PROVE  a3_to_a4(a3)[j] \in Digit
<1> DEFINE a == a3[1]  b == a3[2]  c == a3[3]
<1>1. a \in 0 .. 255 /\ b \in 0 .. 255 /\ c \in 0 .. 255
  BY DEF Byte
<1> HIDE DEF a, b, c
<1>2. a \div 4 \in Digit /\ (a % 4) * 16 + (b \div 16) \in Digit
  BY <1>1 DEF Digit
<1>3. (b % 16) * 4 + (c \div 64) \in Digit /\ c % 64 \in Digit
  BY <1>1 DEF Digit
<1> QED BY <1>2, <1>3 DEF a3_to_a4, a, b, c

(* Each byte of a group comes back from the two digits it was spread over, *)
(* whatever the other two hold.                                            *)
LEMMA ByteFromTwoDigits ==
    ASSUME NEW a3 \in [1 .. 3 -> Byte], NEW a4 \in [1 .. 4 -> Byte], NEW j \in 1 .. 3,
           a4[j] = a3_to_a4(a3)[j], a4[j + 1] = a3_to_a4(a3)[j + 1]
    PROVE  a4_to_a3(a4)[j] = a3[j]
<1> DEFINE a == a3[1]  b == a3[2]  c == a3[3]
           d == a4[1]  e == a4[2]  f == a4[3]  g == a4[4]
<1>1. a \in 0 .. 255 /\ b \in 0 .. 255 /\ c \in 0 .. 255
  BY DEF Byte
<1>2. d \in 0 .. 255 /\ e \in 0 .. 255 /\ f \in 0 .. 255 /\ g \in 0 .. 255
  BY DEF Byte
<1>3. CASE j = 1
  <2>1. d = a \div 4 /\ e = (a % 4) * 16 + (b \div 16)
    BY <1>3 DEF a3_to_a4
  <2>2. a4_to_a3(a4)[j] = (d * 4 + ((e % 64) \div 16)) % 256
    BY <1>3 DEF a4_to_a3
  <2> HIDE DEF a, b, c, d, e, f, g
  <2>3. (d * 4 + ((e % 64) \div 16)) % 256 = a
    BY <1>1, <1>2, <2>1
  <2> QED BY <2>2, <2>3, <1>3 DEF a
<1>4. CASE j = 2
  <2>1. e = (a % 4) * 16 + (b \div 16) /\ f = (b % 16) * 4 + (c \div 64)
    BY <1>4 DEF a3_to_a4
  <2>2. a4_to_a3(a4)[j] = ((e % 16) * 16 + ((f % 64) \div 4)) % 256
    BY <1>4 DEF a4_to_a3
  <2> HIDE DEF a, b, c, d, e, f, g
  <2>3. e % 16 = b \div 16 /\ (f % 64) \div 4 = b % 16
    <3> DEFINE w == a % 4  x == b \div 16  y == b % 16  z == c \div 64
    <3>1. w \in 0 .. 3 /\ x \in 0 .. 15 /\ y \in 0 .. 15 /\ z \in 0 .. 3
      BY <1>1
    <3>2. e = w * 16 + x /\ f = y * 4 + z
      BY <2>1
    <3> HIDE DEF w, x, y, z
    <3>3. e % 16 = x /\ f % 64 = f /\ f \div 4 = y
      BY <3>1, <3>2
    <3> QED BY <3>3 DEF x, y
  <2>4. ((e % 16) * 16 + ((f % 64) \div 4)) % 256 = b
    <3> DEFINE u == e % 16  v == (f % 64) \div 4
    <3>1. u = b \div 16 /\ v = b % 16
      BY <2>3
    <3> HIDE DEF u, v
    <3>2. (u * 16 + v) % 256 = b
      BY <1>1, <3>1
    <3> QED BY <3>2 DEF u, v
  <2> QED BY <2>2, <2>4, <1>4 DEF b
<1>5. CASE j = 3
  <2>1. f = (b % 16) * 4 + (c \div 64) /\ g = c % 64
    BY <1>5 DEF a3_to_a4
  <2>2. a4_to_a3(a4)[j] = ((f % 4) * 64 + g) % 256
    BY <1>5 DEF a4_to_a3
  <2> HIDE DEF a, b, c, d, e, f, g
  <2>3. ((f % 4) * 64 + g) % 256 = c
    BY <1>1, <1>2, <2>1
  <2> QED BY <2>2, <2>3, <1>5 DEF c
<1> QED BY <1>3, <1>4, <1>5

TextFits(length) ==
    /\ EncodedLength(length) \in Nat
    /\ TextOf(length) \in 0 .. EncodedLength(length)
    /\ length % 3 = 0 => TextOf(length) = EncodedLength(length)
    /\ length % 3 # 0 => TextOf(length) < EncodedLength(length)
    /\ \A k \in 1 .. EncodedLength(length) :
          (3 * ((k - 1) \div 4) + ((k - 1) % 4) <= length) <=> (k <= TextOf(length))

(* The length of the output, and which of its characters are text. *)
LEMMA TextOrPad ==
    ASSUME NEW length \in Nat
    PROVE  TextFits(length)
<1> DEFINE q == length \div 3  r == length % 3
<1>1. q \in Nat /\ r \in 0 .. 2 /\ length = 3 * q + r
  OBVIOUS
<1>2. EncodedLength(length) = 4 * q + (IF r = 0 THEN 0 ELSE 4)
  BY <1>1 DEF EncodedLength
<1>3. TextOf(length) = 4 * q + (IF r = 0 THEN 0 ELSE r + 1)
  BY DEF TextOf
<1> HIDE DEF q, r
<1>4. ASSUME NEW k \in 1 .. EncodedLength(length)
      PROVE  (3 * ((k - 1) \div 4) + ((k - 1) % 4) <= length) <=> (k <= TextOf(length))
  <2> DEFINE g == (k - 1) \div 4  j == (k - 1) % 4
  <2>1. g \in Nat /\ j \in 0 .. 3 /\ k = 4 * g + j + 1
    BY <1>1, <1>2
  <2> HIDE DEF g, j
  <2>2. (3 * g + j <= length) <=> (k <= TextOf(length))
    BY <1>1, <1>2, <1>3, <2>1
  <2> QED BY <2>2 DEF g, j
<1>5. EncodedLength(length) \in Nat /\ TextOf(length) \in 0 .. EncodedLength(length)
  BY <1>1, <1>2, <1>3
<1>6. /\ r = 0 => TextOf(length) = EncodedLength(length)
      /\ r # 0 => TextOf(length) < EncodedLength(length)
  BY <1>1, <1>2, <1>3
<1> QED BY <1>4, <1>5, <1>6 DEF TextFits, r

(* A group is three bytes. *)
LEMMA GroupOfBytes ==
    ASSUME NEW in \in Seq(Byte), NEW group \in Nat
    PROVE  A3(in, group) \in [1 .. 3 -> Byte]
<1>1. ASSUME NEW j \in 1 .. 3, 3 * group + j <= Len(in)
      PROVE  in[3 * group + j] \in Byte
  BY <1>1
<1> QED BY <1>1 DEF A3, Byte

(* A character of the text, looked up, is the digit it was made of; the others are '='. *)
LEMMA EncodedCharacter ==
    ASSUME NEW in \in Seq(Byte), NEW k \in 1 .. EncodedLength(Len(in))
    PROVE  /\ k <= TextOf(Len(in)) =>
                 /\ Encode(in)[k] # Pad
                 /\ b64_lookup(Encode(in)[k]) = a3_to_a4(A3(in, (k - 1) \div 4))[((k - 1) % 4) + 1]
           /\ k > TextOf(Len(in)) => Encode(in)[k] = Pad
<1> DEFINE g == (k - 1) \div 4  j == (k - 1) % 4
           d == a3_to_a4(A3(in, g))[j + 1]
<1>0. Len(in) \in Nat /\ TextFits(Len(in))
  BY TextOrPad
<1>1. EncodedLength(Len(in)) \in Nat /\ k \in Nat \ {0} /\ TextOf(Len(in)) \in Nat
  BY <1>0 DEF TextFits
<1>2. g \in Nat /\ j \in 0 .. 3
  BY <1>1
<1>3. Encode(in)[k] = IF 3 * g + j <= Len(in) THEN kBase64Alphabet(d) ELSE Pad
  BY DEF Encode
<1>4. (3 * g + j <= Len(in)) <=> (k <= TextOf(Len(in)))
  BY <1>0 DEF TextFits
<1>5. d \in Digit
  <2>1. A3(in, g) \in [1 .. 3 -> Byte] /\ j + 1 \in 1 .. 4
    BY <1>2, GroupOfBytes
  <2> HIDE DEF g, j
  <2> QED BY <2>1, FourDigits
<1>6. kBase64Alphabet(d) # Pad /\ b64_lookup(kBase64Alphabet(d)) = d
  <2> HIDE DEF d
  <2> QED BY <1>5, LookupOfAlphabet
<1>7. k > TextOf(Len(in)) <=> ~(k <= TextOf(Len(in)))
  BY <1>1
<1> HIDE DEF d
<1> QED BY <1>3, <1>4, <1>6, <1>7 DEF d

TextFound(in) ==
    /\ TextLength(Encode(in)) = TextOf(Len(in))
    /\ Extractions(Encode(in)) = TextOf(Len(in)) + (IF Len(in) % 3 = 0 THEN 1 ELSE 0)

(* The first '=' follows the text. *)
LEMMA TextLengthOfEncoded ==
    ASSUME NEW in \in Seq(Byte)
    PROVE  TextFound(in)
<1> DEFINE E == Encode(in)  n == EncodedLength(Len(in))  t == TextOf(Len(in))
<1>1. n \in Nat /\ t \in 0 .. n /\ (Len(in) % 3 = 0 => t = n) /\ (Len(in) % 3 # 0 => t < n)
  <2>1. Len(in) \in Nat /\ TextFits(Len(in))
    BY TextOrPad
  <2> QED BY <2>1 DEF TextFits
<1>2. Len(E) = n
  BY <1>1 DEF Encode
<1>3. \A k \in 1 .. n : E[k] = Pad <=> k > t
  BY <1>1, EncodedCharacter
<1> HIDE DEF E, n, t
<1>4. Padding(E) = {k \in 1 .. n : k > t}
  BY <1>2, <1>3 DEF Padding
<1>5. CASE Len(in) % 3 = 0
  <2>1. Padding(E) = {}
    BY <1>1, <1>4, <1>5
  <2> QED BY <1>1, <1>2, <1>5, <2>1 DEF TextFound, TextLength, Extractions, E, t
<1>6. CASE Len(in) % 3 # 0
  <2>1. t + 1 \in Padding(E) /\ \A l \in Padding(E) : t + 1 <= l
    BY <1>1, <1>4, <1>6
  <2>2. \A k \in Padding(E) : k \in Nat
    BY <1>4, <1>1
  <2> DEFINE first == CHOOSE k \in Padding(E) : \A l \in Padding(E) : k <= l
  <2>3. first \in Padding(E) /\ \A l \in Padding(E) : first <= l
    BY <2>1
  <2>4. first = t + 1
    <3> HIDE DEF first
    <3> QED BY <1>1, <2>1, <2>2, <2>3
  <2>5. TextLength(E) = first - 1
    BY <2>1 DEF TextLength
  <2> HIDE DEF first
  <2>6. TextLength(E) = t
    BY <1>1, <2>4, <2>5
  <2> QED BY <1>1, <1>6, <2>1, <2>6 DEF TextFound, Extractions, E, t
<1> QED BY <1>5, <1>6

(* As many bytes are written as were encoded, whether the end of the text is *)
(* found by its length or by an extraction that fails.                       *)
LEMMA WrittenLengthOfEncoded ==
    ASSUME NEW in \in Seq(Byte),
           NEW taken \in {TextLength(Encode(in)), Extractions(Encode(in))}
    PROVE  WrittenLength(taken) = Len(in)
<1> DEFINE q == Len(in) \div 3  r == Len(in) % 3
<1>1. Len(in) \in Nat
  OBVIOUS
<1>2. q \in Nat /\ r \in 0 .. 2 /\ Len(in) = 3 * q + r
  BY <1>1
<1>3. taken = 4 * q + r + 1 \/ (r = 0 /\ taken = 4 * q)
  <2>1. taken = TextOf(Len(in)) \/ taken = TextOf(Len(in)) + (IF r = 0 THEN 1 ELSE 0)
    BY TextLengthOfEncoded DEF TextFound
  <2>2. TextOf(Len(in)) = 4 * q + (IF r = 0 THEN 0 ELSE r + 1)
    BY DEF TextOf
  <2> HIDE DEF q, r
  <2> QED BY <1>2, <2>1, <2>2
<1> HIDE DEF q, r
<1>4. \/ taken \div 4 = q /\ taken % 4 = r + 1
      \/ r = 0 /\ taken \div 4 = q /\ taken % 4 = 0
  BY <1>2, <1>3
<1>5. WrittenLength(taken) = 3 * q + r
  BY <1>2, <1>4 DEF WrittenLength
<1> QED BY <1>2, <1>5

(* The loop of Decode gives back what was encoded, whatever the byte of a4 *)
(* that no extraction set holds.                                           *)
LEMMA TakenRoundTrip ==
    ASSUME NEW in \in Seq(Byte), NEW stale \in Byte,
           NEW taken \in {TextLength(Encode(in)), Extractions(Encode(in))}
    PROVE  DecodeTaken(Encode(in), taken, stale) = in
<1> DEFINE E == Encode(in)
<1>1. WrittenLength(taken) = Len(in)
  BY WrittenLengthOfEncoded
<1>2. ASSUME NEW k \in 1 .. Len(in)
      PROVE  a4_to_a3(A4(E, taken, stale, (k - 1) \div 3))[((k - 1) % 3) + 1] = in[k]
  <2> DEFINE g == (k - 1) \div 3  j == ((k - 1) % 3) + 1
             a3 == A3(in, g)  a4 == A4(E, taken, stale, g)
  <2>1. g \in Nat /\ j \in 1 .. 3 /\ k = 3 * g + j
    OBVIOUS
  <2> HIDE DEF g, j
  <2>2. a3 \in [1 .. 3 -> Byte]
    BY <2>1, GroupOfBytes
  <2>3. a3[j] = in[k]
    BY <2>1 DEF A3
  <2>4. a4 \in [1 .. 4 -> Byte]
    BY LookupIsByte DEF A4
  <2>5. ASSUME NEW i \in {j, j + 1}
        PROVE  a4[i] = a3_to_a4(a3)[i]
    <3> DEFINE p == 4 * g + i
    <3>1. i \in 1 .. 4 /\ p \in Nat
      BY <2>1
    <3>2. (p - 1) \div 4 = g /\ ((p - 1) % 4) + 1 = i
      BY <2>1, <3>1
    <3>3. p <= TextOf(Len(in)) /\ p \in 1 .. EncodedLength(Len(in))
      <4> DEFINE q == Len(in) \div 3  r == Len(in) % 3
      <4>1. q \in Nat /\ r \in 0 .. 2 /\ Len(in) = 3 * q + r
        OBVIOUS
      <4>2. TextOf(Len(in)) = 4 * q + (IF r = 0 THEN 0 ELSE r + 1)
        BY DEF TextOf
      <4>3. TextOf(Len(in)) <= EncodedLength(Len(in)) /\ EncodedLength(Len(in)) \in Nat
        <5>1. Len(in) \in Nat /\ TextFits(Len(in))
          BY TextOrPad
        <5> QED BY <5>1 DEF TextFits
      <4> HIDE DEF q, r
      <4>4. 3 * g + j <= 3 * q + r
        BY <2>1, <4>1
      <4>5. 4 * g + j + 1 <= 4 * q + (IF r = 0 THEN 0 ELSE r + 1)
        BY <2>1, <4>1, <4>4
      <4>6. p <= TextOf(Len(in))
        BY <2>1, <4>1, <4>2, <4>5
      <4> QED BY <2>1, <4>1, <4>2, <4>3, <4>6
    <3> HIDE DEF p
    <3>4. b64_lookup(E[p]) = a3_to_a4(a3)[i]
      BY <3>2, <3>3, EncodedCharacter
    <3>5. Character(E, taken, stale, p) = E[p]
      <4>1. TextLength(E) = TextOf(Len(in))
        BY TextLengthOfEncoded DEF TextFound
      <4> HIDE DEF E
      <4> QED BY <3>3, <4>1 DEF Character
    <3>6. a4[i] = b64_lookup(Character(E, taken, stale, p))
      BY <3>1 DEF A4, p
    <3> QED BY <3>4, <3>5, <3>6
  <2>6. a4_to_a3(a4)[j] = a3[j]
    <3> HIDE DEF a3, a4
    <3> QED BY <2>1, <2>2, <2>4, <2>5, ByteFromTwoDigits
  <2> QED BY <2>3, <2>6 DEF g, j
<1>3. DecodeTaken(E, taken, stale) = [k \in 1 .. Len(in) |-> in[k]]
  BY <1>1, <1>2 DEF DecodeTaken
<1> QED BY <1>3

(* Base64.hpp, Encode and Decode of a stream: a body comes back as it was, *)
(* whatever the byte of a4 that no extraction set holds.                   *)
THEOREM RoundTrip ==
    ASSUME NEW in \in Seq(Byte), NEW stale \in Byte
    PROVE  Decode(Encode(in), stale) = in
BY TakenRoundTrip DEF Decode

(* The lengths Decode foresees are those of what was encoded. *)
LEMMA DecodedLengthOfEncoded ==
    ASSUME NEW in \in Seq(Byte)
    PROVE  DecodedLength(Encode(in)) = Len(in)
<1> DEFINE E == Encode(in)  n == EncodedLength(Len(in))  t == TextOf(Len(in))
           q == Len(in) \div 3  r == Len(in) % 3
           T == {0} \cup {k \in 1 .. Len(E) : E[k] # Pad}
<1>1. n \in Nat /\ t \in 0 .. n /\ (r = 0 => t = n) /\ (r # 0 => t < n)
  <2>1. Len(in) \in Nat /\ TextFits(Len(in))
    BY TextOrPad
  <2> QED BY <2>1 DEF TextFits
<1>2. Len(E) = n
  BY <1>1 DEF Encode
<1>3. \A k \in 1 .. n : E[k] = Pad <=> k > t
  BY <1>1, EncodedCharacter
<1>4. q \in Nat /\ r \in 0 .. 2 /\ Len(in) = 3 * q + r
  OBVIOUS
<1>5. n = 4 * q + (IF r = 0 THEN 0 ELSE 4) /\ t = 4 * q + (IF r = 0 THEN 0 ELSE r + 1)
  BY <1>4 DEF EncodedLength, TextOf
<1> HIDE DEF E, n, t, q, r
<1>6. t \in T /\ \A k \in T : k \in Int /\ t >= k
  BY <1>1, <1>2, <1>3
<1>7. TextEnd(E) = t
  <2>1. TextEnd(E) = Max(T)
    BY DEF TextEnd
  <2> DEFINE max == Max(T)
  <2> HIDE DEF T
  <2>2. max \in T /\ max >= t
    BY <1>6 DEF Max
  <2>3. max \in Int /\ t >= max
    BY <1>6, <2>2
  <2> HIDE DEF max
  <2>4. max = t
    BY <1>1, <2>2, <2>3
  <2> QED BY <2>1, <2>4 DEF max
<1>8. (6 * n) \div 8 - (n - t) = 3 * q + r
  BY <1>1, <1>4, <1>5
<1> QED BY <1>2, <1>4, <1>7, <1>8 DEF DecodedLength, E

(* Base64.hpp, Encode and Decode of a string: the text comes back, and the *)
(* output that was resized to DecodedLength is neither too short for the    *)
(* bytes written to it nor too long.                                        *)
THEOREM StringRoundTrip ==
    ASSUME NEW in \in Seq(Byte), in # <<>>
    PROVE  DecodeString(Encode(in)) = [done |-> TRUE, out |-> in]
<1>1. DecodeTaken(Encode(in), TextLength(Encode(in)), 0) = in
  BY TakenRoundTrip DEF Byte
<1>2. [k \in 1 .. Len(in) |-> IF k <= Len(in) THEN in[k] ELSE 0] = in
  OBVIOUS
<1>3. DecodedLength(Encode(in)) = Len(in)
  BY DecodedLengthOfEncoded
<1> QED BY <1>1, <1>2, <1>3, Zenon DEF DecodeString
=============================================================================
