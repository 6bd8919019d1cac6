------------------------------- MODULE Jukebox -------------------------------
(***************************************************************************)
(* The song queue of the Elevation server: the songs table of server.db and *)
(* the cache directory, shared by three processes.                          *)
(*                                                                          *)
(*   http server    users post and delete songs            (RestApi.cpp)    *)
(*   https server   the administrator deletes and swaps songs               *)
(*                                           (FileManagementApi.cpp)        *)
(*   player         plays the head of the queue, then removes it            *)
(*                                      (Mp3AutoPlayerCallbacks.cpp)        *)
(*                                                                          *)
(* Every request runs on a thread of its own; a step of this module is one  *)
(* SQL statement, one file operation or one message, so the steps of        *)
(* different threads and processes interleave.  The https server's threads  *)
(* share one SQLite connection, and with it the transaction swapSongs opens *)
(* on it: "draft" is the table as that connection reads it, "songs" the     *)
(* committed table the other processes read.                                *)
(***************************************************************************)
EXTENDS SongTable, FileStore, FiniteSets

CONSTANTS Slot,               \* request threads
          NoSlot,             \* no thread
          NotMp3,             \* a body with no ID3 tag
          MAX_SONG_PER_USER,  \* RestApi.hpp
          AtMost,             \* bound: requests of each kind in flight together
          Uploads,            \* bound: the bodies that are posted
          DistinctSeconds,    \* assume no user's two posts are named in one second
          MaxSongs,           \* bound: rows of the table
          MaxSecond,          \* bound: seconds in which one user's posts are named
          MaxStops,           \* bound: StopSongEvents on their way to the player
          MaxRestarts         \* bound: restarts of the whole server

ASSUME SlotAssumption == NoSlot \notin Slot
ASSUME LimitAssumption == MAX_SONG_PER_USER \in Nat \ {0}
ASSUME AtMostAssumption == AtMost \in [{"post", "delete", "admin", "invert"} -> Nat]
ASSUME UploadsAssumption == Uploads \subseteq Title \cup {NotMp3}
ASSUME NotMp3Assumption == NotMp3 \notin Title
ASSUME BoundAssumption == {MaxSongs, MaxSecond, MaxStops, MaxRestarts} \subseteq Nat

VARIABLES songs,     \* the committed songs table
          draft,     \* the table as the https server's connection reads it
          txn,       \* the transaction open on that connection
          cache,     \* the cache directory
          req,       \* Slot -> the request a thread is serving
          second,    \* User -> the seconds that have named one of its posts
          player,    \* the player's loop
          stops,     \* StopSongEvents in flight, each with the song it is meant for
          boot,      \* how far the start script has come
          restarts   \* restarts so far

vars == <<songs, draft, txn, cache, req, second, player, stops, boot, restarts>>

-----------------------------------------------------------------------------
(* State *)

Content == Title \cup {NotMp3}

PostPC   == {"name", "write", "header", "check", "drop", "insert"}
DeletePC == {"read", "head", "remove", "unlink"}
AdminPC  == {"adminRead", "flag", "adminHead", "stop", "adminRemove", "adminUnlink"}
InvertPC == {"read1", "read2", "invertHead", "begin", "select",
             "update1", "update2", "commit"}

Request == [pc      : {"idle"} \cup PostPC \cup DeletePC \cup AdminPC \cup InvertPC,
            user    : User \cup {NoSlot},
            song    : Nat,           \* the song asked for
            other   : Nat,           \* the song to swap it with
            content : Content,       \* the posted body, then the title of its header
            path    : Path,          \* the file's name, or the path column read
            titles  : SUBSET Title,  \* titles of the user's songs, as fetched
            count   : Nat,           \* number of the user's songs, as fetched
            fetched : BOOLEAN,
            order1  : Nat,           \* orders read by swapSongs
            order2  : Nat]

Idle == [pc |-> "idle", user |-> NoSlot, song |-> NoSong, other |-> NoSong,
         content |-> NotMp3, path |-> NoPath, titles |-> {}, count |-> 0,
         fetched |-> FALSE, order1 |-> 0, order2 |-> 0]

NoTxn == [owner |-> NoSlot, shared |-> FALSE, wrote |-> FALSE]

(* "missing" stands for a file the player could not open. *)
IdlePlayer == [pc |-> "poll", song |-> NoSong, target |-> NoSong,
               path |-> NoPath, heard |-> NotMp3]

HttpUp  == boot \in {"httpsCache", "httpsDatabase", "done"}
HttpsUp == boot = "done"

Goto(r, pc) == req' = [req EXCEPT ![r].pc = pc]
Done(r) == req' = [req EXCEPT ![r] = Idle]
Requests(pcs) == {r \in Slot : req[r].pc \in pcs}

(* What the request leaves alone besides the tables, the cache and itself. *)
Elsewhere == <<second, player, stops, boot, restarts>>
Database == <<songs, draft, txn>>

-----------------------------------------------------------------------------
(* SQLite.  A statement of the http server or of the player commits by      *)
(* itself; its commit waits while the https connection's transaction holds  *)
(* a lock on the file (the busy handler always answers "retry").            *)

CommitOutside(table) ==
    /\ ~txn.shared
    /\ songs' = table
    /\ draft' = table
    /\ UNCHANGED txn

(* A statement on the https connection: part of the open transaction if     *)
(* there is one.  A deferred transaction locks at its first statement.      *)
ReadInside == /\ txn' = [txn EXCEPT !.shared = txn.owner # NoSlot]
              /\ UNCHANGED <<songs, draft>>

WriteInside(table) ==
    /\ draft' = table
    /\ songs' = IF txn.owner = NoSlot THEN table ELSE songs
    /\ txn' = [txn EXCEPT !.shared = txn.owner # NoSlot,
                          !.wrote  = txn.owner # NoSlot]

(* SQLITE_BUSY: SQLite refuses to upgrade a read lock while a writer of     *)
(* another process waits to commit.                                         *)
WriterWaits == \/ Requests({"insert", "remove"}) # {}
               \/ player.pc = "remove"
WriteRefusedLate == txn.shared /\ WriterWaits   \* a fault: even after a write
WriteRefused == txn.shared /\ ~txn.wrote /\ WriterWaits
-----------------------------------------------------------------------------
(* POST /usager/chanson: postFile_, for a user the account checks admit. *)

PostStart(r, u, content) ==
    /\ HttpUp
    /\ req[r].pc = "idle"
    /\ Len(songs) + Cardinality(Requests(PostPC)) < MaxSongs
    /\ second[u] < MaxSecond
    /\ req' = [req EXCEPT ![r] = [Idle EXCEPT !.pc = "name", !.user = u, !.content = content]]
    /\ UNCHANGED <<Database, cache, Elsewhere>>

(* songsFuture: getSongsByUser runs on a thread of its own, at any moment   *)
(* before its result is needed.                                             *)
PostFetch(r) ==
    /\ req[r].pc \in {"name", "write", "header", "check"}
    /\ ~req[r].fetched
    /\ LET mine == SongsByUser(songs, req[r].user)
       IN  req' = [req EXCEPT ![r].fetched = TRUE,
                              ![r].titles = {songs[i].title : i \in mine},
                              ![r].count = Cardinality(mine)]
    /\ UNCHANGED <<Database, cache, Elsewhere>>

(* A fault: a name that leaves the user out. *)
FreshNameOfAnyone(u, s) ==
    [user |-> CHOOSE v \in User : TRUE, second |-> s, counter |-> 0, mp3 |-> TRUE]

(* The loop of postFile_ looks for a name without ".mp3" that is not a file *)
(* of the cache, and appends ".mp3" to the one it finds.                    *)
FreshName(u, s) ==
    LET name(k) == [user |-> u, second |-> s, counter |-> k, mp3 |-> FALSE]
        free == {k \in 0..MaxSongs : ~IsFileCached(cache, name(k))}
        counter == CHOOSE k \in free : \A j \in free : k <= j
    IN  [name(counter) EXCEPT !.mp3 = TRUE]

PostName(r) ==
    LET u == req[r].user IN
    /\ req[r].pc = "name"
    /\ \E s \in {second[u]} \cup (IF DistinctSeconds \/ second[u] = 0 THEN {} ELSE {second[u] - 1}) :
          /\ req' = [req EXCEPT ![r].pc = "write", ![r].path = FreshName(u, s)]
          /\ second' = [second EXCEPT ![u] = s + 1]
    /\ UNCHANGED <<Database, cache, player, stops, boot, restarts>>

(* Setting the permissions of a file in a directory that is gone throws:    *)
(* the request answers 500.                                                 *)
PostWrite(r) ==
    /\ req[r].pc = "write"
    /\ IF cache.dir
       THEN /\ cache' = SetFileContent(cache, req[r].path, req[r].content)
            /\ Goto(r, "header")
       ELSE UNCHANGED cache /\ Done(r)
    /\ UNCHANGED <<Database, Elsewhere>>

(* A fault: an upload without an ID3 tag is let through. *)
PostHeaderUnchecked(r) ==
    /\ req[r].pc = "header"
    /\ Goto(r, "check")
    /\ UNCHANGED <<Database, cache, Elsewhere>>

(* Mp3Header reads the title back from the file of that name. *)
PostHeader(r) ==
    LET found == IF IsFileCached(cache, req[r].path) THEN cache.files[req[r].path] ELSE NotMp3
    IN
    /\ req[r].pc = "header"
    /\ req' = [req EXCEPT ![r].pc = IF found = NotMp3 THEN "drop" ELSE "check",
                          ![r].content = found]
    /\ UNCHANGED <<Database, cache, Elsewhere>>

TooManyOffByOne(count) == count > MAX_SONG_PER_USER   \* a fault

TooMany(count) == count >= MAX_SONG_PER_USER

PostCheck(r) ==
    /\ req[r].pc = "check"
    /\ req[r].fetched
    /\ Goto(r, IF req[r].content \in req[r].titles \/ TooMany(req[r].count)
               THEN "drop" ELSE "insert")
    /\ UNCHANGED <<Database, cache, Elsewhere>>

(* 415 or 413: m_cache.deleteFile(filePath.filename()). *)
PostDrop(r) ==
    /\ req[r].pc = "drop"
    /\ cache' = DeleteFile(cache, Bare(req[r].path))
    /\ Done(r)
    /\ UNCHANGED <<Database, Elsewhere>>

PostInsert(r) ==
    /\ req[r].pc = "insert"
    /\ CommitOutside(CreateSong(songs, req[r].user, req[r].content, req[r].path))
    /\ Done(r)
    /\ UNCHANGED <<cache, Elsewhere>>

-----------------------------------------------------------------------------
(* DELETE /usager/chanson: deleteFile_.  The future std::async returns is    *)
(* dropped at once, so the server's one worker runs a single one at a time.  *)

DeleteStart(r, u, i) ==
    /\ HttpUp
    /\ req[r].pc = "idle"
    /\ Requests(DeletePC) = {}
    /\ req' = [req EXCEPT ![r] = [Idle EXCEPT !.pc = "read", !.user = u, !.song = i]]
    /\ UNCHANGED <<Database, cache, Elsewhere>>

(* getSongById, and 405 for a song that is not the user's. *)
DeleteRead(r) ==
    LET i == req[r].song IN
    /\ req[r].pc = "read"
    /\ IF i \in SongId(songs) /\ songs[i].owner = req[r].user
       THEN req' = [req EXCEPT ![r].pc = "head", ![r].path = songs[i].path]
       ELSE Done(r)
    /\ UNCHANGED <<Database, cache, Elsewhere>>

(* 405 unless the queue has a head and it is another song. *)
DeleteHead(r) ==
    /\ req[r].pc = "head"
    /\ IF \E h \in Heads(songs) : h # req[r].song THEN Goto(r, "remove") ELSE Done(r)
    /\ UNCHANGED <<Database, cache, Elsewhere>>

DeleteRemove(r) ==
    /\ req[r].pc = "remove"
    /\ CommitOutside(RemoveSong(songs, req[r].song))
    /\ Goto(r, "unlink")
    /\ UNCHANGED <<cache, Elsewhere>>

(* m_cache.deleteFile(song.path): the path column, not a file name. *)
DeleteUnlink(r) ==
    /\ req[r].pc = "unlink"
    /\ cache' = DeleteFile(cache, StoredPath(req[r].path, NoPath))
    /\ Done(r)
    /\ UNCHANGED <<Database, Elsewhere>>

-----------------------------------------------------------------------------
(* DELETE /superviseur/chanson: deleteSuperviseurChanson_. *)

AdminStart(r, i) ==
    /\ HttpsUp
    /\ req[r].pc = "idle"
    /\ req' = [req EXCEPT ![r] = [Idle EXCEPT !.pc = "adminRead", !.song = i]]
    /\ UNCHANGED <<Database, cache, Elsewhere>>

AdminRead(r) ==
    LET i == req[r].song IN
    /\ req[r].pc = "adminRead"
    /\ ReadInside
    /\ IF i \in SongId(draft)
       THEN req' = [req EXCEPT ![r].pc = "flag", ![r].path = draft[i].path]
       ELSE Done(r)
    /\ UNCHANGED <<cache, Elsewhere>>

AdminFlag(r) ==
    /\ req[r].pc = "flag"
    /\ WriteInside(FlagSong(draft))
    /\ Goto(r, "adminHead")
    /\ UNCHANGED <<cache, Elsewhere>>

(* "If its the current playing song (the first in the list), we stop it." *)
AdminHead(r) ==
    /\ req[r].pc = "adminHead"
    /\ ReadInside
    /\ \/ /\ req[r].song \in Heads(draft)
          /\ Goto(r, "stop")
       \/ /\ \/ Heads(draft) = {}
             \/ \E h \in Heads(draft) : h # req[r].song
          /\ Goto(r, "adminRemove")
    /\ UNCHANGED <<cache, Elsewhere>>

AdminStop(r) ==
    /\ req[r].pc = "stop"
    /\ Len(stops) < MaxStops
    /\ stops' = Append(stops, req[r].song)
    /\ Done(r)
    /\ UNCHANGED <<Database, cache, second, player, boot, restarts>>

AdminRemove(r) ==
    /\ req[r].pc = "adminRemove"
    /\ WriteInside(RemoveSong(draft, req[r].song))
    /\ Goto(r, "adminUnlink")
    /\ UNCHANGED <<cache, Elsewhere>>

AdminUnlink(r) ==
    /\ req[r].pc = "adminUnlink"
    /\ cache' = DeleteFile(cache, StoredPath(req[r].path, NoPath))
    /\ Done(r)
    /\ UNCHANGED <<Database, Elsewhere>>

(* A write inside somebody else's transaction is refused: 403 or 500. *)
AdminRefused(r) ==
    /\ req[r].pc \in {"flag", "adminRemove"}
    /\ WriteRefused
    /\ Done(r)
    /\ UNCHANGED <<Database, cache, Elsewhere>>
-----------------------------------------------------------------------------
(* POST /superviseur/inversion: postSuperviseurInversion_ and swapSongs.     *)

InvertStart(r, i, j) ==
    /\ HttpsUp
    /\ req[r].pc = "idle"
    /\ i # j
    /\ req' = [req EXCEPT ![r] = [Idle EXCEPT !.pc = "read1", !.song = i, !.other = j]]
    /\ UNCHANGED <<Database, cache, Elsewhere>>

(* getSongById for each of the two; the paths are tested further on, but a   *)
(* song without one already decides the answer (409).                        *)
InQueue(i) == i \in SongId(draft) /\ draft[i].path # NoPath

InvertRead(r) ==
    LET first == req[r].pc = "read1" IN
    /\ req[r].pc \in {"read1", "read2"}
    /\ ReadInside
    /\ IF InQueue(IF first THEN req[r].song ELSE req[r].other)
       THEN Goto(r, IF first THEN "read2" ELSE "invertHead")
       ELSE Done(r)
    /\ UNCHANGED <<cache, Elsewhere>>

(* The song that is playing, taken to be the head, may not be swapped. *)
InvertHead(r) ==
    /\ req[r].pc = "invertHead"
    /\ ReadInside
    /\ \/ /\ \E h \in Heads(draft) : h \in {req[r].song, req[r].other}
          /\ Done(r)
       \/ /\ \/ Heads(draft) = {}
             \/ \E h \in Heads(draft) : h \notin {req[r].song, req[r].other}
          /\ Goto(r, "begin")
    /\ UNCHANGED <<cache, Elsewhere>>

(* A fault: the two updates run outside any transaction. *)
InvertBeginNothing(r) ==
    /\ req[r].pc = "begin"
    /\ Goto(r, "select")
    /\ UNCHANGED <<Database, cache, Elsewhere>>

(* BEGIN fails inside the transaction of another thread: 500. *)
InvertBegin(r) ==
    /\ req[r].pc = "begin"
    /\ IF txn.owner = NoSlot
       THEN txn' = [NoTxn EXCEPT !.owner = r] /\ Goto(r, "select")
       ELSE UNCHANGED txn /\ Done(r)
    /\ UNCHANGED <<songs, draft, cache, Elsewhere>>

InvertSelect(r) ==
    /\ req[r].pc = "select"
    /\ ReadInside
    /\ req' = [req EXCEPT ![r].pc = "update1",
                          ![r].order1 = draft[req[r].song].order,
                          ![r].order2 = draft[req[r].other].order]
    /\ UNCHANGED <<cache, Elsewhere>>

InvertUpdate1(r) ==
    /\ req[r].pc = "update1"
    /\ WriteInside(SetOrder(draft, req[r].song, req[r].order2))
    /\ Goto(r, "update2")
    /\ UNCHANGED <<cache, Elsewhere>>

InvertUpdate2(r) ==
    /\ req[r].pc = "update2"
    /\ WriteInside(SetOrder(draft, req[r].other, req[r].order1))
    /\ Goto(r, "commit")
    /\ UNCHANGED <<cache, Elsewhere>>

InvertCommit(r) ==
    /\ req[r].pc = "commit"
    /\ songs' = draft
    /\ txn' = NoTxn
    /\ Done(r)
    /\ UNCHANGED <<draft, cache, Elsewhere>>

(* A fault: the refused swap leaves its transaction open. *)
InvertGiveUp(r) ==
    /\ req[r].pc = "update1"
    /\ WriteRefused
    /\ Done(r)
    /\ UNCHANGED <<Database, cache, Elsewhere>>

(* The first UPDATE is refused: ROLLBACK and 500. *)
InvertRollback(r) ==
    /\ req[r].pc = "update1"
    /\ WriteRefused
    /\ draft' = songs
    /\ txn' = NoTxn
    /\ Done(r)
    /\ UNCHANGED <<songs, cache, Elsewhere>>

-----------------------------------------------------------------------------
(* The player: newSongProvider_, the playing of a file, songRemover_.        *)

(* A fault: any song of the queue is played next. *)
PlayerPollAny ==
    /\ player.pc = "poll"
    /\ \E i \in Playable(songs) :
          player' = [IdlePlayer EXCEPT !.pc = "open", !.song = i, !.path = songs[i].path]
    /\ UNCHANGED <<Database, cache, req, second, stops, boot, restarts>>

PlayerPoll ==
    /\ player.pc = "poll"
    /\ \E h \in Heads(songs) :
          player' = [IdlePlayer EXCEPT !.pc = "open", !.song = h, !.path = songs[h].path]
    /\ UNCHANGED <<Database, cache, req, second, stops, boot, restarts>>

(* A file that cannot be opened ends the song at once. *)
PlayerOpen ==
    LET found == IsFileCached(cache, player.path) IN
    /\ player.pc = "open"
    /\ player' = [player EXCEPT !.pc = IF found THEN "play" ELSE "lookup",
                                !.heard = IF found THEN cache.files[player.path] ELSE NotMp3]
    /\ UNCHANGED <<Database, cache, req, second, stops, boot, restarts>>

PlayerFinish ==
    /\ player.pc = "play"
    /\ player' = [player EXCEPT !.pc = "lookup"]
    /\ UNCHANGED <<Database, cache, req, second, stops, boot, restarts>>

(* StopSongEvent stops whatever plays; there may be nothing. *)
DeliverStop ==
    /\ stops # <<>>
    /\ stops' = Tail(stops)
    /\ player' = IF player.pc = "play" THEN [player EXCEPT !.pc = "lookup"] ELSE player
    /\ UNCHANGED <<Database, cache, req, second, boot, restarts>>

(* A fault: the end of a song deletes its file but not its row. *)
PlayerLookupNothing ==
    /\ player.pc = "lookup"
    /\ player' = [player EXCEPT !.pc = "unlink"]
    /\ UNCHANGED <<Database, cache, req, second, stops, boot, restarts>>

PlayerLookup ==
    LET hits == SongByPath(songs, player.path) IN
    /\ player.pc = "lookup"
    /\ player' = IF hits = {} THEN [player EXCEPT !.pc = "unlink"]
                 ELSE [player EXCEPT !.pc = "remove", !.target = CHOOSE i \in hits : TRUE]
    /\ UNCHANGED <<Database, cache, req, second, stops, boot, restarts>>

PlayerRemove ==
    /\ player.pc = "remove"
    /\ CommitOutside(RemoveSong(songs, player.target))
    /\ player' = [player EXCEPT !.pc = "unlink"]
    /\ UNCHANGED <<cache, req, second, stops, boot, restarts>>

PlayerUnlink ==
    /\ player.pc = "unlink"
    /\ cache' = DeleteFile(cache, Bare(player.path))
    /\ player' = [IdlePlayer EXCEPT !.song = player.song]
    /\ UNCHANGED <<Database, req, second, stops, boot, restarts>>

-----------------------------------------------------------------------------
(* res/scripts/start: the player, then the http server, then the https       *)
(* server.  Each empties the cache directory (FileCache's constructor), then *)
(* clears every path (Database's constructor).                               *)

BootHttp ==
    /\ boot = "http"
    /\ cache' = FreshStore
    /\ CommitOutside(WipeSongs(songs))
    /\ boot' = "httpsCache"
    /\ UNCHANGED <<req, second, player, stops, restarts>>

BootHttpsCache ==
    /\ boot = "httpsCache"
    /\ cache' = FreshStore
    /\ boot' = "httpsDatabase"
    /\ UNCHANGED <<Database, req, second, player, stops, restarts>>

BootHttpsDatabase ==
    /\ boot = "httpsDatabase"
    /\ CommitOutside(WipeSongs(songs))
    /\ boot' = "done"
    /\ UNCHANGED <<cache, req, second, player, stops, restarts>>

(* stop, then start: every thread dies where it is, SQLite rolls back what   *)
(* was not committed, and the new player empties the cache and the paths.    *)
Restart ==
    /\ restarts < MaxRestarts
    /\ restarts' = restarts + 1
    /\ songs' = WipeSongs(songs)
    /\ draft' = songs'
    /\ txn' = NoTxn
    /\ cache' = FreshStore
    /\ req' = [r \in Slot |-> Idle]
    /\ player' = IdlePlayer
    /\ stops' = <<>>
    /\ boot' = "http"
    /\ UNCHANGED second

-----------------------------------------------------------------------------

Init ==
    /\ songs = <<>>
    /\ draft = <<>>
    /\ txn = NoTxn
    /\ cache = FreshStore
    /\ req = [r \in Slot |-> Idle]
    /\ second = [u \in User |-> 0]
    /\ player = IdlePlayer
    /\ stops = <<>>
    /\ boot = "http"
    /\ restarts = 0

(* The inversion of i and j is that of j and i: one of the two is enough. *)
Arrive(r) ==
    \/ /\ Cardinality(Requests(PostPC)) < AtMost["post"]
       /\ \E u \in User, content \in Uploads : PostStart(r, u, content)
    \/ /\ Cardinality(Requests(DeletePC)) < AtMost["delete"]
       /\ \E u \in User, i \in SongId(songs) : DeleteStart(r, u, i)
    \/ /\ Cardinality(Requests(AdminPC)) < AtMost["admin"]
       /\ \E i \in SongId(songs) : AdminStart(r, i)
    \/ /\ Cardinality(Requests(InvertPC)) < AtMost["invert"]
       /\ \E i, j \in SongId(songs) : i < j /\ InvertStart(r, i, j)

PostNext(r) ==
    \/ PostFetch(r) \/ PostName(r) \/ PostWrite(r) \/ PostHeader(r)
    \/ PostCheck(r) \/ PostDrop(r) \/ PostInsert(r)

DeleteNext(r) == DeleteRead(r) \/ DeleteHead(r) \/ DeleteRemove(r) \/ DeleteUnlink(r)

AdminNext(r) ==
    \/ AdminRead(r) \/ AdminFlag(r) \/ AdminHead(r) \/ AdminStop(r)
    \/ AdminRemove(r) \/ AdminUnlink(r) \/ AdminRefused(r)

InvertNext(r) ==
    \/ InvertRead(r) \/ InvertHead(r) \/ InvertBegin(r) \/ InvertSelect(r)
    \/ InvertUpdate1(r) \/ InvertUpdate2(r) \/ InvertCommit(r) \/ InvertRollback(r)

Serve(r) == PostNext(r) \/ DeleteNext(r) \/ AdminNext(r) \/ InvertNext(r)

PlayerNext == PlayerPoll \/ PlayerOpen \/ PlayerFinish \/ PlayerLookup \/ PlayerRemove \/ PlayerUnlink

BootNext == BootHttp \/ BootHttpsCache \/ BootHttpsDatabase

Next ==
    \/ \E r \in Slot : Arrive(r) \/ Serve(r)
    \/ PlayerNext
    \/ DeliverStop
    \/ BootNext
    \/ Restart

Spec == Init /\ [][Next]_vars

(* Every thread goes on, the start script too; a song ends.  A thread whose   *)
(* commit waits for another process's lock gets it in the end, since SQLite  *)
(* lets no new reader in while a writer waits; neither restarts nor requests *)
(* are bound to happen.                                                      *)
Fairness ==
    /\ \A r \in Slot : SF_vars(Serve(r))
    /\ SF_vars(PlayerNext)
    /\ WF_vars(DeliverStop)
    /\ WF_vars(BootNext)

LiveSpec == Spec /\ Fairness

-----------------------------------------------------------------------------
(* Properties *)

(* Every variable keeps its type. *)
TypeOK ==
    /\ songs \in Table
    /\ draft \in Table
    /\ txn \in [owner : Slot \cup {NoSlot}, shared : BOOLEAN, wrote : BOOLEAN]
    /\ cache.dir \in BOOLEAN
    /\ cache.files \in [DOMAIN cache.files -> Content]
    /\ req \in [Slot -> Request]
    /\ second \in [User -> Nat]
    /\ player \in [pc : {"poll", "open", "play", "lookup", "remove", "unlink"},
                   song : Nat, target : Nat, path : Path, heard : Content]
    /\ stops \in Seq(Nat)
    /\ boot \in {"http", "httpsCache", "httpsDatabase", "done"}
    /\ restarts \in Nat

(* The committed song_order column is a permutation of the rowids, whatever  *)
(* inversions, posts and removals overlap: swapSongs never leaves two songs  *)
(* with one place in the queue, and a new song always comes last.            *)
CommittedOrders == OrdersDistinct(songs)

(* The song the player has is the head of the queue until it leaves it, which *)
(* deleteFile_, deleteSuperviseurChanson_ and the inversion take for granted:  *)
(* none of them asks the player.  Posts, deletions, restarts and the removals  *)
(* of the processes that start keep it so.  An inversion need not: the song    *)
(* may have become the head, and play, after it was seen not to be.            *)
PlayingIsFirst ==
    player.pc \in {"open", "play", "lookup", "remove"} /\ songs[player.song].path # NoPath
        => Heads(songs) = {player.song}

(* A swap that is rolled back takes no other thread's removal with it, though *)
(* they share the connection and so the transaction: what one administrator's *)
(* request has removed stays removed for all of them.                         *)
RollbackLosesNothing ==
    [][\A i \in SongId(draft) : draft[i].path = NoPath => draft'[i].path = NoPath]_draft

(* When the player is back to polling, the song it last took is out of the   *)
(* queue: no song is played twice.                                           *)
LastSongGone ==
    player.pc = "poll" /\ player.song # NoSong => songs[player.song].path = NoPath

(* What is heard is what the owner of the row posted: the file a row names   *)
(* is never the file of another post.                                        *)
HeardIsPosted ==
    player.pc = "play" => player.heard = songs[player.song].title

(* The file of a queued song is deleted only with the whole directory: no    *)
(* request and no end of a song deletes a file another row still names.      *)
NoForeignDelete ==
    [][\A i \in SongId(songs) :
          /\ songs[i].path \in DOMAIN cache.files
          /\ songs'[i].path = songs[i].path
          => songs[i].path \in DOMAIN cache'.files \/ ~cache'.dir \/ boot' # boot]_<<songs, cache>>

(* The limit on a user's songs is read before and used after the upload.  It *)
(* can be passed only by posts that are in flight together, by one song for  *)
(* each of them but one; and a post whose reading of the user's songs is     *)
(* still true when it is stored never passes it.                             *)
LimitHolds ==
    \A u \in User :
       LET mine == {r \in Requests(PostPC) : req[r].user = u /\ req[r].fetched}
           stored == Cardinality(SongsByUser(songs, u))
       IN  /\ stored + Cardinality({r \in mine : req[r].count < MAX_SONG_PER_USER})
                 < MAX_SONG_PER_USER + AtMost["post"]
           /\ \A r \in mine : req[r].pc = "insert" /\ req[r].count = stored
                              => stored < MAX_SONG_PER_USER

(* Every song leaves the queue: whatever is deleted, swapped or stopped, the *)
(* player reaches each song and its end takes the song out.                  *)
EverySongLeaves ==
    \A i \in 1..MaxSongs :
       (i \in Playable(songs)) ~> (i \notin Playable(songs))

(* Every request is answered or dies with its server: no interleaving leaves *)
(* a transaction open that the other processes wait for.                     *)
EveryRequestEnds == \A r \in Slot : (req[r].pc # "idle") ~> (req[r].pc = "idle")

(* RestApi.cpp: "Try a new file name until we find on that is not used."     *)
NewNameUnused ==
    [][\A r \in Slot : req[r].pc = "name" /\ req'[r].pc = "write"
                        => ~IsFileCached(cache, req'[r].path)]_req

(* FileManagementApi.cpp: "If its the current playing song (the first in the *)
(* list), we stop it."  The song that is stopped is the one to be deleted.   *)
StopHitsItsSong ==
    [][stops # <<>> /\ stops' = Tail(stops) /\ player.pc = "play"
          => player.song = Head(stops)]_stops
=============================================================================
