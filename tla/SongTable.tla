------------------------------ MODULE SongTable ------------------------------
(***************************************************************************)
(* The songs table of server.db (struct.sql) and the queries of            *)
(* common/database/Database.cpp on it.  A table is a sequence of rows and   *)
(* a row's index is its SQLite rowid: no query deletes a row, so rowids     *)
(* are dense and an INSERT takes Len + 1.  Artist, duration, timestamp,      *)
(* deleted_by_admin and was_played are left out: they are shown or counted,  *)
(* and no decision depends on them.                                         *)
(***************************************************************************)
EXTENDS Naturals, Sequences

CONSTANTS User,     \* the owners of songs (user_id)
          Title,    \* the titles an MP3 header can hold
          NoPath    \* the empty path: "A null path indicate a deleted song"

(* The name postFile_ gives a file: the user and the second it was named in, *)
(* the counter of the attempt (0 for none) and whether ".mp3" is appended.   *)
Name == [user : User, second : Nat, counter : Nat, mp3 : BOOLEAN]

ASSUME NoPathAssumption == NoPath \notin Name

Path == Name \cup {NoPath}

Row == [owner : User, title : Title, path : Path, order : Nat]

Table == Seq(Row)

SongId(t) == 1..Len(t)

NoSong == 0

(* getAllPlayableSongs: WHERE was_played = 0 AND length(path) > 0.  The one   *)
(* query that sets was_played clears the path with it, and createSong resets *)
(* it, so the path alone decides.                                            *)
Playable(t) == {i \in SongId(t) : t[i].path # NoPath}

(* The row getAllPlayableSongs()[0] may be: ORDER BY song_order, ties open. *)
Heads(t) == {i \in Playable(t) : \A j \in Playable(t) : t[i].order <= t[j].order}

(* getSongsByUser: the playable rows of one user. *)
SongsByUser(t, u) == {i \in Playable(t) : t[i].owner = u}

(* getSongByPath: the first row, in rowid order, that holds this path. *)
SongByPath(t, p) ==
    LET hits == {i \in SongId(t) : t[i].path = p}
    IN  {i \in hits : \A j \in hits : i <= j}

(* A fault: a table that reuses the row of a song that has left.            *)
CreateSongInFreedRow(t, u, title, p) ==
    LET freed == SongId(t) \ Playable(t)
        row == [owner |-> u, title |-> title, path |-> p, order |-> Len(t) + 1]
    IN  IF freed = {} THEN Append(t, row)
        ELSE [t EXCEPT ![CHOOSE i \in freed : TRUE] = row]

(* createSong, with the add_order_auto_increment trigger of struct.sql. *)
CreateSong(t, u, title, p) ==
    Append(t, [owner |-> u, title |-> title, path |-> p, order |-> Len(t) + 1])

(* removeSong: a row that does not exist is left alone. *)
RemoveSong(t, i) ==
    [k \in SongId(t) |-> IF k = i THEN [t[k] EXCEPT !.path = NoPath] ELSE t[k]]

(* flagSongAsDeletedByAdmin: an UPDATE of a column only statistics read. *)
FlagSong(t) == t

(* One UPDATE of swapSongs. *)
SetOrder(t, i, o) ==
    [k \in SongId(t) |-> IF k = i THEN [t[k] EXCEPT !.order = o] ELSE t[k]]

(* wipeDbSongs_, run by every process that opens the database. *)
WipeSongs(t) == [k \in SongId(t) |-> [t[k] EXCEPT !.path = NoPath]]

(* No two rows share a song_order, and the next rowid is above them all. *)
OrdersDistinct(t) ==
    /\ \A i \in SongId(t) : t[i].order \in SongId(t)
    /\ \A i, j \in SongId(t) : t[i].order = t[j].order => i = j
=============================================================================
