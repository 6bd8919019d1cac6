-------------------------------- MODULE Views --------------------------------
(***************************************************************************)
(* What the servers show of the tables: the lists of songs of the users and *)
(* of the administrator, and the statistics of the day.  They change        *)
(* nothing; Jukebox and Accounts leave the columns out that are only shown. *)
(*                                                                          *)
(* A row of songs has, beside those of SongTable, artist, duration (in      *)
(* seconds), timestamp (in milliseconds), deletedByAdmin and wasPlayed.     *)
(* A row of user is shown as its id, name, ip and mac.                      *)
(***************************************************************************)
EXTENDS SongTable, SequencesExt

CONSTANT NoUser   \* what getUserById returns when there is no row: all zeros

-----------------------------------------------------------------------------
(* Reading rows *)

(* No two rows have one song_order (OrdersDistinct). *)
Ordered(t, ids) == SetToSortSeq(ids, LAMBDA i, j : t[i].order < t[j].order)

(* column is what the query gives in the seventh column: the lists give      *)
(* song_order where deleted_by_admin is read, a query of one song nothing.   *)
getSongFromStatement(t, i, column) ==
    [id |-> i, title |-> t[i].title, artist |-> t[i].artist, userId |-> t[i].owner,
     duration |-> t[i].duration, path |-> t[i].path, deletedByAdmin |-> column # 0]

Songs(t, ids) ==
    LET rows == Ordered(t, ids)
    IN  [k \in DOMAIN rows |-> getSongFromStatement(t, rows[k], t[rows[k]].order)]

getAllPlayableSongs(t) == Songs(t, Playable(t))
getSongsByUser(t, u) == Songs(t, SongsByUser(t, u))
getAllSongs(t) == Songs(t, SongId(t))

(* The first row that satisfies a query, or a song of zeros. *)
getSongByQuery(t, ids) ==
    IF ids = {} THEN [id |-> NoSong]
    ELSE getSongFromStatement(t, CHOOSE i \in ids : \A j \in ids : i <= j, 0)

getSongById(t, id) == getSongByQuery(t, {id} \cap SongId(t))
getSongByTitle(t, title) == getSongByQuery(t, {i \in SongId(t) : t[i].title = title})
getSongByPath(t, p) == getSongByQuery(t, {i \in SongId(t) : t[i].path = p})

getUserById(user, id) ==
    IF \E row \in user : row.userId = id THEN CHOOSE row \in user : row.userId = id ELSE NoUser

-----------------------------------------------------------------------------
(* The lists *)

getMinutes(duration) == duration \div 60
getSeconds(duration) == duration % 60

(* The width of two that operator<< sets holds for the minutes only.         *)
Duration(duration) == [minutes |-> getMinutes(duration), seconds |-> getSeconds(duration),
                       padded |-> getMinutes(duration) < 10]

(* getUserById is asked for every song, after the list has been read: the    *)
(* owner may have another id by then, and no row.                            *)
generateSong(song, user, token, adminSerialization) ==
    LET owner == getUserById(user, song.userId)
        shown == [titre |-> song.title, artiste |-> song.artist,
                  duree |-> Duration(song.duration), proposeePar |-> owner.name,
                  proprietaire |-> token = song.userId, no |-> song.id]
    IN  IF adminSerialization
        THEN shown @@ [mac |-> owner.mac, ip |-> owner.ip, id |-> owner.userId]
        ELSE shown

generateAllSongsAsViewedBy(t, user, token, adminSerialization) ==
    LET songs == getAllPlayableSongs(t)
    IN  [k \in DOMAIN songs |-> generateSong(songs[k], user, token, adminSerialization)]

-----------------------------------------------------------------------------
(* The statistics *)

DAY == 86400000   \* milliseconds

(* TODAY_QUERY: the last second of a day belongs to no day. *)
Today(t, day) ==
    {i \in SongId(t) : t[i].timestamp \in day * DAY .. (day + 1) * DAY - 1000}

Played(t, day) == {i \in Today(t, day) : t[i].wasPlayed}

getDailyUserCount(t, day) == Cardinality({t[i].owner : i \in Today(t, day)})
getDailySongCount(t, day) == Cardinality(Played(t, day))
getDeletedSongsCount(t, day) == Cardinality({i \in Today(t, day) : t[i].deletedByAdmin})

(* avg of nothing is NULL, which is read as 0; the rest is cut off. *)
getAverageSongDuration(t, day) ==
    LET played == Played(t, day)
    IN  IF played = {} THEN 0
        ELSE MapThenSumSet(LAMBDA i : t[i].duration, played) \div Cardinality(played)

getStatistics(t, day) ==
    [chansons |-> getDailySongCount(t, day), utilisateurs |-> getDailyUserCount(t, day),
     elimines |-> getDeletedSongsCount(t, day), temps |-> Duration(getAverageSongDuration(t, day))]

-----------------------------------------------------------------------------
(* The answers to those who ask for them *)

(* What the header X-Auth-Token reads as. *)
Token == [reads : {"nothing", "no number", "number"}, id : Nat]

MalformedToken(token) ==
    IF token.reads = "nothing" THEN [throws |-> "MissingTokenException"]
    ELSE [throws |-> "std::invalid_argument"]

InvalidToken == [throws |-> "InvalidTokenException"]

(* getUserFromRequestToken_; a user that SQLite does not give has no row. *)
RequestUser(token, user) ==
    CASE token.reads # "number" -> MalformedToken(token)
      [] /\ token.reads = "number"
         /\ token.id = 0 \/ getUserById(user, token.id) = NoUser -> InvalidToken
      [] OTHER -> [user |-> getUserById(user, token.id)]

(* getAdminDataFromRequestToken; fails says that SQLite did. *)
RequestAdmin(token, connected, fails) ==
    CASE token.reads # "number"                   -> MalformedToken(token)
      [] token.reads = "number" /\ token.id = 0   -> InvalidToken
      [] token.reads = "number" /\ token.id # 0   ->
             CASE fails                 -> [throws |-> "sqlite_error"]
               [] ~fails /\ connected   -> [admin |-> token.id]
               [] ~fails /\ ~connected  -> [throws |-> "AuthenticationFailureException"]

(* getFileList_, once its tables have been read. *)
getFileList(t, user, token, connected, blocked, fails) ==
    LET who == RequestUser(token, user)
    IN  CASE "throws" \in DOMAIN who                         -> [code |-> 403]
          [] "user" \in DOMAIN who /\ fails                  -> [code |-> 500]
          [] "user" \in DOMAIN who /\ ~fails /\ (blocked \/ ~connected) -> [code |-> 403]
          [] OTHER -> [code |-> 200,
                       list |-> generateAllSongsAsViewedBy(t, user, who.user.userId, FALSE)]

(* What the administrator's requests make of the exceptions they catch. *)
ErrorCode(exception) ==
    CASE exception = "MissingTokenException"                                        -> 400
      [] exception \in {"InvalidTokenException", "AuthenticationFailureException"}  -> 401
      [] OTHER                                                                      -> 500

getSuperviseurFile(t, user, token, connected, fails) ==
    LET who == RequestAdmin(token, connected, fails)
    IN  IF "throws" \in DOMAIN who THEN [code |-> ErrorCode(who.throws)]
        ELSE [code |-> 200, list |-> generateAllSongsAsViewedBy(t, user, who.admin, TRUE)]

(* getSuperviseurStatistiques_ with a token that is a number: isConnected is *)
(* what SQLite answered, or, when it failed, whatever was in memory.         *)
getSuperviseurStatistiques(t, day, token, isConnected) ==
    IF token.id = 0 \/ ~isConnected THEN [code |-> 403]
    ELSE [code |-> 200, statistics |-> getStatistics(t, day)]
=============================================================================
