------------------------------ MODULE MCAccounts ------------------------------
(* Values for TLC.  MAC addresses, ids and threads are interchangeable. *)
EXTENDS Accounts, TLC

MCAtMost == [kind \in {"identification", "usager", "auth", "superviseur"} |->
               IF kind \in {"identification", "auth"} THEN 2 ELSE 1]

Symmetry == Permutations(Mac) \cup Permutations(Id) \cup Permutations(Slot)

-----------------------------------------------------------------------------
(* What is shown of the tables, over all tables of two songs, and of three    *)
(* that differ in what decides the order.                                    *)

V == INSTANCE Views WITH User <- {1, 2}, Title <- {"t"}, NoPath <- [none |-> TRUE],
                         NoUser <- [userId |-> 0, name |-> "", ip |-> "", mac |-> ""]

None == [none |-> TRUE]
Stored == [none |-> FALSE]
Phone(id, name) == [userId |-> id, name |-> name, ip |-> "ip", mac |-> name]
Users == {Phone(1, "m1"), Phone(2, "m2")}

Songs(times, durations, flags) ==
    {[owner |-> o, title |-> "t", artist |-> "a", duration |-> d, path |-> p, timestamp |-> s,
      order |-> 0, deletedByAdmin |-> f, wasPlayed |-> w] :
        o \in {1, 2}, d \in durations, p \in {None, Stored}, s \in times, f \in flags,
        w \in BOOLEAN}

(* A song that was played has left the queue; no two are in one place. *)
Tables(n, songs) ==
    LET stored == {song \in songs : song.wasPlayed => song.path = None}
    IN  {[i \in 1 .. n |-> [rows[i] EXCEPT !.order = place[i]]] :
           rows \in [1 .. n -> stored], place \in Permutations(1 .. n)}

Queues == Tables(3, Songs({5}, {185}, {FALSE}))
Days == Tables(2, Songs({5, V!DAY - 1, V!DAY}, {59, 185}, BOOLEAN))

(* Every song that waits is listed once, in the order of its place, and is    *)
(* shown as one's own to its owner and to nobody else.                       *)
ASSUME ListIsTheQueue ==
    \A t \in Queues, viewer \in {1, 2}, asAdmin \in BOOLEAN :
       LET list == V!generateAllSongsAsViewedBy(t, Users, viewer, asAdmin)
       IN  /\ {list[k].no : k \in DOMAIN list} = V!Playable(t)
           /\ \A k, l \in DOMAIN list : k < l => t[list[k].no].order < t[list[l].no].order
           /\ list # <<>> => list[1].no \in V!Heads(t)
           /\ {list[k].no : k \in {l \in DOMAIN list : list[l].proprietaire}}
                 = V!SongsByUser(t, viewer)

(* A user who was given another id since still has songs in the list: they    *)
(* have no name, and are nobody's.                                           *)
ASSUME OldIdsAreNobody ==
    \A t \in Queues :
       LET list == V!generateAllSongsAsViewedBy(t, {Phone(2, "m2"), Phone(3, "m1")}, 3, TRUE)
       IN  \A k \in DOMAIN list :
              /\ ~list[k].proprietaire
              /\ t[list[k].no].owner = 1 => list[k].proposeePar = "" /\ list[k].id = 0

(* deletedByAdmin of a listed song is its place: the columns do not match.    *)
ASSUME FlagIsThePlace ==
    \A t \in Queues : \A k \in DOMAIN V!getAllPlayableSongs(t) :
       V!getAllPlayableSongs(t)[k].deletedByAdmin

(* The average lies among what it is the average of; what is counted as       *)
(* played or deleted was posted by somebody who is counted.                  *)
ASSUME StatisticsAgree ==
    \A t \in Days, day \in {0, 1} :
       LET stats == V!getStatistics(t, day)
           mean == 60 * stats.temps.minutes + stats.temps.seconds
       IN  /\ stats.chansons > 0 => mean \in 59 .. 185
           /\ stats.chansons = 0 => mean = 0
           /\ stats.chansons + stats.elimines > 0 => stats.utilisateurs > 0
           /\ stats.utilisateurs <= Cardinality(V!Today(t, day))

(* A song posted in the last second of a day is in the statistics of no day.  *)
ASSUME LastSecondIsLost ==
    \A t \in Days : {1} \cap UNION {V!Today(t, day) : day \in {0, 1}}
                       = {i \in {1} : t[i].timestamp # V!DAY - 1}

(* The list is shown to a connected user who is not blocked, the statistics   *)
(* and the administrator's list to the administrator.                        *)
ASSUME ShownToWhomItIsFor ==
    \A token \in [reads : {"nothing", "no number", "number"}, id : {0, 1, 3}],
      connected, blocked, fails \in BOOLEAN :
       LET list == V!getFileList(<<>>, Users, token, connected, blocked, fails)
           file == V!getSuperviseurFile(<<>>, Users, token, connected, fails)
           stats == V!getSuperviseurStatistiques(<<>>, 0, token, connected)
       IN  /\ list.code = 200 <=> /\ token = [reads |-> "number", id |-> 1]
                                  /\ connected /\ ~blocked /\ ~fails
           /\ file.code = 200 <=> token.reads = "number" /\ token.id # 0 /\ connected /\ ~fails
           /\ file.code = 401 <=> /\ token.reads = "number"
                                  /\ token.id = 0 \/ (~connected /\ ~fails)
           /\ token.reads = "number" => (stats.code = 200 <=> token.id # 0 /\ connected)

-----------------------------------------------------------------------------
(* How calls of SQLite end. *)

Q == INSTANCE SqliteCalls

Answers == UNION {[1 .. n -> Q!Code] : n \in 1 .. 3}

(* A lock of the shared cache is never waited for: the call is made once, and  *)
(* what is locked ends in an exception or not at all.                        *)
ASSUME LockedIsNeverWaitedFor ==
    \A answers \in Answers, notify \in Q!Notify :
       LET result == Q!step(answers, notify)
       IN  /\ result = Q!step(<<answers[1]>>, notify)
           /\ answers[1] = "LOCKED" => "returns" \notin DOMAIN result
           /\ "returns" \in DOMAIN result <=> answers[1] \in {"OK", "ROW", "DONE"}

(* The query of a start is tried until it is neither locked nor busy. *)
ASSUME RetriedUntilDone ==
    \A answers \in Answers :
       LET attempts == [k \in DOMAIN answers |-> Q!assertSqliteOk(Q!Returns(answers[k]))]
           end == Q!executeAndRetryOnLock(attempts)
       IN  /\ end # Q!Hangs => end \notin {Q!Throws("LOCKED"), Q!Throws("BUSY")}
           /\ end = Q!Hangs <=> \A k \in DOMAIN answers : answers[k] \in {"LOCKED", "BUSY"}
=============================================================================
