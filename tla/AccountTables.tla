---------------------------- MODULE AccountTables ----------------------------
(***************************************************************************)
(* The tables user, userConnection, adminLogin and adminConnection of       *)
(* server.db (struct.sql) and the queries of common/database/Database.cpp   *)
(* on them.  A user's ip and name are left out: they are shown, never read  *)
(* by a decision.                                                           *)
(***************************************************************************)
CONSTANTS Mac, NoMac,   \* MAC addresses; the empty one
          Id, NoId      \* the values generateId returns; 0

ASSUME NoMacAssumption == NoMac \notin Mac
ASSUME NoIdAssumption == NoId \notin Id

(* A row of user, as getUserFromStatement_ copies it.  A row whose            *)
(* is_blacklisted is NULL reads as not blocked.                              *)
User_t == [mac : Mac, userId : Id, isBlocked : BOOLEAN]

(* "Returns an empty user (all 0s) on unsuccessful search" *)
NoUser == [mac |-> NoMac, userId |-> NoId, isBlocked |-> FALSE]

(* The one row of adminConnection: its login is always 'admin'. *)
AdminConnection == [adminId : Id \cup {NoId}, isConnected : BOOLEAN]

-----------------------------------------------------------------------------
(* user *)

getUserByQuery(rows) == IF rows = {} THEN NoUser ELSE CHOOSE row \in rows : TRUE

getUserByMac(user, mac) == getUserByQuery({row \in user : row.mac = mac})

getUserById(user, id) == getUserByQuery({row \in user : row.userId = id})

(* The rows the black list is answered from. *)
getBlackList(user) == {row \in user : row.isBlocked}

getBlacklistByMAC(user, mac) == \E row \in getBlackList(user) : row.mac = mac

(* Faults: an INSERT OR IGNORE, and a table whose mac is not UNIQUE. *)
createUserOrIgnore(user, mac, id) ==
    IF \E row \in user : row.mac = mac \/ row.userId = id THEN user
    ELSE user \cup {[mac |-> mac, userId |-> id, isBlocked |-> FALSE]}

createUserTwice(user, mac, id) ==
    {row \in user : row.userId # id} \cup {[mac |-> mac, userId |-> id, isBlocked |-> FALSE]}

(* INSERT OR REPLACE: mac and user_id are UNIQUE, so every row with either   *)
(* goes, and its is_blacklisted, which the INSERT does not give, with it.    *)
createUser(user, mac, id) ==
    {row \in user : row.mac # mac /\ row.userId # id}
        \cup {[mac |-> mac, userId |-> id, isBlocked |-> FALSE]}

setBlacklistFlag(user, mac, flag) ==
    {IF row.mac = mac THEN [row EXCEPT !.isBlocked = flag] ELSE row : row \in user}

blacklistMAC(user, mac) == setBlacklistFlag(user, mac, TRUE)
whitelistMAC(user, mac) == setBlacklistFlag(user, mac, FALSE)

-----------------------------------------------------------------------------
(* userConnection, as the set of ids whose connection_expiration is to come *)

connectUser(connections, id) == connections \cup {id}

isUserConnected(connections, id) == id \in connections

-----------------------------------------------------------------------------
(* adminConnection *)

connectAdmin(id) == [adminId |-> id, isConnected |-> TRUE]

disconnectAdmin(admin, id) ==
    IF admin.adminId = id THEN [admin EXCEPT !.isConnected = FALSE] ELSE admin

isAdminConnected(admin, id) == admin.adminId = id /\ admin.isConnected
=============================================================================
