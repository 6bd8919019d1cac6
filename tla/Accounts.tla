------------------------------- MODULE Accounts -------------------------------
(***************************************************************************)
(* Who may ask for what: the identification of users, their connections,    *)
(* the black list, and the administrator's login and password, on the two   *)
(* servers that share server.db.                                            *)
(*                                                                          *)
(*   http server    identification and the list of songs, each on a thread  *)
(*                  of its own; the checks of a posted file on the one      *)
(*                  handler thread                          (RestApi.cpp)   *)
(*   https server   login, logout and password on the one handler thread    *)
(*                  (the std::async of AuthApi.cpp waits for its own end);  *)
(*                  the black list and the readings of the administrator    *)
(*                  each on a thread of its own        (BlacklistApi.cpp)   *)
(*                                                                          *)
(* A step is one SQL statement: every one commits by itself, so a request   *)
(* acts on what it read some statements ago.  Requests that are refused     *)
(* before they reach the database (a body or a token that is missing, an    *)
(* unknown login) change nothing and are left out.                          *)
(***************************************************************************)
EXTENDS AccountTables, FiniteSets, Naturals

CONSTANTS Password, DEFAULT_PASSWORD,
          Slot,     \* request threads
          AtMost    \* bound: requests of each kind in flight together

ASSUME PasswordAssumption == DEFAULT_PASSWORD \in Password
ASSUME AtMostAssumption == AtMost \in [{"identification", "usager", "auth", "superviseur"} -> Nat]

VARIABLES user, connections, adminPassword, admin,   \* the tables
          req,     \* Slot -> the request a thread is serving
          made,    \* the ids generateId has returned
          given    \* those that were answered to a client

tables == <<user, connections, adminPassword, admin>>
vars == <<tables, req, made, given>>

-----------------------------------------------------------------------------
(* State *)

IdentificationPC == {"byMac", "connected", "blocked", "create", "connect"}
PostPC == {"postUser", "postBlocked", "postConnected"}
UsagerPC == {"listUser", "listConnected", "listBlocked"} \cup PostPC
AuthPC == {"loginAdmin", "loginUser", "loginHash", "loginConnect",
           "logoutAdmin", "logoutDisconnect", "changeHash", "changeSet", "volumeAdmin"}
SuperviseurPC == {"blockAdmin", "blockRead", "blockSet", "unblockRead", "unblockSet",
                  "readAdmin"}

Request == [pc : {"idle"} \cup IdentificationPC \cup UsagerPC \cup AuthPC \cup SuperviseurPC,
            mac : Mac \cup {NoMac},     \* the mac of the request, or of its user
            token : Id \cup {NoId},     \* the X-Auth-Token, or the id to answer
            connected : BOOLEAN,        \* what isUserConnected said
            password : Password,        \* mot_de_passe, or ancien
            nouveau : Password,
            overlap : BOOLEAN,          \* history: met another identification of its mac
            open : SUBSET Mac]          \* history: macs that were not blocked at some time

Idle == [pc |-> "idle", mac |-> NoMac, token |-> NoId, connected |-> FALSE,
         password |-> DEFAULT_PASSWORD, nouveau |-> DEFAULT_PASSWORD,
         overlap |-> FALSE, open |-> {}]

Requests(pcs) == {r \in Slot : req[r].pc \in pcs}
Blocked(mac) == getBlacklistByMAC(user, mac)

Step(r, next) == req' = [req EXCEPT ![r] = next]
Goto(r, pc) == Step(r, [req[r] EXCEPT !.pc = pc])
Done(r) == Step(r, Idle)

Keep == UNCHANGED <<tables, made, given>>

(* A new request on a free thread. *)
Start(r, kind, pcs) ==
    /\ req[r].pc = "idle"
    /\ Cardinality(Requests(pcs)) < AtMost[kind]
    /\ Keep

Fresh == [Idle EXCEPT !.open = {m \in Mac : ~Blocked(m)}]

-----------------------------------------------------------------------------
(* getIdentification_ *)

Same(s, mac) == req[s].pc \in IdentificationPC /\ req[s].mac = mac

Identify(r) ==
    \E mac \in Mac :
        LET met == \E s \in Slot : Same(s, mac)
        IN  /\ Start(r, "identification", IdentificationPC)
            /\ req' = [s \in Slot |->
                         IF s = r THEN [Fresh EXCEPT !.pc = "byMac", !.mac = mac, !.overlap = met]
                         ELSE IF Same(s, mac) THEN [req[s] EXCEPT !.overlap = TRUE]
                         ELSE req[s]]

ReadByMac(r) ==
    /\ req[r].pc = "byMac"
    /\ Step(r, [req[r] EXCEPT !.pc = "connected", !.token = getUserByMac(user, req[r].mac).userId])
    /\ Keep

ReadConnected(r) ==
    /\ req[r].pc = "connected"
    /\ Step(r, [req[r] EXCEPT !.pc = "blocked",
                              !.connected = isUserConnected(connections, req[r].token)])
    /\ Keep

(* getBlacklistByMAC is asked for the mac of the row that was found. *)
RefuseBlocked(r) ==
    /\ req[r].pc = "blocked"
    /\ req[r].token # NoId /\ Blocked(req[r].mac)
    /\ Done(r)
    /\ Keep

NotRefusedEver(r) == req[r].pc = "blocked"   \* a fault: a blocked user passes

NotRefused(r) == /\ req[r].pc = "blocked"
                 /\ req[r].token # NoId => ~Blocked(req[r].mac)

(* A fault: the id of a connected user is not kept. *)
GenerateAlways(r) ==
    /\ NotRefused(r)
    /\ \E id \in Id \ made : /\ made' = made \cup {id}
                             /\ Step(r, [req[r] EXCEPT !.pc = "create", !.token = id])
    /\ UNCHANGED <<tables, given>>

(* generateId for an unknown user or one whose connection is over; the id   *)
(* of the row otherwise.                                                    *)
AssignId(r) ==
    /\ NotRefused(r)
    /\ IF req[r].connected
       THEN Goto(r, "create") /\ UNCHANGED made
       ELSE \E id \in Id \ made : /\ made' = made \cup {id}
                                  /\ Step(r, [req[r] EXCEPT !.pc = "create", !.token = id])
    /\ UNCHANGED <<tables, given>>

(* The history of every request in flight: mac is not blocked any more. *)
Opened(next, mac) ==
    [s \in Slot |-> IF next[s].pc = "idle" THEN next[s] ELSE [next[s] EXCEPT !.open = @ \cup {mac}]]

CreateUser(r) ==
    /\ req[r].pc = "create"
    /\ user' = createUser(user, req[r].mac, req[r].token)
    /\ req' = Opened([req EXCEPT ![r].pc = "connect"], req[r].mac)
    /\ UNCHANGED <<connections, adminPassword, admin, made, given>>

ConnectUser(r) ==
    /\ req[r].pc = "connect"
    /\ connections' = connectUser(connections, req[r].token)
    /\ given' = given \cup {req[r].token}
    /\ Done(r)
    /\ UNCHANGED <<user, adminPassword, admin, made>>

(* A day has passed since the last connectUser of an id. *)
Expire(id) ==
    /\ id \in connections
    /\ connections' = connections \ {id}
    /\ UNCHANGED <<user, adminPassword, admin, req, made, given>>

-----------------------------------------------------------------------------
(* getFileList_ and the checks of postFile_ *)

AskAsUser(r) ==
    \E token \in given :
        /\ Start(r, "usager", UsagerPC)
        /\ \/ Step(r, [Fresh EXCEPT !.pc = "listUser", !.token = token])
           \/ /\ Requests(PostPC) = {}   \* one handler thread
              /\ Step(r, [Fresh EXCEPT !.pc = "postUser", !.token = token])

(* getUserFromRequestToken_ *)
FindUser(r) ==
    /\ req[r].pc \in {"listUser", "postUser"}
    /\ LET requestUser == getUserById(user, req[r].token)
           next == IF req[r].pc = "listUser" THEN "listConnected" ELSE "postBlocked"
       IN  IF requestUser = NoUser THEN Done(r)
           ELSE Step(r, [req[r] EXCEPT !.pc = next, !.mac = requestUser.mac])
    /\ Keep

ListConnected(r) ==
    /\ req[r].pc = "listConnected"
    /\ Step(r, [req[r] EXCEPT !.pc = "listBlocked",
                              !.connected = isUserConnected(connections, req[r].token)])
    /\ Keep

(* The list is answered, or the request is refused. *)
ListAnswered(r) ==
    /\ req[r].pc = "listBlocked" /\ ~Blocked(req[r].mac) /\ req[r].connected
    /\ Done(r)
    /\ Keep

ListRefused(r) ==
    /\ req[r].pc = "listBlocked" /\ (Blocked(req[r].mac) \/ ~req[r].connected)
    /\ Done(r)
    /\ Keep

(* A fault: the black list is not looked at. *)
PostUnchecked(r) ==
    /\ req[r].pc = "postBlocked"
    /\ Goto(r, "postConnected")
    /\ Keep

PostBlocked(r) ==
    /\ req[r].pc = "postBlocked"
    /\ IF Blocked(req[r].mac) THEN Done(r) ELSE Goto(r, "postConnected")
    /\ Keep

(* The file goes on to be written: Jukebox. *)
PostAdmitted(r) ==
    /\ req[r].pc = "postConnected" /\ isUserConnected(connections, req[r].token)
    /\ Done(r)
    /\ Keep

PostRefused(r) ==
    /\ req[r].pc = "postConnected" /\ ~isUserConnected(connections, req[r].token)
    /\ Done(r)
    /\ Keep

-----------------------------------------------------------------------------
(* AuthApi, on the handler thread *)

HandlerFreeAlways == TRUE   \* a fault: several handler threads

HandlerFree == Requests(AuthPC) = {}

AskHandler(r) ==
    /\ HandlerFree
    /\ Start(r, "auth", AuthPC)
    /\ \/ \E token \in given, pc \in {"logoutAdmin", "volumeAdmin"} :
             Step(r, [Fresh EXCEPT !.pc = pc, !.token = token])
       \/ \E token \in given, password \in Password :
             Step(r, [Fresh EXCEPT !.pc = "loginAdmin", !.token = token, !.password = password])
       \/ \E ancien, nouveau \in Password :
             /\ nouveau # ancien   \* "password unchanged" otherwise
             /\ Step(r, [Fresh EXCEPT !.pc = "changeHash", !.password = ancien, !.nouveau = nouveau])

(* "Applying idempotent behaviour and return OK" *)
LoginAdmin(r) ==
    /\ req[r].pc = "loginAdmin"
    /\ IF isAdminConnected(admin, req[r].token) THEN Done(r) ELSE Goto(r, "loginUser")
    /\ Keep

LoginUser(r) ==
    /\ req[r].pc = "loginUser"
    /\ IF isUserConnected(connections, req[r].token) THEN Goto(r, "loginHash") ELSE Done(r)
    /\ Keep

(* getSaltAndHashedPasswordByLogin and generateMd5Hash: two hashes with the  *)
(* same salt are equal when the passwords are.                               *)
CheckPassword(r) ==
    /\ req[r].pc \in {"loginHash", "changeHash"}
    /\ IF req[r].password = adminPassword
       THEN Goto(r, IF req[r].pc = "loginHash" THEN "loginConnect" ELSE "changeSet")
       ELSE Done(r)
    /\ Keep

ConnectAdmin(r) ==
    /\ req[r].pc = "loginConnect"
    /\ admin' = connectAdmin(req[r].token)
    /\ Done(r)
    /\ UNCHANGED <<user, connections, adminPassword, made, given>>

SetAdminPassword(r) ==
    /\ req[r].pc = "changeSet"
    /\ adminPassword' = req[r].nouveau
    /\ Done(r)
    /\ UNCHANGED <<user, connections, admin, made, given>>

(* getAdminDataFromRequestToken *)
LogoutAdmin(r) ==
    /\ req[r].pc = "logoutAdmin"
    /\ IF isAdminConnected(admin, req[r].token) THEN Goto(r, "logoutDisconnect") ELSE Done(r)
    /\ Keep

DisconnectAdmin(r) ==
    /\ req[r].pc = "logoutDisconnect"
    /\ admin' = disconnectAdmin(admin, req[r].token)
    /\ Done(r)
    /\ UNCHANGED <<user, connections, adminPassword, made, given>>

-----------------------------------------------------------------------------
(* BlacklistApi and the requests that only read *)

AskAsAdmin(r) ==
    /\ Start(r, "superviseur", SuperviseurPC)
    /\ \/ \E token \in given \cup {NoId}, mac \in Mac :
             Step(r, [Fresh EXCEPT !.pc = "blockAdmin", !.token = token, !.mac = mac])
       \/ \E mac \in Mac : Step(r, [Fresh EXCEPT !.pc = "unblockRead", !.mac = mac])
       \/ \E token \in given : Step(r, [Fresh EXCEPT !.pc = "readAdmin", !.token = token])

(* checkIfAdmin_: a token of 0 passes. *)
BlockAdmin(r) ==
    /\ req[r].pc = "blockAdmin"
    /\ IF req[r].token # NoId /\ ~isAdminConnected(admin, req[r].token)
       THEN Done(r) ELSE Goto(r, "blockRead")
    /\ Keep

BlockRead(r) ==
    /\ req[r].pc = "blockRead"
    /\ IF Blocked(req[r].mac) THEN Done(r) ELSE Goto(r, "blockSet")
    /\ Keep

(* A mac without a row is answered "User blocked" all the same. *)
Block(r) ==
    /\ req[r].pc = "blockSet"
    /\ user' = blacklistMAC(user, req[r].mac)
    /\ Done(r)
    /\ UNCHANGED <<connections, adminPassword, admin, made, given>>

UnblockRead(r) ==
    /\ req[r].pc = "unblockRead"
    /\ IF Blocked(req[r].mac) THEN Goto(r, "unblockSet") ELSE Done(r)
    /\ Keep

Unblock(r) ==
    /\ req[r].pc = "unblockSet"
    /\ user' = whitelistMAC(user, req[r].mac)
    /\ req' = Opened([req EXCEPT ![r] = Idle], req[r].mac)
    /\ UNCHANGED <<connections, adminPassword, admin, made, given>>

(* The black list, the statistics, the list of songs as the administrator    *)
(* sees it and the volume: answered to the one admin_id that is connected.   *)
ReadAsAdmin(r) ==
    /\ req[r].pc \in {"readAdmin", "volumeAdmin"}
    /\ Done(r)
    /\ Keep

-----------------------------------------------------------------------------
(* The servers stop and start: the tables stay, initDefaultAdmin finds a row *)
(* of adminLogin, and every request is gone.                                 *)
Restart ==
    /\ Requests({"idle"}) # Slot
    /\ req' = [r \in Slot |-> Idle]
    /\ Keep

(* struct.sql, then initDefaultAdmin. *)
Init ==
    /\ user = {} /\ connections = {}
    /\ adminPassword = DEFAULT_PASSWORD
    /\ admin = [adminId |-> NoId, isConnected |-> FALSE]
    /\ req = [r \in Slot |-> Idle]
    /\ made = {} /\ given = {}

Identification(r) == \/ Identify(r) \/ ReadByMac(r) \/ ReadConnected(r) \/ RefuseBlocked(r)
                     \/ AssignId(r) \/ CreateUser(r) \/ ConnectUser(r)

Usager(r) == \/ AskAsUser(r) \/ FindUser(r) \/ ListConnected(r) \/ ListAnswered(r)
             \/ ListRefused(r) \/ PostBlocked(r) \/ PostAdmitted(r) \/ PostRefused(r)

Auth(r) == \/ AskHandler(r) \/ LoginAdmin(r) \/ LoginUser(r) \/ CheckPassword(r)
           \/ ConnectAdmin(r) \/ SetAdminPassword(r) \/ LogoutAdmin(r) \/ DisconnectAdmin(r)

Superviseur(r) == \/ AskAsAdmin(r) \/ BlockAdmin(r) \/ BlockRead(r) \/ Block(r)
                  \/ UnblockRead(r) \/ Unblock(r) \/ ReadAsAdmin(r)

Next == \/ \E r \in Slot : Identification(r) \/ Usager(r) \/ Auth(r) \/ Superviseur(r)
        \/ \E id \in Id : Expire(id)
        \/ Restart

Spec == Init /\ [][Next]_vars

-----------------------------------------------------------------------------
(* Properties *)

(* Type invariant.  MAC addresses and ids are unique in user, and every id   *)
(* that a table or a request holds came from generateId.                     *)
TypeOK ==
    /\ user \subseteq User_t
    /\ \A row, other \in user :
         row.mac = other.mac \/ row.userId = other.userId => row = other
    /\ \A row \in user : row.userId \in made
    /\ connections \subseteq given /\ given \subseteq made /\ made \subseteq Id
    /\ adminPassword \in Password
    /\ admin \in AdminConnection /\ admin.adminId \in given \cup {NoId}
    /\ req \in [Slot -> Request]
    /\ \A r \in Slot : req[r].token \in made \cup {NoId}

(* A block (BlacklistApi.cpp) is undone by an unblock, or by an              *)
(* identification that was already under way when the block came: createUser *)
(* replaces the row it read, and the flag with it.                           *)
BlockSticks ==
    [][\A mac \in Mac :
         Blocked(mac) /\ ~Blocked(mac)' =>
             \E r \in Slot : /\ req[r].mac = mac
                            /\ \/ Unblock(r)
                               \/ CreateUser(r) /\ mac \in req[r].open]_vars

(* A user who is blocked from the beginning of a request to its end gets     *)
(* nothing from the http server: no id, no list, no place for a file.        *)
ShutOut ==
    [][\A r \in Slot : ConnectUser(r) \/ ListAnswered(r) \/ PostAdmitted(r)
                         => req[r].mac \in req[r].open]_vars

(* The id an identification answers is that of the user's row, unless        *)
(* another identification of the same mac was served at the same time: then  *)
(* the client may be left with an id that nobody has any more.               *)
AnswerLives ==
    [][\A r \in Slot : ConnectUser(r) /\ ~req[r].overlap =>
         \E row \in user' : row.mac = req[r].mac /\ row.userId = req[r].token]_vars

(* A user keeps its id, and with it its songs, for as long as its connection *)
(* lasts: only one of two identifications at the same time takes it away.    *)
TokenKept ==
    [][\A row \in user :
         /\ row.userId \in connections
         /\ getUserById(user', row.userId) = NoUser
         => \E r \in Slot : CreateUser(r) /\ req[r].mac = row.mac /\ req[r].overlap]_vars

(* When an administrator is connected or the password replaced, the password *)
(* of the request is the one in force at that moment and not only at the     *)
(* moment it was compared (AuthApi.cpp).                                     *)
PasswordInForce ==
    [][\A r \in Slot : ConnectAdmin(r) \/ SetAdminPassword(r)
                         => req[r].password = adminPassword]_vars
=============================================================================
