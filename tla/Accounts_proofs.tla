---------------------------- MODULE Accounts_proofs ----------------------------
(***************************************************************************)
(* Proofs about Accounts, for every value of its constants.                 *)
(***************************************************************************)
EXTENDS Accounts, TLAPS

-----------------------------------------------------------------------------
(* The tables *)

Unique(rows) == \A row, other \in rows :
                   row.mac = other.mac \/ row.userId = other.userId => row = other

(* What a query by mac or by id returns. *)
LEMMA FoundByMac ==
    ASSUME NEW rows \in SUBSET User_t, NEW mac
    PROVE  \/ /\ getUserByMac(rows, mac) = NoUser
              /\ \A row \in rows : row.mac # mac
           \/ /\ getUserByMac(rows, mac) \in rows
              /\ getUserByMac(rows, mac).mac = mac
  <1> DEFINE hits == {row \in rows : row.mac = mac}
  <1>1. CASE hits = {}
    BY <1>1 DEF getUserByMac, getUserByQuery
  <1>2. CASE hits # {}
    <2>1. (CHOOSE row \in hits : TRUE) \in hits
      BY <1>2
    <2> QED BY <1>2, <2>1 DEF getUserByMac, getUserByQuery
  <1> QED BY <1>1, <1>2

LEMMA FoundById ==
    ASSUME NEW rows \in SUBSET User_t, NEW id
    PROVE  \/ /\ getUserById(rows, id) = NoUser
              /\ \A row \in rows : row.userId # id
           \/ /\ getUserById(rows, id) \in rows
              /\ getUserById(rows, id).userId = id
  <1> DEFINE hits == {row \in rows : row.userId = id}
  <1>1. CASE hits = {}
    BY <1>1 DEF getUserById, getUserByQuery
  <1>2. CASE hits # {}
    <2>1. (CHOOSE row \in hits : TRUE) \in hits
      BY <1>2
    <2> QED BY <1>2, <2>1 DEF getUserById, getUserByQuery
  <1> QED BY <1>1, <1>2

(* createUser replaces whatever rows hold the mac or the id. *)
Added(mac, id) == [mac |-> mac, userId |-> id, isBlocked |-> FALSE]

Replaced(rows, new, mac, id) ==
    /\ new \subseteq User_t
    /\ Unique(new)
    /\ \A row \in new : \/ row \in rows /\ row.mac # mac /\ row.userId # id
                        \/ row = Added(mac, id)
    /\ \A row \in rows : row.mac # mac /\ row.userId # id => row \in new
    /\ Added(mac, id) \in new

LEMMA CreateUserRows ==
    ASSUME NEW rows \in SUBSET User_t, Unique(rows), NEW mac \in Mac, NEW id \in Id
    PROVE  Replaced(rows, createUser(rows, mac, id), mac, id)
  <1> DEFINE new == createUser(rows, mac, id)
  <1>1. /\ Added(mac, id) \in User_t
        /\ Added(mac, id).mac = mac /\ Added(mac, id).userId = id
    BY DEF User_t, Added
  <1>2. new = {row \in rows : row.mac # mac /\ row.userId # id} \cup {Added(mac, id)}
    BY DEF createUser, Added
  <1> HIDE DEF new
  <1>3. \A row \in new : \/ row \in rows /\ row.mac # mac /\ row.userId # id
                        \/ row = Added(mac, id)
    BY <1>2
  <1>4. /\ \A row \in rows : row.mac # mac /\ row.userId # id => row \in new
        /\ Added(mac, id) \in new
    BY <1>2
  <1>5. new \subseteq User_t
    BY <1>1, <1>3
  <1>6. Unique(new)
    BY <1>1, <1>3 DEF Unique
  <1>7. Replaced(rows, new, mac, id)
    BY <1>3, <1>4, <1>5, <1>6 DEF Replaced
  <1> QED BY <1>7 DEF new

(* setBlacklistFlag_ keeps every row, with its mac and its id. *)
SameRow(row, old, mac, flag) ==
    /\ row.mac = old.mac /\ row.userId = old.userId
    /\ row.isBlocked = IF row.mac = mac THEN flag ELSE old.isBlocked

Flagged(rows, new, mac, flag) ==
    /\ new \subseteq User_t
    /\ Unique(new)
    /\ \A row \in new : \E old \in rows : SameRow(row, old, mac, flag)
    /\ \A old \in rows : \E row \in new : SameRow(row, old, mac, flag)

LEMMA FlagRows ==
    ASSUME NEW rows \in SUBSET User_t, Unique(rows), NEW mac \in Mac, NEW flag \in BOOLEAN
    PROVE  Flagged(rows, setBlacklistFlag(rows, mac, flag), mac, flag)
  <1> DEFINE Set(row) == IF row.mac = mac THEN [row EXCEPT !.isBlocked = flag] ELSE row
             new == setBlacklistFlag(rows, mac, flag)
  <1>1. new = {Set(row) : row \in rows}
    BY DEF setBlacklistFlag
  <1>2. \A row \in rows : Set(row) \in User_t /\ SameRow(Set(row), row, mac, flag)
    BY DEF User_t, SameRow
  <1>3. \A row \in new : \E old \in rows : row = Set(old)
    BY <1>1
  <1>4. \A old \in rows : Set(old) \in new
    BY <1>1
  <1> HIDE DEF Set, new
  <1>5. Unique(new)
    <2> SUFFICES ASSUME NEW a \in new, NEW b \in new, a.mac = b.mac \/ a.userId = b.userId
                 PROVE  a = b
      BY DEF Unique
    <2>1. PICK x \in rows : a = Set(x)
      BY <1>3
    <2>2. PICK y \in rows : b = Set(y)
      BY <1>3
    <2>3. x = y
      BY <2>1, <2>2, <1>2 DEF Unique, SameRow
    <2> QED BY <2>1, <2>2, <2>3
  <1>6. /\ new \subseteq User_t
        /\ \A row \in new : \E old \in rows : SameRow(row, old, mac, flag)
    BY <1>2, <1>3
  <1>7. \A old \in rows : \E row \in new : SameRow(row, old, mac, flag)
    BY <1>2, <1>4
  <1>8. Flagged(rows, new, mac, flag)
    BY <1>5, <1>6, <1>7 DEF Flagged
  <1> QED BY <1>8 DEF new

(* What the two writers of user do to the black list. *)
LEMMA BlacklistOf ==
    ASSUME NEW rows \in SUBSET User_t, NEW mac
    PROVE  getBlacklistByMAC(rows, mac) <=> \E row \in rows : row.isBlocked /\ row.mac = mac
  BY DEF getBlacklistByMAC, getBlackList

LEMMA ReplacedBlacklist ==
    ASSUME NEW rows \in SUBSET User_t, NEW new, NEW mac \in Mac, NEW id \in Id,
           Replaced(rows, new, mac, id),
           \A row \in rows : row.userId = id => row.mac = mac,
           NEW other \in Mac
    PROVE  getBlacklistByMAC(new, other) <=> other # mac /\ getBlacklistByMAC(rows, other)
  <1>1. /\ new \in SUBSET User_t
        /\ \A row \in new : (row \in rows /\ row.mac # mac) \/ row = Added(mac, id)
        /\ \A row \in rows : row.mac # mac => row \in new
    BY DEF Replaced
  <1>2. Added(mac, id).mac = mac /\ Added(mac, id).isBlocked = FALSE
    BY DEF Added
  <1>3. getBlacklistByMAC(new, other) <=> \E row \in new : row.isBlocked /\ row.mac = other
    BY <1>1, BlacklistOf
  <1>4. getBlacklistByMAC(rows, other) <=> \E row \in rows : row.isBlocked /\ row.mac = other
    BY BlacklistOf
  <1> QED BY <1>1, <1>2, <1>3, <1>4

LEMMA FlaggedBlacklist ==
    ASSUME NEW rows \in SUBSET User_t, NEW new, NEW mac \in Mac, NEW flag \in BOOLEAN,
           Flagged(rows, new, mac, flag), NEW other \in Mac
    PROVE  /\ getBlacklistByMAC(new, other) => flag \/ getBlacklistByMAC(rows, other)
           /\ getBlacklistByMAC(rows, other) /\ (flag \/ other # mac)
                => getBlacklistByMAC(new, other)
  <1>1. new \in SUBSET User_t
    BY DEF Flagged
  <1>2. getBlacklistByMAC(new, other) <=> \E row \in new : row.isBlocked /\ row.mac = other
    BY <1>1, BlacklistOf
  <1>3. getBlacklistByMAC(rows, other) <=> \E row \in rows : row.isBlocked /\ row.mac = other
    BY BlacklistOf
  <1>4. ASSUME getBlacklistByMAC(new, other)
        PROVE  flag \/ getBlacklistByMAC(rows, other)
    <2>1. PICK row \in new : row.isBlocked /\ row.mac = other
      BY <1>2, <1>4
    <2>2. PICK old \in rows : SameRow(row, old, mac, flag)
      BY DEF Flagged
    <2> QED BY <1>3, <2>1, <2>2 DEF SameRow
  <1>5. ASSUME getBlacklistByMAC(rows, other), flag \/ other # mac
        PROVE  getBlacklistByMAC(new, other)
    <2>1. PICK old \in rows : old.isBlocked /\ old.mac = other
      BY <1>3, <1>5
    <2>2. PICK row \in new : SameRow(row, old, mac, flag)
      BY DEF Flagged
    <2> QED BY <1>2, <1>5, <2>1, <2>2 DEF SameRow
  <1> QED BY <1>4, <1>5

-----------------------------------------------------------------------------
(* A step of one request *)

(* Step replaces the record of one thread. *)
LEMMA Stepped ==
    ASSUME req \in [Slot -> Request], NEW r \in Slot, NEW next \in Request, Step(r, next)
    PROVE  /\ req' \in [Slot -> Request]
           /\ req'[r] = next
           /\ \A s \in Slot \ {r} : req'[s] = req[s]
  BY DEF Step

PC == {"idle"} \cup IdentificationPC \cup UsagerPC \cup AuthPC \cup SuperviseurPC

(* Goto changes where a thread is, and nothing it knows. *)
LEMMA Went ==
    ASSUME req \in [Slot -> Request], NEW r \in Slot, NEW pc \in PC, Goto(r, pc)
    PROVE  /\ req' \in [Slot -> Request]
           /\ req'[r].pc = pc
           /\ req'[r].mac = req[r].mac /\ req'[r].token = req[r].token
           /\ req'[r].connected = req[r].connected /\ req'[r].password = req[r].password
           /\ req'[r].nouveau = req[r].nouveau /\ req'[r].overlap = req[r].overlap
           /\ req'[r].open = req[r].open
           /\ \A s \in Slot \ {r} : req'[s] = req[s]
  <1> DEFINE next == [req[r] EXCEPT !.pc = pc]
  <1>1. req[r] \in Request
    OBVIOUS
  <1>2. /\ next \in Request
        /\ next.pc = pc
        /\ next.mac = req[r].mac /\ next.token = req[r].token
        /\ next.connected = req[r].connected /\ next.password = req[r].password
        /\ next.nouveau = req[r].nouveau /\ next.overlap = req[r].overlap
        /\ next.open = req[r].open
    BY <1>1 DEF Request, PC
  <1>3. Step(r, next)
    BY DEF Goto
  <1> HIDE DEF next
  <1>4. /\ req' \in [Slot -> Request]
        /\ req'[r] = next
        /\ \A s \in Slot \ {r} : req'[s] = req[s]
    BY <1>2, <1>3, Stepped
  <1> QED BY <1>2, <1>4

LEMMA IdleFields ==
    /\ Idle \in Request
    /\ Idle.pc = "idle" /\ Idle.mac = NoMac /\ Idle.token = NoId /\ Idle.connected = FALSE
    /\ Idle.password = DEFAULT_PASSWORD /\ Idle.nouveau = DEFAULT_PASSWORD
    /\ Idle.overlap = FALSE /\ Idle.open = {}
  BY PasswordAssumption DEF Idle, Request

LEMMA FreshFields ==
    /\ Fresh \in Request
    /\ Fresh.pc = "idle" /\ Fresh.mac = NoMac /\ Fresh.token = NoId /\ Fresh.connected = FALSE
    /\ Fresh.password = DEFAULT_PASSWORD /\ Fresh.nouveau = DEFAULT_PASSWORD
    /\ Fresh.overlap = FALSE /\ Fresh.open = {m \in Mac : ~Blocked(m)}
  BY PasswordAssumption DEF Fresh, Idle, Request

LEMMA Finished ==
    ASSUME req \in [Slot -> Request], NEW r \in Slot, Done(r)
    PROVE  /\ req' \in [Slot -> Request]
           /\ req'[r] = Idle
           /\ \A s \in Slot \ {r} : req'[s] = req[s]
  BY IdleFields, Stepped DEF Done

-----------------------------------------------------------------------------
(* Type correctness *)

MacPC == IdentificationPC
         \cup {"listConnected", "listBlocked", "postBlocked", "postConnected",
               "blockAdmin", "blockRead", "blockSet", "unblockRead", "unblockSet"}

(* A thread past its first statement knows the mac it serves, and the id an  *)
(* identification is about to write or to answer exists.                     *)
Grounded ==
    \A r \in Slot :
        /\ req[r].pc \in MacPC => req[r].mac \in Mac
        /\ req[r].pc \in {"create", "connect"} => req[r].token \in made
        /\ req[r].pc = "blocked" /\ req[r].connected => req[r].token \in made
        /\ req[r].pc \in AuthPC => req[r].token \in given \cup {NoId}

TypeInv == TypeOK /\ Grounded

(* What a step keeps when it writes no table. *)
LEMMA KeepTables ==
    ASSUME Keep
    PROVE  /\ user' = user /\ connections' = connections /\ adminPassword' = adminPassword
           /\ admin' = admin /\ made' = made /\ given' = given
  BY DEF Keep, tables

(* A step that writes no table keeps the types if the new request is typed. *)
LEMMA TypedStep ==
    ASSUME TypeInv, Keep, NEW r \in Slot,
           req' \in [Slot -> Request],
           \A s \in Slot \ {r} : req'[s] = req[s],
           req'[r].token \in made \cup {NoId},
           req'[r].pc \in MacPC => req'[r].mac \in Mac,
           req'[r].pc \in {"create", "connect"} => req'[r].token \in made,
           req'[r].pc = "blocked" /\ req'[r].connected => req'[r].token \in made,
           req'[r].pc \in AuthPC => req'[r].token \in given \cup {NoId}
    PROVE  TypeInv'
  <1>1. /\ user' = user /\ connections' = connections /\ adminPassword' = adminPassword
        /\ admin' = admin /\ made' = made /\ given' = given
    BY KeepTables
  <1>2. TypeOK'
    BY <1>1 DEF TypeInv, TypeOK
  <1>3. Grounded'
    BY <1>1 DEF TypeInv, Grounded
  <1> QED BY <1>2, <1>3 DEF TypeInv

(* Three common forms of it. *)
LEMMA TypedDone ==
    ASSUME TypeInv, Keep, NEW r \in Slot, Done(r)
    PROVE  TypeInv'
  <1>1. req \in [Slot -> Request]
    BY DEF TypeInv, TypeOK
  <1>2. /\ req' \in [Slot -> Request] /\ req'[r] = Idle
        /\ \A s \in Slot \ {r} : req'[s] = req[s]
    BY <1>1, Finished
  <1> QED BY <1>2, IdleFields, TypedStep DEF MacPC, IdentificationPC, AuthPC

LEMMA TypedGoto ==
    ASSUME TypeInv, Keep, NEW r \in Slot, NEW pc \in PC, Goto(r, pc),
           pc \in MacPC => req[r].mac \in Mac,
           pc \in {"create", "connect"} => req[r].token \in made,
           pc # "blocked",
           pc \in AuthPC => req[r].token \in given \cup {NoId}
    PROVE  TypeInv'
  <1>1. req \in [Slot -> Request] /\ req[r].token \in made \cup {NoId}
    BY DEF TypeInv, TypeOK
  <1>2. /\ req' \in [Slot -> Request]
        /\ req'[r].pc = pc /\ req'[r].mac = req[r].mac /\ req'[r].token = req[r].token
        /\ req'[r].connected = req[r].connected
        /\ \A s \in Slot \ {r} : req'[s] = req[s]
    BY <1>1, Went
  <1> QED BY <1>1, <1>2, TypedStep

LEMMA TypedNew ==
    ASSUME TypeInv, Keep, NEW r \in Slot, NEW next \in Request, Step(r, next),
           next.token \in made \cup {NoId},
           next.pc \in MacPC => next.mac \in Mac,
           next.pc \in {"create", "connect"} => next.token \in made,
           next.pc = "blocked" /\ next.connected => next.token \in made,
           next.pc \in AuthPC => next.token \in given \cup {NoId}
    PROVE  TypeInv'
  <1>1. req \in [Slot -> Request]
    BY DEF TypeInv, TypeOK
  <1>2. /\ req' \in [Slot -> Request] /\ req'[r] = next
        /\ \A s \in Slot \ {r} : req'[s] = req[s]
    BY <1>1, Stepped
  <1> QED BY <1>2, TypedStep


THEOREM TypeInit == Init => TypeInv
  <1> SUFFICES ASSUME Init PROVE TypeInv
    OBVIOUS
  <1>1. req \in [Slot -> Request] /\ \A r \in Slot : req[r] = Idle
    BY IdleFields DEF Init
  <1>2. TypeOK
    BY <1>1, IdleFields, PasswordAssumption DEF Init, TypeOK, AdminConnection
  <1>3. Grounded
    BY <1>1, IdleFields DEF Grounded, MacPC, IdentificationPC, AuthPC
  <1> QED BY <1>2, <1>3 DEF TypeInv

THEOREM TypeStep == TypeInv /\ [Next]_vars => TypeInv'
  <1> SUFFICES ASSUME TypeInv, [Next]_vars PROVE TypeInv'
    OBVIOUS
  <1> USE DEF TypeInv
  <1>0. /\ req \in [Slot -> Request]
        /\ user \in SUBSET User_t /\ Unique(user)
        /\ \A s \in Slot : req[s].token \in made \cup {NoId}
    BY DEF TypeOK, Unique
  <1>f. ASSUME NEW r \in Slot
        PROVE  req[r] \in Request /\ req[r].token \in made \cup {NoId}
    BY <1>0
  <1>1. ASSUME NEW r \in Slot, Identify(r) PROVE TypeInv'
    <2>1. PICK mac \in Mac :
             /\ Start(r, "identification", IdentificationPC)
             /\ req' = [s \in Slot |->
                   IF s = r THEN [Fresh EXCEPT !.pc = "byMac", !.mac = mac,
                                               !.overlap = \E o \in Slot : Same(o, mac)]
                   ELSE IF Same(s, mac) THEN [req[s] EXCEPT !.overlap = TRUE]
                   ELSE req[s]]
      BY <1>1 DEF Identify
    <2> DEFINE mine == [Fresh EXCEPT !.pc = "byMac", !.mac = mac,
                                     !.overlap = \E o \in Slot : Same(o, mac)]
    <2>2. /\ mine \in Request /\ mine.pc = "byMac" /\ mine.mac = mac /\ mine.token = NoId
      BY FreshFields DEF Request, IdentificationPC
    <2>3. \A s \in Slot : LET met == [req[s] EXCEPT !.overlap = TRUE]
                         IN  /\ met \in Request /\ met.pc = req[s].pc /\ met.mac = req[s].mac
                             /\ met.token = req[s].token /\ met.connected = req[s].connected
      BY <1>f DEF Request
    <2>4. req'[r] = mine
      BY <2>1
    <2>5. \A s \in Slot \ {r} : req'[s] = [req[s] EXCEPT !.overlap = TRUE] \/ req'[s] = req[s]
      BY <2>1
    <2> HIDE DEF mine
    <2>6. \A s \in Slot \ {r} : /\ req'[s] \in Request
                               /\ req'[s].pc = req[s].pc /\ req'[s].mac = req[s].mac
                               /\ req'[s].token = req[s].token
                               /\ req'[s].connected = req[s].connected
      BY <1>f, <2>3, <2>5
    <2>7. req' \in [Slot -> Request]
      BY <2>1, <2>2, <2>4, <2>6
    <2>8. /\ user' = user /\ connections' = connections /\ adminPassword' = adminPassword
          /\ admin' = admin /\ made' = made /\ given' = given
      BY <2>1, KeepTables DEF Start
    <2>9. TypeOK'
      BY <2>2, <2>4, <2>6, <2>7, <2>8 DEF TypeOK
    <2>10. Grounded'
      BY <2>2, <2>4, <2>6, <2>8 DEF Grounded, MacPC, IdentificationPC, AuthPC
    <2> QED BY <2>9, <2>10
  <1>2. ASSUME NEW r \in Slot, ReadByMac(r) PROVE TypeInv'
    <2> DEFINE id == getUserByMac(user, req[r].mac).userId
               next == [req[r] EXCEPT !.pc = "connected", !.token = id]
    <2>1. req[r].pc = "byMac" /\ Step(r, next) /\ Keep
      BY <1>2 DEF ReadByMac
    <2>2. id \in made \cup {NoId} /\ made \subseteq Id
      BY <1>0, FoundByMac DEF TypeOK, User_t, NoUser
    <2>3. req[r].mac \in Mac
      BY <2>1 DEF Grounded, MacPC, IdentificationPC, AuthPC
    <2> HIDE DEF id
    <2>4. next \in Request /\ next.pc = "connected" /\ next.mac = req[r].mac /\ next.token = id
      BY <1>f, <2>2 DEF Request, IdentificationPC
    <2> QED BY <2>1, <2>2, <2>3, <2>4, TypedNew DEF AuthPC
  <1>3. ASSUME NEW r \in Slot, ReadConnected(r) PROVE TypeInv'
    <2> DEFINE next == [req[r] EXCEPT !.pc = "blocked",
                                 !.connected = isUserConnected(connections, req[r].token)]
    <2>1. req[r].pc = "connected" /\ Step(r, next) /\ Keep
      BY <1>3 DEF ReadConnected
    <2>2. isUserConnected(connections, req[r].token) \in BOOLEAN
      BY DEF isUserConnected
    <2>3. /\ next \in Request /\ next.pc = "blocked" /\ next.mac = req[r].mac
          /\ next.token = req[r].token
          /\ next.connected = isUserConnected(connections, req[r].token)
      BY <1>f, <2>2 DEF Request, IdentificationPC
    <2>4. next.connected => next.token \in made
      BY <2>3 DEF isUserConnected, TypeOK
    <2>5. next.mac \in Mac
      BY <2>1, <2>3 DEF Grounded, MacPC, IdentificationPC, AuthPC
    <2> QED BY <1>f, <2>1, <2>3, <2>4, <2>5, TypedNew DEF AuthPC
  <1>4. ASSUME NEW r \in Slot, RefuseBlocked(r) PROVE TypeInv'
    BY <1>4, TypedDone DEF RefuseBlocked
  <1>5. ASSUME NEW r \in Slot, AssignId(r) PROVE TypeInv'
    <2>1. req[r].pc = "blocked" /\ req[r].mac \in Mac
      BY <1>5 DEF AssignId, NotRefused, Grounded, MacPC, IdentificationPC
    <2>2. CASE req[r].connected
      <3>1. Goto(r, "create") /\ made' = made /\ UNCHANGED <<tables, given>>
        BY <1>5, <2>2 DEF AssignId
      <3>2. req[r].token \in made
        BY <2>1, <2>2 DEF Grounded
      <3> QED BY <2>1, <3>1, <3>2, TypedGoto DEF Keep, tables, PC, IdentificationPC, AuthPC
    <2>3. CASE ~req[r].connected
      <3>1. PICK id \in Id \ made :
               /\ made' = made \cup {id}
               /\ Step(r, [req[r] EXCEPT !.pc = "create", !.token = id])
        BY <1>5, <2>3 DEF AssignId
      <3>2. /\ user' = user /\ connections' = connections /\ adminPassword' = adminPassword
            /\ admin' = admin /\ given' = given
        BY <1>5 DEF AssignId, tables
      <3> DEFINE next == [req[r] EXCEPT !.pc = "create", !.token = id]
      <3>3. next \in Request /\ next.pc = "create" /\ next.mac = req[r].mac /\ next.token = id
        BY <1>f DEF Request, IdentificationPC
      <3>4. Step(r, next)
        BY <3>1
      <3> HIDE DEF next
      <3>5. /\ req' \in [Slot -> Request] /\ req'[r] = next
            /\ \A s \in Slot \ {r} : req'[s] = req[s]
        BY <1>0, <3>3, <3>4, Stepped
      <3>a. \A s \in Slot : req'[s].token \in made' \cup {NoId}
        BY <1>f, <3>1, <3>3, <3>5
      <3>b. /\ made' \subseteq Id /\ given' \subseteq made'
            /\ \A row \in user' : row.userId \in made'
        BY <3>1, <3>2 DEF TypeOK
      <3>6. TypeOK'
        BY <3>2, <3>5, <3>a, <3>b DEF TypeOK
      <3>7. Grounded'
        <4>1. \A s \in Slot \ {r} : req'[s] = req[s] /\ made \subseteq made' /\ given' = given
          BY <3>1, <3>2, <3>5
        <4> QED BY <2>1, <3>1, <3>3, <3>5, <4>1 DEF Grounded, MacPC, IdentificationPC, AuthPC
      <3> QED BY <3>6, <3>7
    <2> QED BY <2>2, <2>3
  <1>6. ASSUME NEW r \in Slot, CreateUser(r) PROVE TypeInv'
    <2> DEFINE next == [req EXCEPT ![r].pc = "connect"]
    <2>1. /\ req[r].pc = "create" /\ req[r].mac \in Mac
          /\ req[r].token \in made /\ req[r].token \in Id
          /\ user' = createUser(user, req[r].mac, req[r].token)
          /\ req' = Opened(next, req[r].mac)
          /\ UNCHANGED <<connections, adminPassword, admin, made, given>>
      BY <1>6 DEF CreateUser, Grounded, MacPC, IdentificationPC, TypeOK
    <2>2. /\ next \in [Slot -> Request]
          /\ next[r].pc = "connect" /\ next[r].mac = req[r].mac /\ next[r].token = req[r].token
          /\ \A s \in Slot \ {r} : next[s] = req[s]
      <3> DEFINE mine == [req[r] EXCEPT !.pc = "connect"]
      <3>1. /\ mine \in Request /\ mine.pc = "connect" /\ mine.mac = req[r].mac
            /\ mine.token = req[r].token
        BY <1>f DEF Request, IdentificationPC
      <3>2. next = [req EXCEPT ![r] = mine]
        BY Zenon
      <3> HIDE DEF mine, next
      <3> QED BY <1>0, <3>1, <3>2
    <2>3. \A s \in Slot : LET o == [next[s] EXCEPT !.open = @ \cup {req[r].mac}]
                         IN  /\ o \in Request /\ o.pc = next[s].pc /\ o.mac = next[s].mac
                             /\ o.token = next[s].token /\ o.connected = next[s].connected
      <3> SUFFICES ASSUME NEW s \in Slot
                   PROVE  LET o == [next[s] EXCEPT !.open = @ \cup {req[r].mac}]
                          IN  /\ o \in Request /\ o.pc = next[s].pc /\ o.mac = next[s].mac
                              /\ o.token = next[s].token /\ o.connected = next[s].connected
        OBVIOUS
      <3>1. next[s] \in Request
        BY <2>2
      <3> HIDE DEF next
      <3> QED BY <2>1, <3>1 DEF Request
    <2>4. \A s \in Slot : req'[s] = next[s] \/ req'[s] = [next[s] EXCEPT !.open = @ \cup {req[r].mac}]
      BY <2>1 DEF Opened
    <2> HIDE DEF next
    <2>5. \A s \in Slot : /\ req'[s] \in Request /\ req'[s].pc = next[s].pc
                         /\ req'[s].mac = next[s].mac /\ req'[s].token = next[s].token
                         /\ req'[s].connected = next[s].connected
      BY <2>2, <2>3, <2>4
    <2>6. req' \in [Slot -> Request]
      BY <2>1, <2>5 DEF Opened
    <2>7. /\ user' \subseteq User_t /\ Unique(user')
          /\ \A row \in user' : row.userId \in made
      <3> DEFINE new == createUser(user, req[r].mac, req[r].token)
      <3>a. user \in SUBSET User_t /\ Unique(user) /\ req[r].mac \in Mac /\ req[r].token \in Id
        BY <1>0, <2>1
      <3>b. Replaced(user, createUser(user, req[r].mac, req[r].token), req[r].mac, req[r].token)
        BY <3>a, CreateUserRows
      <3>1. /\ new \subseteq User_t /\ Unique(new)
            /\ \A row \in new : row \in user \/ row.userId = req[r].token
        BY <3>b DEF Replaced, Added
      <3>2. user' = new
        BY <2>1
      <3> HIDE DEF new
      <3> QED BY <2>1, <3>1, <3>2 DEF TypeOK, Unique
    <2>8. TypeOK'
      BY <2>1, <2>2, <2>5, <2>6, <2>7 DEF TypeOK, Unique
    <2>9. Grounded'
      BY <2>1, <2>2, <2>5 DEF Grounded, MacPC, IdentificationPC, AuthPC
    <2> QED BY <2>8, <2>9
  <1>7. ASSUME NEW r \in Slot, ConnectUser(r) PROVE TypeInv'
    <2>1. /\ req[r].token \in made /\ Done(r)
          /\ connections' = connections \cup {req[r].token}
          /\ given' = given \cup {req[r].token}
          /\ UNCHANGED <<user, adminPassword, admin, made>>
      BY <1>7 DEF ConnectUser, connectUser, Grounded
    <2>2. /\ req' \in [Slot -> Request] /\ req'[r] = Idle
          /\ \A s \in Slot \ {r} : req'[s] = req[s]
      BY <1>0, <2>1, Finished
    <2>3. TypeOK'
      BY <2>1, <2>2, IdleFields DEF TypeOK
    <2>4. Grounded'
      BY <2>1, <2>2, IdleFields DEF Grounded, MacPC, IdentificationPC, AuthPC
    <2> QED BY <2>3, <2>4
  <1>8. ASSUME NEW r \in Slot, AskAsUser(r) PROVE TypeInv'
    <2>1. PICK token \in given :
             \/ Step(r, [Fresh EXCEPT !.pc = "listUser", !.token = token])
             \/ Step(r, [Fresh EXCEPT !.pc = "postUser", !.token = token])
      BY <1>8 DEF AskAsUser
    <2>2. Keep
      BY <1>8 DEF AskAsUser, Start
    <2>3. token \in made /\ token \in Id
      BY DEF TypeOK
    <2>4. \A pc \in {"listUser", "postUser"} :
            LET next == [Fresh EXCEPT !.pc = pc, !.token = token]
            IN  next \in Request /\ next.pc = pc /\ next.token = token
      BY <2>3, FreshFields DEF Request, UsagerPC, PostPC
    <2> QED BY <2>1, <2>2, <2>3, <2>4, TypedNew DEF MacPC, IdentificationPC, AuthPC
  <1>9. ASSUME NEW r \in Slot, FindUser(r) PROVE TypeInv'
    <2> DEFINE found == getUserById(user, req[r].token)
               pc == IF req[r].pc = "listUser" THEN "listConnected" ELSE "postBlocked"
               next == [req[r] EXCEPT !.pc = pc, !.mac = found.mac]
    <2>1. Keep /\ IF found = NoUser THEN Done(r) ELSE Step(r, next)
      BY <1>9 DEF FindUser
    <2>2. found # NoUser => found.mac \in Mac
      BY <1>0, FoundById DEF User_t
    <2> HIDE DEF found
    <2>3. found # NoUser => /\ next \in Request /\ next.pc = pc /\ next.mac = found.mac
                            /\ next.token = req[r].token
      BY <1>f, <2>2 DEF Request, UsagerPC, PostPC
    <2>4. pc \in {"listConnected", "postBlocked"}
      OBVIOUS
    <2> HIDE DEF pc, next
    <2> QED BY <1>f, <2>1, <2>2, <2>3, <2>4, TypedNew, TypedDone DEF AuthPC
  <1>10. ASSUME NEW r \in Slot, ListConnected(r) PROVE TypeInv'
    <2> DEFINE next == [req[r] EXCEPT !.pc = "listBlocked",
                                 !.connected = isUserConnected(connections, req[r].token)]
    <2>1. req[r].pc = "listConnected" /\ Step(r, next) /\ Keep
      BY <1>10 DEF ListConnected
    <2>2. isUserConnected(connections, req[r].token) \in BOOLEAN
      BY DEF isUserConnected
    <2>3. /\ next \in Request /\ next.pc = "listBlocked" /\ next.mac = req[r].mac
          /\ next.token = req[r].token
      BY <1>f, <2>2 DEF Request, UsagerPC
    <2>4. next.mac \in Mac
      BY <2>1, <2>3 DEF Grounded, MacPC
    <2> QED BY <1>f, <2>1, <2>3, <2>4, TypedNew DEF AuthPC
  <1>11. ASSUME NEW r \in Slot, ListAnswered(r) PROVE TypeInv'
    BY <1>11, TypedDone DEF ListAnswered
  <1>12. ASSUME NEW r \in Slot, ListRefused(r) PROVE TypeInv'
    BY <1>12, TypedDone DEF ListRefused
  <1>13. ASSUME NEW r \in Slot, PostBlocked(r) PROVE TypeInv'
    <2>1. req[r].mac \in Mac
      BY <1>13 DEF PostBlocked, Grounded, MacPC
    <2> QED BY <1>13, <2>1, TypedDone, TypedGoto DEF PostBlocked, PC, MacPC, IdentificationPC, UsagerPC, PostPC, AuthPC, SuperviseurPC
  <1>14. ASSUME NEW r \in Slot, PostAdmitted(r) PROVE TypeInv'
    BY <1>14, TypedDone DEF PostAdmitted
  <1>15. ASSUME NEW r \in Slot, PostRefused(r) PROVE TypeInv'
    BY <1>15, TypedDone DEF PostRefused
  <1>16. ASSUME NEW r \in Slot, AskHandler(r) PROVE TypeInv'
    <2>1. Keep
      BY <1>16 DEF AskHandler, Start
    <2>2. given \subseteq made /\ given \subseteq Id
      BY DEF TypeOK
    <2>3. CASE \E token \in given, pc \in {"logoutAdmin", "volumeAdmin"} :
                 Step(r, [Fresh EXCEPT !.pc = pc, !.token = token])
      <3>1. PICK token \in given, pc \in {"logoutAdmin", "volumeAdmin"} :
                   Step(r, [Fresh EXCEPT !.pc = pc, !.token = token])
        BY <2>3
      <3> DEFINE next == [Fresh EXCEPT !.pc = pc, !.token = token]
      <3>2. next \in Request /\ next.pc = pc /\ next.token = token
        BY <2>2, FreshFields DEF Request, AuthPC
      <3> QED BY <2>1, <2>2, <3>1, <3>2, TypedNew DEF MacPC, IdentificationPC, AuthPC
    <2>4. CASE \E token \in given, password \in Password :
                 Step(r, [Fresh EXCEPT !.pc = "loginAdmin", !.token = token, !.password = password])
      <3>1. PICK token \in given, password \in Password :
                   Step(r, [Fresh EXCEPT !.pc = "loginAdmin", !.token = token, !.password = password])
        BY <2>4
      <3> DEFINE next == [Fresh EXCEPT !.pc = "loginAdmin", !.token = token, !.password = password]
      <3>2. next \in Request /\ next.pc = "loginAdmin" /\ next.token = token
        BY <2>2, FreshFields DEF Request, AuthPC
      <3> QED BY <2>1, <2>2, <3>1, <3>2, TypedNew DEF MacPC, IdentificationPC, AuthPC
    <2>5. CASE \E ancien, nouveau \in Password :
                 Step(r, [Fresh EXCEPT !.pc = "changeHash", !.password = ancien, !.nouveau = nouveau])
      <3>1. PICK ancien \in Password, nouveau \in Password :
                   Step(r, [Fresh EXCEPT !.pc = "changeHash", !.password = ancien, !.nouveau = nouveau])
        BY <2>5
      <3> DEFINE next == [Fresh EXCEPT !.pc = "changeHash", !.password = ancien, !.nouveau = nouveau]
      <3>2. next \in Request /\ next.pc = "changeHash" /\ next.token = NoId
        BY FreshFields DEF Request, AuthPC
      <3> QED BY <2>1, <3>1, <3>2, TypedNew DEF MacPC, IdentificationPC, AuthPC
    <2> QED BY <1>16, <2>3, <2>4, <2>5 DEF AskHandler
  <1>17. ASSUME NEW r \in Slot, LoginAdmin(r) PROVE TypeInv'
    <2>1. req[r].token \in given \cup {NoId}
      BY <1>17 DEF LoginAdmin, Grounded, AuthPC
    <2> QED BY <1>17, <2>1, TypedDone, TypedGoto DEF LoginAdmin, PC, MacPC, IdentificationPC, UsagerPC, PostPC, AuthPC, SuperviseurPC
  <1>18. ASSUME NEW r \in Slot, LoginUser(r) PROVE TypeInv'
    <2>1. req[r].token \in given \cup {NoId}
      BY <1>18 DEF LoginUser, Grounded, AuthPC
    <2> QED BY <1>18, <2>1, TypedDone, TypedGoto DEF LoginUser, PC, MacPC, IdentificationPC, UsagerPC, PostPC, AuthPC, SuperviseurPC
  <1>19. ASSUME NEW r \in Slot, CheckPassword(r) PROVE TypeInv'
    <2>1. req[r].token \in given \cup {NoId}
      BY <1>19 DEF CheckPassword, Grounded, AuthPC
    <2> QED BY <1>19, <2>1, TypedDone, TypedGoto DEF CheckPassword, PC, MacPC, IdentificationPC, UsagerPC, PostPC, AuthPC, SuperviseurPC
  <1>20. ASSUME NEW r \in Slot, ConnectAdmin(r) PROVE TypeInv'
    <2>1. /\ req[r].pc = "loginConnect" /\ Done(r)
          /\ admin' = [adminId |-> req[r].token, isConnected |-> TRUE]
          /\ UNCHANGED <<user, connections, adminPassword, made, given>>
      BY <1>20 DEF ConnectAdmin, connectAdmin
    <2>2. /\ req' \in [Slot -> Request] /\ req'[r] = Idle
          /\ \A s \in Slot \ {r} : req'[s] = req[s]
      BY <1>0, <2>1, Finished
    <2>3. req[r].token \in given \cup {NoId}
      BY <2>1 DEF Grounded, AuthPC
    <2>4. admin' \in AdminConnection /\ admin'.adminId \in given \cup {NoId}
      BY <2>1, <2>3 DEF AdminConnection, TypeOK
    <2>5. TypeOK'
      BY <2>1, <2>2, <2>4, IdleFields DEF TypeOK
    <2>6. Grounded'
      BY <2>1, <2>2, IdleFields DEF Grounded, MacPC, IdentificationPC, AuthPC
    <2> QED BY <2>5, <2>6
  <1>21. ASSUME NEW r \in Slot, SetAdminPassword(r) PROVE TypeInv'
    <2>1. /\ Done(r) /\ adminPassword' = req[r].nouveau
          /\ UNCHANGED <<user, connections, admin, made, given>>
      BY <1>21 DEF SetAdminPassword
    <2>2. /\ req' \in [Slot -> Request] /\ req'[r] = Idle
          /\ \A s \in Slot \ {r} : req'[s] = req[s]
      BY <1>0, <2>1, Finished
    <2>3. req[r].nouveau \in Password
      BY <1>f DEF Request
    <2>4. TypeOK'
      BY <2>1, <2>2, <2>3, IdleFields DEF TypeOK
    <2>5. Grounded'
      BY <2>1, <2>2, IdleFields DEF Grounded, MacPC, IdentificationPC, AuthPC
    <2> QED BY <2>4, <2>5
  <1>22. ASSUME NEW r \in Slot, LogoutAdmin(r) PROVE TypeInv'
    <2>1. req[r].token \in given \cup {NoId}
      BY <1>22 DEF LogoutAdmin, Grounded, AuthPC
    <2> QED BY <1>22, <2>1, TypedDone, TypedGoto DEF LogoutAdmin, PC, MacPC, IdentificationPC, UsagerPC, PostPC, AuthPC, SuperviseurPC
  <1>23. ASSUME NEW r \in Slot, DisconnectAdmin(r) PROVE TypeInv'
    <2>1. /\ Done(r) /\ UNCHANGED <<user, connections, adminPassword, made, given>>
          /\ admin' = admin \/ admin' = [admin EXCEPT !.isConnected = FALSE]
      BY <1>23 DEF DisconnectAdmin, disconnectAdmin
    <2>2. /\ req' \in [Slot -> Request] /\ req'[r] = Idle
          /\ \A s \in Slot \ {r} : req'[s] = req[s]
      BY <1>0, <2>1, Finished
    <2>3. admin' \in AdminConnection /\ admin'.adminId \in given \cup {NoId}
      BY <2>1 DEF AdminConnection, TypeOK
    <2>4. TypeOK'
      BY <2>1, <2>2, <2>3, IdleFields DEF TypeOK
    <2>5. Grounded'
      BY <2>1, <2>2, IdleFields DEF Grounded, MacPC, IdentificationPC, AuthPC
    <2> QED BY <2>4, <2>5
  <1>24. ASSUME NEW r \in Slot, AskAsAdmin(r) PROVE TypeInv'
    <2>1. Keep
      BY <1>24 DEF AskAsAdmin, Start
    <2>2. given \subseteq made /\ given \subseteq Id
      BY DEF TypeOK
    <2>3. CASE \E token \in given \cup {NoId}, mac \in Mac :
                 Step(r, [Fresh EXCEPT !.pc = "blockAdmin", !.token = token, !.mac = mac])
      <3>1. PICK token \in given \cup {NoId}, mac \in Mac :
                   Step(r, [Fresh EXCEPT !.pc = "blockAdmin", !.token = token, !.mac = mac])
        BY <2>3
      <3> DEFINE next == [Fresh EXCEPT !.pc = "blockAdmin", !.token = token, !.mac = mac]
      <3>2. next \in Request /\ next.pc = "blockAdmin" /\ next.token = token /\ next.mac = mac
        BY <2>2, FreshFields DEF Request, SuperviseurPC
      <3> QED BY <2>1, <2>2, <3>1, <3>2, TypedNew DEF MacPC, IdentificationPC, AuthPC
    <2>4. CASE \E mac \in Mac : Step(r, [Fresh EXCEPT !.pc = "unblockRead", !.mac = mac])
      <3>1. PICK mac \in Mac : Step(r, [Fresh EXCEPT !.pc = "unblockRead", !.mac = mac])
        BY <2>4
      <3> DEFINE next == [Fresh EXCEPT !.pc = "unblockRead", !.mac = mac]
      <3>2. next \in Request /\ next.pc = "unblockRead" /\ next.token = NoId /\ next.mac = mac
        BY FreshFields DEF Request, SuperviseurPC
      <3> QED BY <2>1, <3>1, <3>2, TypedNew DEF MacPC, IdentificationPC, AuthPC
    <2>5. CASE \E token \in given : Step(r, [Fresh EXCEPT !.pc = "readAdmin", !.token = token])
      <3>1. PICK token \in given : Step(r, [Fresh EXCEPT !.pc = "readAdmin", !.token = token])
        BY <2>5
      <3> DEFINE next == [Fresh EXCEPT !.pc = "readAdmin", !.token = token]
      <3>2. next \in Request /\ next.pc = "readAdmin" /\ next.token = token
        BY <2>2, FreshFields DEF Request, SuperviseurPC
      <3> QED BY <2>1, <2>2, <3>1, <3>2, TypedNew DEF MacPC, IdentificationPC, AuthPC
    <2> QED BY <1>24, <2>3, <2>4, <2>5 DEF AskAsAdmin
  <1>25. ASSUME NEW r \in Slot, BlockAdmin(r) PROVE TypeInv'
    <2>1. req[r].mac \in Mac
      BY <1>25 DEF BlockAdmin, Grounded, MacPC
    <2> QED BY <1>25, <2>1, TypedDone, TypedGoto DEF BlockAdmin, PC, MacPC, IdentificationPC, UsagerPC, PostPC, AuthPC, SuperviseurPC
  <1>26. ASSUME NEW r \in Slot, BlockRead(r) PROVE TypeInv'
    <2>1. req[r].mac \in Mac
      BY <1>26 DEF BlockRead, Grounded, MacPC
    <2> QED BY <1>26, <2>1, TypedDone, TypedGoto DEF BlockRead, PC, MacPC, IdentificationPC, UsagerPC, PostPC, AuthPC, SuperviseurPC
  <1>27. ASSUME NEW r \in Slot, Block(r) PROVE TypeInv'
    <2>1. /\ req[r].mac \in Mac /\ Done(r)
          /\ user' = setBlacklistFlag(user, req[r].mac, TRUE)
          /\ UNCHANGED <<connections, adminPassword, admin, made, given>>
      BY <1>27 DEF Block, blacklistMAC, Grounded, MacPC
    <2>2. /\ req' \in [Slot -> Request] /\ req'[r] = Idle
          /\ \A s \in Slot \ {r} : req'[s] = req[s]
      BY <1>0, <2>1, Finished
    <2>3. /\ user' \subseteq User_t /\ Unique(user')
          /\ \A row \in user' : \E old \in user : row.userId = old.userId
      <3> DEFINE new == setBlacklistFlag(user, req[r].mac, TRUE)
      <3>a. user \in SUBSET User_t /\ Unique(user) /\ req[r].mac \in Mac /\ TRUE \in BOOLEAN
        BY <1>0, <2>1
      <3>b. Flagged(user, setBlacklistFlag(user, req[r].mac, TRUE), req[r].mac, TRUE)
        BY <3>a, FlagRows
      <3>1. /\ new \subseteq User_t /\ Unique(new)
            /\ \A row \in new : \E old \in user : row.userId = old.userId
        BY <3>b DEF Flagged, SameRow
      <3>2. user' = new
        BY <2>1
      <3> HIDE DEF new
      <3> QED BY <3>1, <3>2 DEF Unique
    <2>4. \A row \in user' : row.userId \in made
      BY <2>3 DEF TypeOK
    <2>5. TypeOK'
      BY <2>1, <2>2, <2>3, <2>4, IdleFields DEF TypeOK, Unique
    <2>6. Grounded'
      BY <2>1, <2>2, IdleFields DEF Grounded, MacPC, IdentificationPC, AuthPC
    <2> QED BY <2>5, <2>6
  <1>28. ASSUME NEW r \in Slot, UnblockRead(r) PROVE TypeInv'
    <2>1. req[r].mac \in Mac
      BY <1>28 DEF UnblockRead, Grounded, MacPC
    <2> QED BY <1>28, <2>1, TypedDone, TypedGoto DEF UnblockRead, PC, MacPC, IdentificationPC, UsagerPC, PostPC, AuthPC, SuperviseurPC
  <1>29. ASSUME NEW r \in Slot, Unblock(r) PROVE TypeInv'
    <2> DEFINE next == [req EXCEPT ![r] = Idle]
    <2>1. /\ req[r].mac \in Mac
          /\ user' = setBlacklistFlag(user, req[r].mac, FALSE)
          /\ req' = Opened(next, req[r].mac)
          /\ UNCHANGED <<connections, adminPassword, admin, made, given>>
      BY <1>29 DEF Unblock, whitelistMAC, Grounded, MacPC
    <2>2. /\ next \in [Slot -> Request] /\ next[r] = Idle
          /\ \A s \in Slot \ {r} : next[s] = req[s]
      BY <1>0, IdleFields
    <2>3. \A s \in Slot : LET o == [next[s] EXCEPT !.open = @ \cup {req[r].mac}]
                         IN  /\ o \in Request /\ o.pc = next[s].pc /\ o.mac = next[s].mac
                             /\ o.token = next[s].token /\ o.connected = next[s].connected
      <3> SUFFICES ASSUME NEW s \in Slot
                   PROVE  LET o == [next[s] EXCEPT !.open = @ \cup {req[r].mac}]
                          IN  /\ o \in Request /\ o.pc = next[s].pc /\ o.mac = next[s].mac
                              /\ o.token = next[s].token /\ o.connected = next[s].connected
        OBVIOUS
      <3>1. next[s] \in Request
        BY <2>2
      <3> HIDE DEF next
      <3> QED BY <2>1, <3>1 DEF Request
    <2>4. \A s \in Slot : req'[s] = next[s] \/ req'[s] = [next[s] EXCEPT !.open = @ \cup {req[r].mac}]
      BY <2>1 DEF Opened
    <2> HIDE DEF next
    <2>5. \A s \in Slot : /\ req'[s] \in Request /\ req'[s].pc = next[s].pc
                         /\ req'[s].mac = next[s].mac /\ req'[s].token = next[s].token
                         /\ req'[s].connected = next[s].connected
      BY <2>2, <2>3, <2>4
    <2>6. req' \in [Slot -> Request]
      BY <2>1, <2>5 DEF Opened
    <2>7. /\ user' \subseteq User_t /\ Unique(user')
          /\ \A row \in user' : \E old \in user : row.userId = old.userId
      <3> DEFINE new == setBlacklistFlag(user, req[r].mac, FALSE)
      <3>a. user \in SUBSET User_t /\ Unique(user) /\ req[r].mac \in Mac /\ FALSE \in BOOLEAN
        BY <1>0, <2>1
      <3>b. Flagged(user, setBlacklistFlag(user, req[r].mac, FALSE), req[r].mac, FALSE)
        BY <3>a, FlagRows
      <3>1. /\ new \subseteq User_t /\ Unique(new)
            /\ \A row \in new : \E old \in user : row.userId = old.userId
        BY <3>b DEF Flagged, SameRow
      <3>2. user' = new
        BY <2>1
      <3> HIDE DEF new
      <3> QED BY <3>1, <3>2 DEF Unique
    <2>8. \A row \in user' : row.userId \in made
      BY <2>7 DEF TypeOK
    <2>9. TypeOK'
      BY <2>1, <2>2, <2>5, <2>6, <2>7, <2>8, IdleFields DEF TypeOK, Unique
    <2>10. Grounded'
      BY <2>1, <2>2, <2>5, IdleFields DEF Grounded, MacPC, IdentificationPC, AuthPC
    <2> QED BY <2>9, <2>10
  <1>30. ASSUME NEW r \in Slot, ReadAsAdmin(r) PROVE TypeInv'
    BY <1>30, TypedDone DEF ReadAsAdmin
  <1>31. ASSUME NEW id \in Id, Expire(id) PROVE TypeInv'
    BY <1>31 DEF Expire, TypeOK, Grounded
  <1>32. CASE Restart
    <2>1. \A r \in Slot : req'[r] = Idle
      BY <1>32 DEF Restart
    <2>2. req' \in [Slot -> Request]
      BY <1>32, IdleFields DEF Restart
    <2>3. TypeOK'
      BY <1>32, <2>1, <2>2, IdleFields, KeepTables DEF Restart, TypeOK
    <2>4. Grounded'
      BY <2>1, IdleFields DEF Grounded, MacPC, IdentificationPC, AuthPC
    <2> QED BY <2>3, <2>4
  <1>33. CASE UNCHANGED vars
    BY <1>33 DEF vars, tables, TypeOK, Grounded
  <1> QED
    BY <1>1, <1>2, <1>3, <1>4, <1>5, <1>6, <1>7, <1>8, <1>9, <1>10, <1>11, <1>12, <1>13, <1>14, <1>15, <1>16, <1>17, <1>18, <1>19, <1>20, <1>21, <1>22, <1>23, <1>24, <1>25, <1>26, <1>27, <1>28, <1>29, <1>30, <1>31, <1>32, <1>33
       DEF Next, Identification, Usager, Auth, Superviseur

(* The type invariant of the tables and the requests: MAC addresses and ids  *)
(* stay unique whatever the statements of the two servers interleave to.     *)
THEOREM TypeCorrect == Spec => []TypeOK
  <1>1. TypeInv => TypeOK
    BY DEF TypeInv
  <1> QED BY TypeInit, TypeStep, <1>1, PTL DEF Spec

-----------------------------------------------------------------------------
(* What a step may change: the frame of the requests that identify nobody *)

Others(r) == \A s \in Slot \ {r} : req'[s] = req[s]

(* Such a request moves its own thread only, starts with the history of this *)
(* moment, and lets a file through on a mac it finds unblocked.              *)
Frame(r) ==
    /\ Others(r)
    /\ req[r].pc \notin IdentificationPC /\ req'[r].pc \notin IdentificationPC
    /\ connections' = connections /\ made' = made
    /\ \/ req'[r].pc = "idle"
       \/ req[r].pc # "idle" /\ req'[r].open = req[r].open
       \/ req'[r].open = {m \in Mac : ~Blocked(m)}
    /\ req'[r].pc = "postConnected" => req'[r].mac \in Mac /\ ~Blocked(req'[r].mac)

LEMMA FrameDone ==
    ASSUME TypeInv, NEW r \in Slot, Done(r), req[r].pc \notin IdentificationPC,
           connections' = connections, made' = made
    PROVE  Frame(r)
  <1>1. req \in [Slot -> Request]
    BY DEF TypeInv, TypeOK
  <1> QED BY <1>1, Finished, IdleFields DEF Frame, Others, IdentificationPC

LEMMA FrameGoto ==
    ASSUME TypeInv, Keep, NEW r \in Slot, NEW pc \in PC, Goto(r, pc),
           req[r].pc \notin IdentificationPC, req[r].pc # "idle", pc \notin IdentificationPC,
           pc = "postConnected" => req[r].mac \in Mac /\ ~Blocked(req[r].mac)
    PROVE  Frame(r)
  <1>1. req \in [Slot -> Request]
    BY DEF TypeInv, TypeOK
  <1>2. /\ req'[r].pc = pc /\ req'[r].mac = req[r].mac /\ req'[r].open = req[r].open
        /\ \A s \in Slot \ {r} : req'[s] = req[s]
    BY <1>1, Went
  <1> QED BY <1>2, KeepTables DEF Frame, Others

LEMMA FrameNew ==
    ASSUME TypeInv, Keep, NEW r \in Slot, NEW next \in Request, Step(r, next),
           req[r].pc \notin IdentificationPC, next.pc \notin IdentificationPC,
           next.pc # "postConnected",
           \/ req[r].pc # "idle" /\ next.open = req[r].open
           \/ next.open = {m \in Mac : ~Blocked(m)}
    PROVE  Frame(r)
  <1>1. req \in [Slot -> Request]
    BY DEF TypeInv, TypeOK
  <1>2. /\ req'[r] = next
        /\ \A s \in Slot \ {r} : req'[s] = req[s]
    BY <1>1, Stepped
  <1> QED BY <1>2, KeepTables DEF Frame, Others


LEMMA UsagerFrame == ASSUME TypeInv, NEW r \in Slot, Usager(r) PROVE Frame(r) /\ Keep
  <1>0. req[r] \in Request
    BY DEF TypeInv, TypeOK
  <1>1. ASSUME AskAsUser(r) PROVE Frame(r) /\ Keep
    <2>1. PICK token \in given :
             \/ Step(r, [Fresh EXCEPT !.pc = "listUser", !.token = token])
             \/ Step(r, [Fresh EXCEPT !.pc = "postUser", !.token = token])
      BY <1>1 DEF AskAsUser
    <2>2. Keep /\ req[r].pc = "idle" /\ token \in Id
      BY <1>1 DEF AskAsUser, Start, TypeInv, TypeOK
    <2>3. \A pc \in {"listUser", "postUser"} :
            LET next == [Fresh EXCEPT !.pc = pc, !.token = token]
            IN  next \in Request /\ next.pc = pc /\ next.open = {m \in Mac : ~Blocked(m)}
      BY <2>2, FreshFields DEF Request, UsagerPC, PostPC
    <2> QED BY <2>1, <2>2, <2>3, FrameNew DEF IdentificationPC
  <1>2. ASSUME FindUser(r) PROVE Frame(r) /\ Keep
    <2> DEFINE found == getUserById(user, req[r].token)
               pc == IF req[r].pc = "listUser" THEN "listConnected" ELSE "postBlocked"
               next == [req[r] EXCEPT !.pc = pc, !.mac = found.mac]
    <2>1. /\ Keep /\ req[r].pc \in {"listUser", "postUser"}
          /\ IF found = NoUser THEN Done(r) ELSE Step(r, next)
      BY <1>2 DEF FindUser
    <2>2. found # NoUser => found.mac \in Mac
      BY FoundById DEF User_t, TypeInv, TypeOK
    <2> HIDE DEF found
    <2>3. found # NoUser => next \in Request /\ next.pc = pc /\ next.open = req[r].open
      BY <1>0, <2>2 DEF Request, UsagerPC, PostPC
    <2>4. pc \in {"listConnected", "postBlocked"}
      OBVIOUS
    <2> HIDE DEF pc, next
    <2> QED BY <2>1, <2>2, <2>3, <2>4, FrameNew, FrameDone, KeepTables DEF IdentificationPC
  <1>3. ASSUME ListConnected(r) PROVE Frame(r) /\ Keep
    <2> DEFINE next == [req[r] EXCEPT !.pc = "listBlocked",
                                 !.connected = isUserConnected(connections, req[r].token)]
    <2>1. req[r].pc = "listConnected" /\ Step(r, next) /\ Keep
      BY <1>3 DEF ListConnected
    <2>2. isUserConnected(connections, req[r].token) \in BOOLEAN
      BY DEF isUserConnected
    <2>3. next \in Request /\ next.pc = "listBlocked" /\ next.open = req[r].open
      BY <1>0, <2>2 DEF Request, UsagerPC
    <2> QED BY <2>1, <2>3, FrameNew DEF IdentificationPC
  <1>4. ASSUME ListAnswered(r) \/ ListRefused(r) \/ PostAdmitted(r) \/ PostRefused(r)
        PROVE  Frame(r) /\ Keep
    BY <1>4, FrameDone, KeepTables
       DEF ListAnswered, ListRefused, PostAdmitted, PostRefused, IdentificationPC
  <1>5. ASSUME PostBlocked(r) PROVE Frame(r) /\ Keep
    <2>1. req[r].mac \in Mac
      BY <1>5 DEF PostBlocked, TypeInv, Grounded, MacPC
    <2> QED BY <1>5, <2>1, FrameDone, FrameGoto, KeepTables DEF PostBlocked, PC, IdentificationPC, UsagerPC, PostPC, AuthPC, SuperviseurPC
  <1> QED BY <1>1, <1>2, <1>3, <1>4, <1>5 DEF Usager

LEMMA AuthFrame == ASSUME TypeInv, NEW r \in Slot, Auth(r) PROVE Frame(r) /\ user' = user
  <1>1. ASSUME AskHandler(r) PROVE Frame(r) /\ user' = user
    <2>1. Keep /\ req[r].pc = "idle" /\ given \subseteq Id
      BY <1>1 DEF AskHandler, Start, TypeInv, TypeOK
    <2>2. PICK next \in Request : /\ Step(r, next) /\ next.open = Fresh.open
                                  /\ next.pc \in {"logoutAdmin", "volumeAdmin", "loginAdmin", "changeHash"}
      <3>1. CASE \E token \in given, pc \in {"logoutAdmin", "volumeAdmin"} :
                   Step(r, [Fresh EXCEPT !.pc = pc, !.token = token])
        <4>1. PICK token \in given, pc \in {"logoutAdmin", "volumeAdmin"} :
                     Step(r, [Fresh EXCEPT !.pc = pc, !.token = token])
          BY <3>1
        <4> DEFINE next == [Fresh EXCEPT !.pc = pc, !.token = token]
        <4>2. next \in Request /\ next.pc = pc /\ next.open = Fresh.open
          BY <2>1, FreshFields DEF Request, AuthPC
        <4>3. Step(r, next)
          BY <4>1
        <4> HIDE DEF next
        <4> QED BY <4>2, <4>3
      <3>2. CASE \E token \in given, password \in Password :
                   Step(r, [Fresh EXCEPT !.pc = "loginAdmin", !.token = token, !.password = password])
        <4>1. PICK token \in given, password \in Password :
                     Step(r, [Fresh EXCEPT !.pc = "loginAdmin", !.token = token, !.password = password])
          BY <3>2
        <4> DEFINE next == [Fresh EXCEPT !.pc = "loginAdmin", !.token = token, !.password = password]
        <4>2. next \in Request /\ next.pc = "loginAdmin" /\ next.open = Fresh.open
          BY <2>1, FreshFields DEF Request, AuthPC
        <4>3. Step(r, next)
          BY <4>1
        <4> HIDE DEF next
        <4> QED BY <4>2, <4>3
      <3>3. CASE \E ancien, nouveau \in Password :
                   Step(r, [Fresh EXCEPT !.pc = "changeHash", !.password = ancien, !.nouveau = nouveau])
        <4>1. PICK ancien \in Password, nouveau \in Password :
                     Step(r, [Fresh EXCEPT !.pc = "changeHash", !.password = ancien, !.nouveau = nouveau])
          BY <3>3
        <4> DEFINE next == [Fresh EXCEPT !.pc = "changeHash", !.password = ancien, !.nouveau = nouveau]
        <4>2. next \in Request /\ next.pc = "changeHash" /\ next.open = Fresh.open
          BY FreshFields DEF Request, AuthPC
        <4>3. Step(r, next)
          BY <4>1
        <4> HIDE DEF next
        <4> QED BY <4>2, <4>3
      <3> QED BY <1>1, <3>1, <3>2, <3>3 DEF AskHandler
    <2> QED BY <2>1, <2>2, FreshFields, FrameNew, KeepTables DEF IdentificationPC
  <1>2. ASSUME LoginAdmin(r) \/ LoginUser(r) \/ LogoutAdmin(r) PROVE Frame(r) /\ user' = user
    BY <1>2, FrameDone, FrameGoto, KeepTables DEF LoginAdmin, LoginUser, LogoutAdmin, PC, IdentificationPC, UsagerPC, PostPC, AuthPC, SuperviseurPC
  <1>3. ASSUME CheckPassword(r) PROVE Frame(r) /\ user' = user
    BY <1>3, FrameDone, FrameGoto, KeepTables DEF CheckPassword, PC, IdentificationPC, UsagerPC, PostPC, AuthPC, SuperviseurPC
  <1>4. ASSUME ConnectAdmin(r) \/ SetAdminPassword(r) \/ DisconnectAdmin(r)
        PROVE  Frame(r) /\ user' = user
    BY <1>4, FrameDone DEF ConnectAdmin, SetAdminPassword, DisconnectAdmin, IdentificationPC
  <1> QED BY <1>1, <1>2, <1>3, <1>4 DEF Auth

(* Of the requests of the administrator, two write the table of users. *)
LEMMA SuperviseurFrame ==
    ASSUME TypeInv, NEW r \in Slot, Superviseur(r)
    PROVE  \/ Frame(r) /\ Keep
           \/ Block(r)
           \/ Unblock(r)
  <1>1. ASSUME AskAsAdmin(r) PROVE Frame(r) /\ Keep
    <2>1. Keep /\ req[r].pc = "idle" /\ given \subseteq Id
      BY <1>1 DEF AskAsAdmin, Start, TypeInv, TypeOK
    <2>2. PICK next \in Request : /\ Step(r, next) /\ next.open = Fresh.open
                                  /\ next.pc \in {"blockAdmin", "unblockRead", "readAdmin"}
      <3>1. CASE \E token \in given \cup {NoId}, mac \in Mac :
                   Step(r, [Fresh EXCEPT !.pc = "blockAdmin", !.token = token, !.mac = mac])
        <4>1. PICK token \in given \cup {NoId}, mac \in Mac :
                     Step(r, [Fresh EXCEPT !.pc = "blockAdmin", !.token = token, !.mac = mac])
          BY <3>1
        <4> DEFINE next == [Fresh EXCEPT !.pc = "blockAdmin", !.token = token, !.mac = mac]
        <4>2. next \in Request /\ next.pc = "blockAdmin" /\ next.open = Fresh.open
          BY <2>1, FreshFields DEF Request, SuperviseurPC
        <4>3. Step(r, next)
          BY <4>1
        <4> HIDE DEF next
        <4> QED BY <4>2, <4>3
      <3>2. CASE \E mac \in Mac : Step(r, [Fresh EXCEPT !.pc = "unblockRead", !.mac = mac])
        <4>1. PICK mac \in Mac : Step(r, [Fresh EXCEPT !.pc = "unblockRead", !.mac = mac])
          BY <3>2
        <4> DEFINE next == [Fresh EXCEPT !.pc = "unblockRead", !.mac = mac]
        <4>2. next \in Request /\ next.pc = "unblockRead" /\ next.open = Fresh.open
          BY FreshFields DEF Request, SuperviseurPC
        <4>3. Step(r, next)
          BY <4>1
        <4> HIDE DEF next
        <4> QED BY <4>2, <4>3
      <3>3. CASE \E token \in given : Step(r, [Fresh EXCEPT !.pc = "readAdmin", !.token = token])
        <4>1. PICK token \in given : Step(r, [Fresh EXCEPT !.pc = "readAdmin", !.token = token])
          BY <3>3
        <4> DEFINE next == [Fresh EXCEPT !.pc = "readAdmin", !.token = token]
        <4>2. next \in Request /\ next.pc = "readAdmin" /\ next.open = Fresh.open
          BY <2>1, FreshFields DEF Request, SuperviseurPC
        <4>3. Step(r, next)
          BY <4>1
        <4> HIDE DEF next
        <4> QED BY <4>2, <4>3
      <3> QED BY <1>1, <3>1, <3>2, <3>3 DEF AskAsAdmin
    <2> QED BY <2>1, <2>2, FreshFields, FrameNew DEF IdentificationPC
  <1>2. ASSUME BlockAdmin(r) \/ BlockRead(r) \/ UnblockRead(r) PROVE Frame(r) /\ Keep
    BY <1>2, FrameDone, FrameGoto, KeepTables DEF BlockAdmin, BlockRead, UnblockRead, PC, IdentificationPC, UsagerPC, PostPC, AuthPC, SuperviseurPC
  <1>3. ASSUME ReadAsAdmin(r) PROVE Frame(r) /\ Keep
    BY <1>3, FrameDone, KeepTables DEF ReadAsAdmin, IdentificationPC
  <1> QED BY <1>1, <1>2, <1>3 DEF Superviseur

(* The two of them, and the identification, by what they leave. *)
LEMMA BlockEffect ==
    ASSUME TypeInv, NEW r \in Slot, Block(r)
    PROVE  /\ Frame(r) /\ req'[r].pc = "idle"
           /\ req[r].pc = "blockSet" /\ req[r].mac \in Mac
           /\ Flagged(user, user', req[r].mac, TRUE)
  <1>1. /\ user \in SUBSET User_t /\ Unique(user) /\ req \in [Slot -> Request]
    BY DEF TypeInv, TypeOK, Unique
  <1>2. /\ req[r].pc = "blockSet" /\ req[r].mac \in Mac /\ TRUE \in BOOLEAN
        /\ user' = setBlacklistFlag(user, req[r].mac, TRUE)
        /\ Done(r) /\ connections' = connections /\ made' = made
    BY DEF Block, blacklistMAC, TypeInv, Grounded, MacPC
  <1>3. Flagged(user, setBlacklistFlag(user, req[r].mac, TRUE), req[r].mac, TRUE)
    BY <1>1, <1>2, FlagRows
  <1>4. Frame(r)
    BY <1>2, FrameDone DEF IdentificationPC
  <1> QED BY <1>1, <1>2, <1>3, <1>4, Finished, IdleFields

(* Same(s) but for the history: what Opened does to a thread. *)
Reopened(next, old, mac) ==
    /\ next.pc = old.pc /\ next.mac = old.mac /\ next.token = old.token
    /\ next.connected = old.connected /\ next.overlap = old.overlap
    /\ next.password = old.password
    /\ old.pc # "idle" => next.open = old.open \cup {mac}

LEMMA OpenedFields ==
    ASSUME NEW next \in [Slot -> Request], NEW mac, req' = Opened(next, mac)
    PROVE  \A s \in Slot : Reopened(req'[s], next[s], mac)
  <1> SUFFICES ASSUME NEW s \in Slot PROVE Reopened(req'[s], next[s], mac)
    OBVIOUS
  <1>1. next[s] \in Request
    OBVIOUS
  <1>2. CASE next[s].pc = "idle"
    <2>1. req'[s] = next[s]
      BY <1>2 DEF Opened
    <2> QED BY <1>2, <2>1 DEF Reopened
  <1>3. CASE next[s].pc # "idle"
    <2> DEFINE o == [next[s] EXCEPT !.open = @ \cup {mac}]
    <2>1. req'[s] = o
      BY <1>3 DEF Opened
    <2>2. Reopened(o, next[s], mac)
      BY <1>1 DEF Reopened, Request
    <2> QED BY <2>1, <2>2
  <1> QED BY <1>2, <1>3

LEMMA UnblockEffect ==
    ASSUME TypeInv, NEW r \in Slot, Unblock(r)
    PROVE  /\ req[r].pc = "unblockSet" /\ req[r].mac \in Mac /\ req'[r].pc = "idle"
           /\ \A s \in Slot \ {r} : Reopened(req'[s], req[s], req[r].mac)
           /\ Flagged(user, user', req[r].mac, FALSE)
           /\ connections' = connections /\ made' = made
  <1>1. /\ user \in SUBSET User_t /\ Unique(user) /\ req \in [Slot -> Request]
    BY DEF TypeInv, TypeOK, Unique
  <1> DEFINE next == [req EXCEPT ![r] = Idle]
  <1>2. /\ req[r].pc = "unblockSet" /\ req[r].mac \in Mac /\ FALSE \in BOOLEAN
        /\ user' = setBlacklistFlag(user, req[r].mac, FALSE)
        /\ req' = Opened(next, req[r].mac)
        /\ connections' = connections /\ made' = made
    BY DEF Unblock, whitelistMAC, TypeInv, Grounded, MacPC
  <1>3. Flagged(user, setBlacklistFlag(user, req[r].mac, FALSE), req[r].mac, FALSE)
    BY <1>1, <1>2, FlagRows
  <1>4. /\ next \in [Slot -> Request] /\ next[r] = Idle
        /\ \A s \in Slot \ {r} : next[s] = req[s]
    BY <1>1, IdleFields
  <1> HIDE DEF next
  <1>5. \A s \in Slot : Reopened(req'[s], next[s], req[r].mac)
    BY <1>2, <1>4, OpenedFields
  <1>6. req'[r].pc = "idle"
    BY <1>4, <1>5, IdleFields DEF Reopened
  <1> QED BY <1>2, <1>3, <1>4, <1>5, <1>6

LEMMA CreateUserEffect ==
    ASSUME TypeInv, NEW r \in Slot, CreateUser(r)
    PROVE  /\ req[r].pc = "create" /\ req[r].mac \in Mac /\ req[r].token \in Id
           /\ req'[r].pc = "connect"
           /\ req'[r].mac = req[r].mac /\ req'[r].token = req[r].token
           /\ req'[r].overlap = req[r].overlap /\ req'[r].open = req[r].open \cup {req[r].mac}
           /\ \A s \in Slot \ {r} : Reopened(req'[s], req[s], req[r].mac)
           /\ Replaced(user, user', req[r].mac, req[r].token)
           /\ connections' = connections /\ made' = made
  <1>1. /\ user \in SUBSET User_t /\ Unique(user) /\ req \in [Slot -> Request]
        /\ req[r] \in Request
    BY DEF TypeInv, TypeOK, Unique
  <1> DEFINE next == [req EXCEPT ![r].pc = "connect"]
             mine == [req[r] EXCEPT !.pc = "connect"]
  <1>2. /\ req[r].pc = "create" /\ req[r].mac \in Mac /\ req[r].token \in Id
        /\ user' = createUser(user, req[r].mac, req[r].token)
        /\ req' = Opened(next, req[r].mac)
        /\ connections' = connections /\ made' = made
    BY DEF CreateUser, TypeInv, TypeOK, Grounded, MacPC, IdentificationPC
  <1>3. Replaced(user, createUser(user, req[r].mac, req[r].token), req[r].mac, req[r].token)
    BY <1>1, <1>2, CreateUserRows
  <1>4. /\ mine \in Request /\ mine.pc = "connect" /\ mine.mac = req[r].mac
        /\ mine.token = req[r].token /\ mine.overlap = req[r].overlap /\ mine.open = req[r].open
    BY <1>1 DEF Request, IdentificationPC
  <1>5. next = [req EXCEPT ![r] = mine]
    BY Zenon
  <1> HIDE DEF mine, next
  <1>6. /\ next \in [Slot -> Request] /\ next[r] = mine
        /\ \A s \in Slot \ {r} : next[s] = req[s]
    BY <1>1, <1>4, <1>5
  <1>7. \A s \in Slot : Reopened(req'[s], next[s], req[r].mac)
    BY <1>2, <1>6, OpenedFields
  <1>8. /\ req'[r].pc = "connect"
        /\ req'[r].mac = req[r].mac /\ req'[r].token = req[r].token
        /\ req'[r].overlap = req[r].overlap /\ req'[r].open = req[r].open \cup {req[r].mac}
    BY <1>4, <1>6, <1>7 DEF Reopened
  <1>9. \A s \in Slot \ {r} : Reopened(req'[s], req[s], req[r].mac)
    BY <1>6, <1>7
  <1> QED BY <1>2, <1>3, <1>8, <1>9


(* The steps of an identification, by what they change. *)
LEMMA IdentifyEffect ==
    ASSUME TypeInv, NEW r \in Slot, Identify(r)
    PROVE  /\ Keep /\ req[r].pc = "idle"
           /\ req'[r].pc = "byMac" /\ req'[r].mac \in Mac
           /\ req'[r].open = {m \in Mac : ~Blocked(m)}
           /\ req'[r].overlap = (\E s \in Slot : Same(s, req'[r].mac))
           /\ \A s \in Slot \ {r} :
                 IF Same(s, req'[r].mac)
                 THEN /\ req'[s].pc = req[s].pc /\ req'[s].mac = req[s].mac
                      /\ req'[s].token = req[s].token /\ req'[s].connected = req[s].connected
                      /\ req'[s].open = req[s].open /\ req'[s].overlap = TRUE
                      /\ req'[s].password = req[s].password
                 ELSE req'[s] = req[s]
  <1>1. PICK mac \in Mac :
           /\ Keep /\ req[r].pc = "idle"
           /\ req' = [s \in Slot |->
                 IF s = r THEN [Fresh EXCEPT !.pc = "byMac", !.mac = mac,
                                             !.overlap = \E o \in Slot : Same(o, mac)]
                 ELSE IF Same(s, mac) THEN [req[s] EXCEPT !.overlap = TRUE]
                 ELSE req[s]]
    BY DEF Identify, Start
  <1>2. req[r].pc \notin IdentificationPC
    BY <1>1 DEF IdentificationPC
  <1> DEFINE mine == [Fresh EXCEPT !.pc = "byMac", !.mac = mac,
                                   !.overlap = \E o \in Slot : Same(o, mac)]
  <1>3. /\ mine.pc = "byMac" /\ mine.mac = mac /\ mine.open = {m \in Mac : ~Blocked(m)}
        /\ mine.overlap = (\E s \in Slot : Same(s, mac))
    BY FreshFields DEF Request
  <1>4. req'[r] = mine
    BY <1>1
  <1> HIDE DEF mine
  <1>5. ASSUME NEW s \in Slot \ {r}
        PROVE  IF Same(s, mac)
               THEN /\ req'[s].pc = req[s].pc /\ req'[s].mac = req[s].mac
                    /\ req'[s].token = req[s].token /\ req'[s].connected = req[s].connected
                    /\ req'[s].open = req[s].open /\ req'[s].overlap = TRUE
                    /\ req'[s].password = req[s].password
               ELSE req'[s] = req[s]
    <2>1. req[s] \in Request
      BY DEF TypeInv, TypeOK
    <2>2. req'[s] = IF Same(s, mac) THEN [req[s] EXCEPT !.overlap = TRUE] ELSE req[s]
      BY <1>1
    <2> QED BY <2>1, <2>2 DEF Request
  <1> QED BY <1>1, <1>3, <1>4, <1>5

(* Reading and deciding: only the thread of the identification moves. *)
Reads(r, pc) ==
    /\ Keep /\ Others(r)
    /\ req'[r].pc = pc /\ req'[r].mac = req[r].mac /\ req[r].mac \in Mac
    /\ req'[r].overlap = req[r].overlap /\ req'[r].open = req[r].open

LEMMA ReadByMacEffect ==
    ASSUME TypeInv, NEW r \in Slot, ReadByMac(r)
    PROVE  /\ req[r].pc = "byMac" /\ Reads(r, "connected")
           /\ \/ /\ req'[r].token = NoId
                 /\ \A row \in user : row.mac # req[r].mac
              \/ \E row \in user : row.mac = req[r].mac /\ row.userId = req'[r].token
  <1>1. /\ req \in [Slot -> Request] /\ req[r] \in Request /\ user \in SUBSET User_t
        /\ made \subseteq Id /\ \A row \in user : row.userId \in made
    BY DEF TypeInv, TypeOK
  <1> DEFINE found == getUserByMac(user, req[r].mac)
             next == [req[r] EXCEPT !.pc = "connected", !.token = found.userId]
  <1>2. req[r].pc = "byMac" /\ req[r].mac \in Mac /\ Keep /\ Step(r, next)
    BY DEF ReadByMac, TypeInv, Grounded, MacPC, IdentificationPC
  <1>3. \/ found = NoUser /\ \A row \in user : row.mac # req[r].mac
        \/ found \in user /\ found.mac = req[r].mac
    BY <1>1, FoundByMac
  <1> HIDE DEF found
  <1>4. found.userId \in Id \cup {NoId} /\ (found = NoUser => found.userId = NoId)
    BY <1>1, <1>3 DEF NoUser
  <1>5. /\ next \in Request /\ next.pc = "connected" /\ next.mac = req[r].mac
        /\ next.token = found.userId /\ next.overlap = req[r].overlap /\ next.open = req[r].open
    BY <1>1, <1>4 DEF Request, IdentificationPC
  <1> HIDE DEF next
  <1>6. req'[r] = next /\ \A s \in Slot \ {r} : req'[s] = req[s]
    BY <1>1, <1>2, <1>5, Stepped
  <1> QED BY <1>2, <1>3, <1>4, <1>5, <1>6 DEF Reads, Others

LEMMA ReadConnectedEffect ==
    ASSUME TypeInv, NEW r \in Slot, ReadConnected(r)
    PROVE  /\ req[r].pc = "connected" /\ Reads(r, "blocked")
           /\ req'[r].token = req[r].token
           /\ req'[r].connected <=> req[r].token \in connections
  <1>1. req \in [Slot -> Request] /\ req[r] \in Request
    BY DEF TypeInv, TypeOK
  <1> DEFINE next == [req[r] EXCEPT !.pc = "blocked",
                               !.connected = isUserConnected(connections, req[r].token)]
  <1>2. req[r].pc = "connected" /\ req[r].mac \in Mac /\ Keep /\ Step(r, next)
    BY DEF ReadConnected, TypeInv, Grounded, MacPC, IdentificationPC
  <1>3. isUserConnected(connections, req[r].token) \in BOOLEAN
    BY DEF isUserConnected
  <1>4. /\ next \in Request /\ next.pc = "blocked" /\ next.mac = req[r].mac
        /\ next.token = req[r].token /\ next.overlap = req[r].overlap /\ next.open = req[r].open
        /\ next.connected = isUserConnected(connections, req[r].token)
    BY <1>1, <1>3 DEF Request, IdentificationPC
  <1> HIDE DEF next
  <1>5. req'[r] = next /\ \A s \in Slot \ {r} : req'[s] = req[s]
    BY <1>1, <1>2, <1>4, Stepped
  <1>6. req'[r].connected <=> req[r].token \in connections
    BY <1>4, <1>5 DEF isUserConnected
  <1> QED BY <1>2, <1>4, <1>5, <1>6 DEF Reads, Others

LEMMA AssignIdEffect ==
    ASSUME TypeInv, NEW r \in Slot, AssignId(r)
    PROVE  /\ req[r].pc = "blocked" /\ req'[r].pc = "create"
           /\ req[r].token # NoId => ~Blocked(req[r].mac)
           /\ user' = user /\ connections' = connections /\ Others(r)
           /\ req'[r].mac = req[r].mac /\ req[r].mac \in Mac
           /\ req'[r].overlap = req[r].overlap /\ req'[r].open = req[r].open
           /\ \/ /\ req[r].connected /\ made' = made /\ req'[r].token = req[r].token
                 /\ req[r].token \in made
              \/ /\ ~req[r].connected /\ req'[r].token \in Id \ made
                 /\ made' = made \cup {req'[r].token}
  <1>1. req \in [Slot -> Request] /\ req[r] \in Request
    BY DEF TypeInv, TypeOK
  <1>2. /\ req[r].pc = "blocked" /\ req[r].mac \in Mac
        /\ req[r].token # NoId => ~Blocked(req[r].mac)
        /\ user' = user /\ connections' = connections
    BY DEF AssignId, NotRefused, tables, TypeInv, Grounded, MacPC, IdentificationPC
  <1>3. CASE req[r].connected
    <2>1. Goto(r, "create") /\ made' = made
      BY <1>3 DEF AssignId
    <2>2. req[r].token \in made
      BY <1>2, <1>3 DEF TypeInv, Grounded
    <2>3. "create" \in PC
      BY DEF PC, IdentificationPC
    <2>4. /\ req'[r].pc = "create" /\ req'[r].mac = req[r].mac /\ req'[r].token = req[r].token
          /\ req'[r].overlap = req[r].overlap /\ req'[r].open = req[r].open
          /\ \A s \in Slot \ {r} : req'[s] = req[s]
      BY <1>1, <2>1, <2>3, Went
    <2> QED BY <1>2, <1>3, <2>1, <2>2, <2>4 DEF Others
  <1>4. CASE ~req[r].connected
    <2>1. PICK id \in Id \ made :
             /\ made' = made \cup {id}
             /\ Step(r, [req[r] EXCEPT !.pc = "create", !.token = id])
      BY <1>4 DEF AssignId
    <2> DEFINE next == [req[r] EXCEPT !.pc = "create", !.token = id]
    <2>2. /\ next \in Request /\ next.pc = "create" /\ next.mac = req[r].mac /\ next.token = id
          /\ next.overlap = req[r].overlap /\ next.open = req[r].open
      BY <1>1 DEF Request, IdentificationPC
    <2>3. Step(r, next)
      BY <2>1
    <2> HIDE DEF next
    <2>4. req'[r] = next /\ \A s \in Slot \ {r} : req'[s] = req[s]
      BY <1>1, <2>2, <2>3, Stepped
    <2> QED BY <1>2, <1>4, <2>1, <2>2, <2>4 DEF Others
  <1> QED BY <1>3, <1>4

LEMMA ConnectUserEffect ==
    ASSUME TypeInv, NEW r \in Slot, ConnectUser(r)
    PROVE  /\ req[r].pc = "connect" /\ req'[r].pc = "idle" /\ Others(r)
           /\ req[r].token \in made /\ req[r].mac \in Mac
           /\ connections' = connections \cup {req[r].token}
           /\ user' = user /\ made' = made
  <1>1. req \in [Slot -> Request]
    BY DEF TypeInv, TypeOK
  <1>2. /\ req[r].pc = "connect" /\ Done(r)
        /\ req[r].token \in made /\ req[r].mac \in Mac
        /\ connections' = connections \cup {req[r].token}
        /\ user' = user /\ made' = made
    BY DEF ConnectUser, connectUser, TypeInv, Grounded, MacPC, IdentificationPC
  <1> QED BY <1>1, <1>2, Finished, IdleFields DEF Others

LEMMA RefuseBlockedEffect ==
    ASSUME TypeInv, NEW r \in Slot, RefuseBlocked(r)
    PROVE  req'[r].pc = "idle" /\ Others(r) /\ Keep
  <1>1. req \in [Slot -> Request]
    BY DEF TypeInv, TypeOK
  <1> QED BY <1>1, Finished, IdleFields DEF RefuseBlocked, Others

-----------------------------------------------------------------------------
(* The inductive invariant *)

(* An id belongs to one mac, in the table and in every identification that   *)
(* holds it.                                                                *)
IdPC == {"connected", "blocked", "create", "connect"}
Holds(r) == req[r].pc \in IdPC /\ req[r].token # NoId

Own ==
    \A r \in Slot : Holds(r) =>
        /\ \A row \in user : row.userId = req[r].token => row.mac = req[r].mac
        /\ \A s \in Slot : Holds(s) /\ req[s].token = req[r].token => req[s].mac = req[r].mac

(* The history of a request holds every mac that is not blocked, and the mac *)
(* of whoever passed the black list.                                        *)
Open ==
    \A r \in Slot : req[r].pc # "idle" =>
        /\ \A m \in Mac : m \in req[r].open \/ Blocked(m)
        /\ req[r].pc \in {"connected", "blocked"} /\ req[r].token = NoId
             => req[r].mac \in req[r].open
        /\ req[r].pc \in {"create", "connect", "postConnected"} => req[r].mac \in req[r].open

(* Two identifications of one mac know that they overlap. *)
Met ==
    \A r, s \in Slot :
        /\ r # s /\ req[r].pc \in IdentificationPC /\ req[s].pc \in IdentificationPC
        /\ req[r].mac = req[s].mac
        => req[r].overlap

(* What an identification that overlaps no other has read still holds. *)
Kept ==
    \A r \in Slot : ~req[r].overlap =>
        /\ req[r].pc \in {"connected", "blocked"} =>
             \A row \in user : row.mac = req[r].mac => row.userId = req[r].token
        /\ req[r].pc = "blocked" /\ ~req[r].connected => req[r].token \notin connections
        /\ req[r].pc = "create" =>
             \A row \in user : row.mac = req[r].mac =>
                 row.userId = req[r].token \/ row.userId \notin connections
        /\ req[r].pc = "connect" =>
             \E row \in user : row.mac = req[r].mac /\ row.userId = req[r].token

IInv == TypeInv /\ Own /\ Open /\ Met /\ Kept

(* A step outside the identifications that keeps the table of users. *)
LEMMA FrameStep ==
    ASSUME IInv, NEW r \in Slot, Frame(r), user' = user
    PROVE  Own' /\ Open' /\ Met' /\ Kept'
  <1>1. /\ connections' = connections /\ made' = made
        /\ req[r].pc \notin IdentificationPC /\ req'[r].pc \notin IdentificationPC
        /\ \A s \in Slot \ {r} : req'[s] = req[s]
    BY DEF Frame, Others
  <1>2. \A m : Blocked(m)' = Blocked(m)
    BY DEF Blocked
  <1>3. Own'
    BY <1>1 DEF IInv, Own, Holds, IdPC, IdentificationPC
  <1>4. Open'
    <2> SUFFICES ASSUME NEW s \in Slot, req'[s].pc # "idle"
                 PROVE  /\ \A m \in Mac : m \in req'[s].open \/ Blocked(m)
                        /\ req'[s].pc \in {"connected", "blocked"} /\ req'[s].token = NoId
                             => req'[s].mac \in req'[s].open
                        /\ req'[s].pc \in {"create", "connect", "postConnected"}
                             => req'[s].mac \in req'[s].open
      BY <1>2 DEF Open
    <2>1. CASE s # r
      BY <1>1, <2>1 DEF IInv, Open
    <2>2. CASE s = r
      <3>1. \A m \in Mac : m \in req'[r].open \/ Blocked(m)
        BY <2>2 DEF Frame, IInv, Open
      <3>2. req'[r].pc = "postConnected" => req'[r].mac \in req'[r].open
        BY <3>1 DEF Frame
      <3> QED BY <1>1, <2>2, <3>1, <3>2 DEF IdentificationPC
    <2> QED BY <2>1, <2>2
  <1>5. Met'
    BY <1>1 DEF IInv, Met
  <1>6. Kept'
    BY <1>1 DEF IInv, Kept, IdentificationPC
  <1> QED BY <1>3, <1>4, <1>5, <1>6

(* A block: rows keep mac and id, and nobody is unblocked. *)
LEMMA BlockStep ==
    ASSUME IInv, NEW r \in Slot, Block(r)
    PROVE  Own' /\ Open' /\ Met' /\ Kept'
  <1>0. user \in SUBSET User_t
    BY DEF IInv, TypeInv, TypeOK
  <1>1. /\ connections' = connections /\ made' = made
        /\ req[r].pc \notin IdentificationPC /\ req'[r].pc = "idle"
        /\ \A s \in Slot \ {r} : req'[s] = req[s]
        /\ Flagged(user, user', req[r].mac, TRUE) /\ req[r].mac \in Mac
    BY BlockEffect DEF IInv, Frame, Others
  <1>2. \A m \in Mac : Blocked(m) => Blocked(m)'
    BY <1>0, <1>1, FlaggedBlacklist DEF Blocked
  <1>3. \A row \in user' : \E old \in user : row.mac = old.mac /\ row.userId = old.userId
    BY <1>1 DEF Flagged, SameRow
  <1>4. \A old \in user : \E row \in user' : row.mac = old.mac /\ row.userId = old.userId
    BY <1>1 DEF Flagged, SameRow
  <1>5. Own'
    BY <1>1, <1>3 DEF IInv, Own, Holds, IdPC
  <1>6. Open'
    BY <1>1, <1>2 DEF IInv, Open
  <1>7. Met'
    BY <1>1 DEF IInv, Met, IdentificationPC
  <1>8. Kept'
    BY <1>1, <1>3, <1>4 DEF IInv, Kept
  <1> QED BY <1>5, <1>6, <1>7, <1>8

(* An unblock: the mac goes into the history of every other request. *)
LEMMA UnblockStep ==
    ASSUME IInv, NEW r \in Slot, Unblock(r)
    PROVE  Own' /\ Open' /\ Met' /\ Kept'
  <1>0. user \in SUBSET User_t /\ FALSE \in BOOLEAN
    BY DEF IInv, TypeInv, TypeOK
  <1>1. /\ connections' = connections /\ made' = made
        /\ req'[r].pc = "idle"
        /\ \A s \in Slot \ {r} : Reopened(req'[s], req[s], req[r].mac)
        /\ Flagged(user, user', req[r].mac, FALSE) /\ req[r].mac \in Mac
    BY UnblockEffect DEF IInv
  <1>2. \A m \in Mac : Blocked(m) /\ m # req[r].mac => Blocked(m)'
    BY <1>0, <1>1, FlaggedBlacklist DEF Blocked
  <1>3. \A row \in user' : \E old \in user : row.mac = old.mac /\ row.userId = old.userId
    BY <1>1 DEF Flagged, SameRow
  <1>4. \A old \in user : \E row \in user' : row.mac = old.mac /\ row.userId = old.userId
    BY <1>1 DEF Flagged, SameRow
  <1>5. \A s \in Slot \ {r} :
           /\ req'[s].pc = req[s].pc /\ req'[s].mac = req[s].mac /\ req'[s].token = req[s].token
           /\ req'[s].connected = req[s].connected /\ req'[s].overlap = req[s].overlap
           /\ req[s].pc # "idle" => req'[s].open = req[s].open \cup {req[r].mac}
    BY <1>1 DEF Reopened
  <1>6. Own'
    BY <1>1, <1>3, <1>5 DEF IInv, Own, Holds, IdPC
  <1>7. Open'
    BY <1>1, <1>2, <1>5 DEF IInv, Open
  <1>8. Met'
    BY <1>1, <1>5 DEF IInv, Met, IdentificationPC
  <1>9. Kept'
    BY <1>1, <1>3, <1>4, <1>5 DEF IInv, Kept
  <1> QED BY <1>6, <1>7, <1>8, <1>9

LEMMA IdentifyStep ==
    ASSUME IInv, NEW r \in Slot, Identify(r)
    PROVE  Own' /\ Open' /\ Met' /\ Kept'
  <1>1. /\ Keep /\ req[r].pc = "idle" /\ req'[r].pc = "byMac"
        /\ req'[r].open = {m \in Mac : ~Blocked(m)}
        /\ req'[r].overlap = (\E s \in Slot : Same(s, req'[r].mac))
    BY IdentifyEffect DEF IInv
  <1>2. \A s \in Slot \ {r} :
           /\ req'[s].pc = req[s].pc /\ req'[s].mac = req[s].mac /\ req'[s].token = req[s].token
           /\ req'[s].connected = req[s].connected /\ req'[s].open = req[s].open
           /\ req'[s].overlap = req[s].overlap \/ req'[s].overlap = TRUE
           /\ Same(s, req'[r].mac) => req'[s].overlap = TRUE
    BY IdentifyEffect DEF IInv
  <1>3. user' = user /\ connections' = connections
    BY <1>1, KeepTables
  <1>4. \A m : Blocked(m)' = Blocked(m)
    BY <1>3 DEF Blocked
  <1>5. Own'
    BY <1>1, <1>2, <1>3 DEF IInv, Own, Holds, IdPC
  <1>6. Open'
    BY <1>1, <1>2, <1>4 DEF IInv, Open
  <1>7. Met'
    <2> SUFFICES ASSUME NEW a \in Slot, NEW b \in Slot, a # b, req'[a].mac = req'[b].mac,
                        req'[a].pc \in IdentificationPC, req'[b].pc \in IdentificationPC
                 PROVE  req'[a].overlap
      BY DEF Met
    <2>1. CASE a = r
      BY <1>1, <1>2, <2>1 DEF Same
    <2>2. CASE b = r
      BY <1>1, <1>2, <2>2 DEF Same
    <2>3. CASE a # r /\ b # r
      BY <1>2, <2>3 DEF IInv, Met
    <2> QED BY <2>1, <2>2, <2>3
  <1>8. Kept'
    BY <1>1, <1>2, <1>3 DEF IInv, Kept
  <1> QED BY <1>5, <1>6, <1>7, <1>8

LEMMA ReadByMacStep ==
    ASSUME IInv, NEW r \in Slot, ReadByMac(r)
    PROVE  Own' /\ Open' /\ Met' /\ Kept'
  <1>1. /\ req[r].pc = "byMac" /\ req'[r].pc = "connected" /\ req'[r].mac = req[r].mac
        /\ req[r].mac \in Mac
        /\ req'[r].overlap = req[r].overlap /\ req'[r].open = req[r].open
        /\ \A s \in Slot \ {r} : req'[s] = req[s]
        /\ \/ req'[r].token = NoId /\ \A row \in user : row.mac # req[r].mac
           \/ \E row \in user : row.mac = req[r].mac /\ row.userId = req'[r].token
    BY ReadByMacEffect DEF IInv, Reads, Others
  <1>2. user' = user /\ connections' = connections
    BY ReadByMacEffect, KeepTables DEF IInv, Reads
  <1>3. \A m : Blocked(m)' = Blocked(m)
    BY <1>2 DEF Blocked
  <1>4. Unique(user) /\ user \in SUBSET User_t
    BY DEF IInv, TypeInv, TypeOK, Unique
  <1>5. req'[r].token # NoId =>
           /\ \A row \in user : row.userId = req'[r].token => row.mac = req[r].mac
           /\ \A s \in Slot : Holds(s) /\ req[s].token = req'[r].token => req[s].mac = req[r].mac
    BY <1>1, <1>4 DEF IInv, Own, Unique
  <1>6. Own'
    BY <1>1, <1>2, <1>5 DEF IInv, Own, Holds, IdPC
  <1>7. (\A row \in user : row.mac # req[r].mac) => req[r].mac \in req[r].open
    <2>1. SUFFICES ASSUME \A row \in user : row.mac # req[r].mac
                   PROVE  ~Blocked(req[r].mac)
      BY <1>1 DEF IInv, Open
    <2> QED BY <1>4, <2>1, BlacklistOf DEF Blocked
  <1>8. Open'
    <2>1. \A row \in user : row.userId # NoId
      BY <1>4, NoIdAssumption DEF User_t
    <2>2. req'[r].token = NoId => req'[r].mac \in req'[r].open
      BY <1>1, <1>7, <2>1
    <2> QED BY <1>1, <1>3, <2>2 DEF IInv, Open
  <1>9. Met'
    BY <1>1 DEF IInv, Met, IdentificationPC
  <1>10. Kept'
    <2>1. \A row \in user : row.mac = req[r].mac => row.userId = req'[r].token
      BY <1>1, <1>4 DEF Unique
    <2> QED BY <1>1, <1>2, <2>1 DEF IInv, Kept
  <1> QED BY <1>6, <1>8, <1>9, <1>10

LEMMA ReadConnectedStep ==
    ASSUME IInv, NEW r \in Slot, ReadConnected(r)
    PROVE  Own' /\ Open' /\ Met' /\ Kept'
  <1>1. /\ req[r].pc = "connected" /\ req'[r].pc = "blocked" /\ req'[r].mac = req[r].mac
        /\ req'[r].token = req[r].token
        /\ req'[r].connected <=> req[r].token \in connections
        /\ req'[r].overlap = req[r].overlap /\ req'[r].open = req[r].open
        /\ \A s \in Slot \ {r} : req'[s] = req[s]
    BY ReadConnectedEffect DEF IInv, Reads, Others
  <1>2. user' = user /\ connections' = connections
    BY ReadConnectedEffect, KeepTables DEF IInv, Reads
  <1>3. \A m : Blocked(m)' = Blocked(m)
    BY <1>2 DEF Blocked
  <1>4. Own'
    BY <1>1, <1>2 DEF IInv, Own, Holds, IdPC
  <1>5. Open'
    BY <1>1, <1>3 DEF IInv, Open
  <1>6. Met'
    BY <1>1 DEF IInv, Met, IdentificationPC
  <1>7. Kept'
    BY <1>1, <1>2 DEF IInv, Kept
  <1> QED BY <1>4, <1>5, <1>6, <1>7

LEMMA AssignIdStep ==
    ASSUME IInv, NEW r \in Slot, AssignId(r)
    PROVE  Own' /\ Open' /\ Met' /\ Kept'
  <1>1. /\ req[r].pc = "blocked" /\ req'[r].pc = "create"
        /\ req[r].token # NoId => ~Blocked(req[r].mac)
        /\ user' = user /\ connections' = connections
        /\ \A s \in Slot \ {r} : req'[s] = req[s]
        /\ req'[r].mac = req[r].mac /\ req[r].mac \in Mac
        /\ req'[r].overlap = req[r].overlap /\ req'[r].open = req[r].open
        /\ \/ req[r].connected /\ req'[r].token = req[r].token /\ req[r].token \in made
           \/ ~req[r].connected /\ req'[r].token \in Id \ made
    BY AssignIdEffect DEF IInv, Others
  <1>2. /\ \A row \in user : row.userId \in made
        /\ \A s \in Slot : req[s].token \in made \cup {NoId}
        /\ made \subseteq Id
    BY DEF IInv, TypeInv, TypeOK
  <1>3. \A m : Blocked(m)' = Blocked(m)
    BY <1>1 DEF Blocked
  <1>4. Own'
    <2>1. CASE req[r].connected
      <3>1. req'[r].token = req[r].token /\ req[r].token # NoId
        BY <1>1, <1>2, <2>1, NoIdAssumption
      <3> QED BY <1>1, <3>1 DEF IInv, Own, Holds, IdPC
    <2>2. CASE ~req[r].connected
      <3>1. req'[r].token \in Id \ made
        BY <1>1, <2>2
      <3>2. req'[r].token # NoId
        BY <3>1, NoIdAssumption
      <3>3. /\ \A row \in user : row.userId # req'[r].token
            /\ \A s \in Slot \ {r} : req'[s].token # req'[r].token
        BY <1>1, <1>2, <3>1, <3>2
      <3> QED BY <1>1, <3>3 DEF IInv, Own, Holds, IdPC
    <2> QED BY <2>1, <2>2
  <1>5. Open'
    <2>1. req[r].mac \in req[r].open
      BY <1>1 DEF IInv, Open
    <2> QED BY <1>1, <1>3, <2>1 DEF IInv, Open
  <1>6. Met'
    BY <1>1 DEF IInv, Met, IdentificationPC
  <1>7. Kept'
    BY <1>1 DEF IInv, Kept
  <1> QED BY <1>4, <1>5, <1>6, <1>7

LEMMA CreateUserStep ==
    ASSUME IInv, NEW r \in Slot, CreateUser(r)
    PROVE  Own' /\ Open' /\ Met' /\ Kept'
  <1>0. user \in SUBSET User_t
    BY DEF IInv, TypeInv, TypeOK
  <1>1. /\ req[r].pc = "create" /\ req[r].mac \in Mac /\ req[r].token \in Id
        /\ req'[r].pc = "connect"
        /\ req'[r].mac = req[r].mac /\ req'[r].token = req[r].token
        /\ req'[r].overlap = req[r].overlap /\ req'[r].open = req[r].open \cup {req[r].mac}
        /\ \A s \in Slot \ {r} : Reopened(req'[s], req[s], req[r].mac)
        /\ Replaced(user, user', req[r].mac, req[r].token)
        /\ connections' = connections
    BY CreateUserEffect DEF IInv
  <1>2. \A s \in Slot \ {r} :
           /\ req'[s].pc = req[s].pc /\ req'[s].mac = req[s].mac /\ req'[s].token = req[s].token
           /\ req'[s].connected = req[s].connected /\ req'[s].overlap = req[s].overlap
           /\ req[s].pc # "idle" => req'[s].open = req[s].open \cup {req[r].mac}
    BY <1>1 DEF Reopened
  <1>3. \A row \in user : row.userId = req[r].token => row.mac = req[r].mac
    BY <1>1, NoIdAssumption DEF IInv, Own, Holds, IdPC
  <1>4. \A m \in Mac : Blocked(m)' <=> m # req[r].mac /\ Blocked(m)
    BY <1>0, <1>1, <1>3, ReplacedBlacklist DEF Blocked
  <1>5. /\ \A row \in user' : \/ row \in user /\ row.mac # req[r].mac
                              \/ row.mac = req[r].mac /\ row.userId = req[r].token
        /\ \A row \in user : row.mac # req[r].mac => row \in user'
        /\ \E row \in user' : row.mac = req[r].mac /\ row.userId = req[r].token
    BY <1>1, <1>3 DEF Replaced, Added
  <1>6. Own'
    <2>1. \A s \in Slot : Holds(s)' => Holds(s)
      BY <1>1, <1>2 DEF Holds, IdPC
    <2>2. \A s \in Slot : req'[s].mac = req[s].mac /\ req'[s].token = req[s].token
      BY <1>1, <1>2
    <2>3. Holds(r)
      BY <1>1, NoIdAssumption DEF Holds, IdPC
    <2> QED BY <1>5, <2>1, <2>2, <2>3 DEF IInv, Own
  <1>7. Open'
    BY <1>1, <1>2, <1>4 DEF IInv, Open
  <1>8. Met'
    BY <1>1, <1>2 DEF IInv, Met, IdentificationPC
  <1>9. Kept'
    <2> SUFFICES ASSUME NEW s \in Slot, ~req'[s].overlap
                 PROVE  /\ req'[s].pc \in {"connected", "blocked"} =>
                             \A row \in user' : row.mac = req'[s].mac => row.userId = req'[s].token
                        /\ req'[s].pc = "blocked" /\ ~req'[s].connected
                             => req'[s].token \notin connections
                        /\ req'[s].pc = "create" =>
                             \A row \in user' : row.mac = req'[s].mac =>
                                 row.userId = req'[s].token \/ row.userId \notin connections
                        /\ req'[s].pc = "connect" =>
                             \E row \in user' : row.mac = req'[s].mac /\ row.userId = req'[s].token
      BY <1>1 DEF Kept
    <2>1. CASE s = r
      BY <1>1, <1>5, <2>1
    <2>2. CASE s # r
      <3>1. req[s].pc \in IdentificationPC => req[s].mac # req[r].mac
        BY <1>1, <1>2, <2>2 DEF IInv, Met, IdentificationPC
      <3> QED BY <1>2, <1>5, <2>2, <3>1 DEF IInv, Kept, IdentificationPC
    <2> QED BY <2>1, <2>2
  <1> QED BY <1>6, <1>7, <1>8, <1>9

LEMMA ConnectUserStep ==
    ASSUME IInv, NEW r \in Slot, ConnectUser(r)
    PROVE  Own' /\ Open' /\ Met' /\ Kept'
  <1>1. /\ req[r].pc = "connect" /\ req'[r].pc = "idle"
        /\ \A s \in Slot \ {r} : req'[s] = req[s]
        /\ req[r].token \in made /\ req[r].mac \in Mac
        /\ connections' = connections \cup {req[r].token}
        /\ user' = user
    BY ConnectUserEffect DEF IInv, Others
  <1>2. \A m : Blocked(m)' = Blocked(m)
    BY <1>1 DEF Blocked
  <1>3. req[r].token # NoId
    BY <1>1, NoIdAssumption DEF IInv, TypeInv, TypeOK
  <1>4. Own'
    BY <1>1 DEF IInv, Own, Holds, IdPC
  <1>5. Open'
    BY <1>1, <1>2 DEF IInv, Open
  <1>6. Met'
    BY <1>1 DEF IInv, Met, IdentificationPC
  <1>7. Kept'
    <2> SUFFICES ASSUME NEW s \in Slot \ {r}, ~req[s].overlap
                 PROVE  /\ req[s].pc = "blocked" /\ ~req[s].connected
                             => req[s].token # req[r].token
                        /\ req[s].pc = "create" =>
                             \A row \in user : row.mac = req[s].mac => row.userId # req[r].token
      BY <1>1 DEF IInv, Kept
    <2>1. req[s].pc \in {"blocked", "create"} => req[s].mac # req[r].mac
      BY <1>1 DEF IInv, Met, IdentificationPC
    <2>2. Holds(r)
      BY <1>1, <1>3 DEF Holds, IdPC
    <2> QED BY <1>3, <2>1, <2>2 DEF IInv, Own, Holds, IdPC
  <1> QED BY <1>4, <1>5, <1>6, <1>7

THEOREM InvStep == IInv /\ [Next]_vars => IInv'
  <1> SUFFICES ASSUME IInv, [Next]_vars PROVE Own' /\ Open' /\ Met' /\ Kept'
    BY TypeStep DEF IInv
  <1>1. ASSUME NEW r \in Slot, Identification(r) PROVE Own' /\ Open' /\ Met' /\ Kept'
    <2>1. CASE RefuseBlocked(r)
      <3>1. /\ req'[r].pc = "idle" /\ \A s \in Slot \ {r} : req'[s] = req[s]
            /\ user' = user /\ connections' = connections
        BY <2>1, RefuseBlockedEffect, KeepTables DEF IInv, Others
      <3>2. \A m : Blocked(m)' = Blocked(m)
        BY <3>1 DEF Blocked
      <3>3. Own'
        BY <3>1 DEF IInv, Own, Holds, IdPC
      <3>4. Open'
        BY <3>1, <3>2 DEF IInv, Open
      <3>5. Met' /\ Kept'
        BY <3>1 DEF IInv, Met, Kept, IdentificationPC
      <3> QED BY <3>3, <3>4, <3>5
    <2> QED BY <1>1, <2>1, IdentifyStep, ReadByMacStep, ReadConnectedStep, AssignIdStep,
               CreateUserStep, ConnectUserStep DEF Identification
  <1>2. ASSUME NEW r \in Slot, Usager(r) PROVE Own' /\ Open' /\ Met' /\ Kept'
    BY <1>2, UsagerFrame, FrameStep, KeepTables DEF IInv
  <1>3. ASSUME NEW r \in Slot, Auth(r) PROVE Own' /\ Open' /\ Met' /\ Kept'
    BY <1>3, AuthFrame, FrameStep DEF IInv
  <1>4. ASSUME NEW r \in Slot, Superviseur(r) PROVE Own' /\ Open' /\ Met' /\ Kept'
    <2>1. (Frame(r) /\ Keep) \/ Block(r) \/ Unblock(r)
      BY <1>4, SuperviseurFrame DEF IInv
    <2> QED BY <2>1, FrameStep, KeepTables, BlockStep, UnblockStep
  <1>5. ASSUME NEW id \in Id, Expire(id) PROVE Own' /\ Open' /\ Met' /\ Kept'
    <2>1. user' = user /\ req' = req /\ connections' \subseteq connections
      BY <1>5 DEF Expire
    <2>2. \A m : Blocked(m)' = Blocked(m)
      BY <2>1 DEF Blocked
    <2> QED BY <2>1, <2>2 DEF IInv, Own, Open, Met, Kept, Holds
  <1>6. CASE Restart
    <2>1. \A r \in Slot : req'[r] = Idle
      BY <1>6 DEF Restart
    <2>2. Own' /\ Open' /\ Met'
      BY <2>1, IdleFields DEF Own, Open, Met, Holds, IdPC, IdentificationPC
    <2>3. Kept'
      BY <2>1, IdleFields DEF Kept
    <2> QED BY <2>2, <2>3
  <1>7. CASE UNCHANGED vars
    <2>1. user' = user /\ req' = req /\ connections' = connections
      BY <1>7 DEF vars, tables
    <2>2. \A m : Blocked(m)' = Blocked(m)
      BY <2>1 DEF Blocked
    <2> QED BY <2>1, <2>2 DEF IInv, Own, Open, Met, Kept, Holds
  <1> QED BY <1>1, <1>2, <1>3, <1>4, <1>5, <1>6, <1>7 DEF Next

THEOREM InvInit == Init => IInv
  <1> SUFFICES ASSUME Init PROVE IInv
    OBVIOUS
  <1>1. \A r \in Slot : req[r] = Idle
    BY DEF Init
  <1>2. Own /\ Open /\ Met /\ Kept
    BY <1>1, IdleFields DEF Own, Open, Met, Kept, Holds, IdPC, IdentificationPC
  <1> QED BY <1>2, TypeInit DEF IInv

THEOREM Invariance == Spec => []IInv
  BY InvInit, InvStep, PTL DEF Spec

-----------------------------------------------------------------------------
(* The black list *)

(* Three statements write the table of users. *)
LEMMA UserWriters ==
    ASSUME IInv, [Next]_vars, user' # user
    PROVE  \E r \in Slot : CreateUser(r) \/ Block(r) \/ Unblock(r)
  <1>1. ASSUME NEW r \in Slot, Identification(r) PROVE CreateUser(r)
    BY <1>1 DEF Identification, Identify, ReadByMac, ReadConnected, RefuseBlocked, AssignId,
                ConnectUser, Start, Keep, tables
  <1>2. ASSUME NEW r \in Slot, Usager(r) PROVE FALSE
    BY <1>2, UsagerFrame, KeepTables DEF IInv
  <1>3. ASSUME NEW r \in Slot, Auth(r) PROVE FALSE
    BY <1>3, AuthFrame DEF IInv
  <1>4. ASSUME NEW r \in Slot, Superviseur(r) PROVE Block(r) \/ Unblock(r)
    BY <1>4, SuperviseurFrame, KeepTables DEF IInv
  <1>5. ~(\E id \in Id : Expire(id)) /\ ~Restart /\ ~UNCHANGED vars
    BY DEF Expire, Restart, Keep, vars, tables
  <1> QED BY <1>1, <1>2, <1>3, <1>4, <1>5 DEF Next

(* A block is undone by an unblock, or by an identification that was under   *)
(* way before the block.                                                     *)
THEOREM BlocksStick == Spec => BlockSticks
  <1>1. IInv /\ [Next]_vars =>
          [\A mac \in Mac :
             Blocked(mac) /\ ~Blocked(mac)' =>
                 \E r \in Slot : /\ req[r].mac = mac
                                /\ \/ Unblock(r)
                                   \/ CreateUser(r) /\ mac \in req[r].open]_vars
    <2> SUFFICES ASSUME IInv, [Next]_vars, NEW mac \in Mac, Blocked(mac), ~Blocked(mac)'
                 PROVE  \E r \in Slot : /\ req[r].mac = mac
                                       /\ \/ Unblock(r)
                                          \/ CreateUser(r) /\ mac \in req[r].open
      OBVIOUS
    <2>0. TypeInv /\ user \in SUBSET User_t /\ TRUE \in BOOLEAN /\ FALSE \in BOOLEAN
      BY DEF IInv, TypeInv, TypeOK
    <2>1. user' # user
      BY DEF Blocked
    <2>2. PICK r \in Slot : CreateUser(r) \/ Block(r) \/ Unblock(r)
      BY <2>1, UserWriters
    <2>3. CASE CreateUser(r)
      <3>1. /\ req[r].pc = "create" /\ req[r].mac \in Mac /\ req[r].token \in Id
            /\ Replaced(user, user', req[r].mac, req[r].token)
        BY <2>0, <2>3, CreateUserEffect
      <3>2. \A row \in user : row.userId = req[r].token => row.mac = req[r].mac
        BY <3>1, NoIdAssumption DEF IInv, Own, Holds, IdPC
      <3>3. Blocked(mac)' <=> mac # req[r].mac /\ Blocked(mac)
        BY <2>0, <3>1, <3>2, ReplacedBlacklist DEF Blocked
      <3>4. req[r].mac \in req[r].open
        BY <3>1 DEF IInv, Open
      <3> QED BY <2>3, <3>3, <3>4
    <2>4. CASE Block(r)
      <3>1. Flagged(user, user', req[r].mac, TRUE) /\ req[r].mac \in Mac
        BY <2>0, <2>4, BlockEffect
      <3>2. getBlacklistByMAC(user, mac) => getBlacklistByMAC(user', mac)
        BY <2>0, <3>1, FlaggedBlacklist
      <3> QED BY <3>2 DEF Blocked
    <2>5. CASE Unblock(r)
      <3>1. Flagged(user, user', req[r].mac, FALSE) /\ req[r].mac \in Mac
        BY <2>0, <2>5, UnblockEffect
      <3>2. mac = req[r].mac
        BY <2>0, <3>1, FlaggedBlacklist DEF Blocked
      <3> QED BY <2>5, <3>2
    <2> QED BY <2>2, <2>3, <2>4, <2>5
  <1> QED BY <1>1, Invariance, PTL DEF Spec, BlockSticks

(* Whoever is blocked from the beginning of a request to its end gets        *)
(* nothing of the http server.                                               *)
THEOREM BlockedGetNothing == Spec => ShutOut
  <1>1. IInv /\ [Next]_vars =>
          [\A r \in Slot : ConnectUser(r) \/ ListAnswered(r) \/ PostAdmitted(r)
                             => req[r].mac \in req[r].open]_vars
    <2> SUFFICES ASSUME IInv, NEW r \in Slot,
                        ConnectUser(r) \/ ListAnswered(r) \/ PostAdmitted(r)
                 PROVE  req[r].mac \in req[r].open
      OBVIOUS
    <2>1. CASE ConnectUser(r)
      BY <2>1 DEF ConnectUser, IInv, Open
    <2>2. CASE ListAnswered(r)
      <3>1. req[r].pc = "listBlocked" /\ ~Blocked(req[r].mac)
        BY <2>2 DEF ListAnswered
      <3>2. req[r].mac \in Mac
        BY <3>1 DEF IInv, TypeInv, Grounded, MacPC
      <3> QED BY <3>1, <3>2 DEF IInv, Open
    <2>3. CASE PostAdmitted(r)
      BY <2>3 DEF PostAdmitted, IInv, Open
    <2> QED BY <2>1, <2>2, <2>3
  <1> QED BY <1>1, Invariance, PTL DEF Spec, ShutOut

-----------------------------------------------------------------------------
(* Ids *)

(* Unless two identifications of a mac overlap, the id that is answered is   *)
(* that of the user's row.                                                   *)
THEOREM AnswersLive == Spec => AnswerLives
  <1>1. IInv /\ [Next]_vars =>
          [\A r \in Slot : ConnectUser(r) /\ ~req[r].overlap =>
             \E row \in user' : row.mac = req[r].mac /\ row.userId = req[r].token]_vars
    BY ConnectUserEffect DEF IInv, Kept
  <1> QED BY <1>1, Invariance, PTL DEF Spec, AnswerLives

(* An id whose connection lasts is taken from its user by one of two         *)
(* overlapping identifications, and by nothing else.                         *)
THEOREM TokensKept == Spec => TokenKept
  <1>1. IInv /\ [Next]_vars =>
          [\A row \in user :
             /\ row.userId \in connections
             /\ getUserById(user', row.userId) = NoUser
             => \E r \in Slot : CreateUser(r) /\ req[r].mac = row.mac /\ req[r].overlap]_vars
    <2> SUFFICES ASSUME IInv, [Next]_vars, NEW row \in user, row.userId \in connections,
                        getUserById(user', row.userId) = NoUser
                 PROVE  \E r \in Slot : CreateUser(r) /\ req[r].mac = row.mac /\ req[r].overlap
      OBVIOUS
    <2>0. TypeInv /\ user' \in SUBSET User_t
      <3>1. TypeInv'
        BY TypeStep DEF IInv
      <3> QED BY <3>1 DEF IInv, TypeInv, TypeOK
    <2>1. NoUser \notin user'
      BY <2>0, NoMacAssumption DEF NoUser, User_t
    <2>2. \A new \in user' : new.userId # row.userId
      BY <2>0, <2>1, FoundById
    <2>3. PICK r \in Slot : CreateUser(r) \/ Block(r) \/ Unblock(r)
      BY <2>2, UserWriters
    <2>4. CASE CreateUser(r)
      <3>1. /\ req[r].pc = "create"
            /\ Replaced(user, user', req[r].mac, req[r].token)
        BY <2>0, <2>4, CreateUserEffect
      <3>2. Added(req[r].mac, req[r].token) \in user'
        BY <3>1 DEF Replaced
      <3>3. row.userId # req[r].token
        BY <2>2, <3>2 DEF Added
      <3>4. row.mac = req[r].mac
        BY <2>2, <3>1, <3>3 DEF Replaced
      <3>5. req[r].overlap
        <4>1. ~req[r].overlap => row.userId \notin connections
          BY <3>1, <3>3, <3>4 DEF IInv, Kept
        <4> QED BY <4>1
      <3> QED BY <2>4, <3>4, <3>5
    <2>5. CASE Block(r)
      <3>1. Flagged(user, user', req[r].mac, TRUE)
        BY <2>0, <2>5, BlockEffect
      <3> QED BY <2>2, <3>1 DEF Flagged, SameRow
    <2>6. CASE Unblock(r)
      <3>1. Flagged(user, user', req[r].mac, FALSE)
        BY <2>0, <2>6, UnblockEffect
      <3> QED BY <2>2, <3>1 DEF Flagged, SameRow
    <2> QED BY <2>3, <2>4, <2>5, <2>6
  <1> QED BY <1>1, Invariance, PTL DEF Spec, TokenKept

-----------------------------------------------------------------------------
(* The password *)

(* One request is on the handler thread, and what it compared its password   *)
(* with is still the password.                                               *)
HandlerInv ==
    /\ \A r, s \in Slot : req[r].pc \in AuthPC /\ req[s].pc \in AuthPC => r = s
    /\ \A r \in Slot : req[r].pc \in {"loginConnect", "changeSet"}
                         => req[r].password = adminPassword

(* A request of another thread does not disturb it. *)
Quiet(r) ==
    /\ adminPassword' = adminPassword
    /\ req'[r].pc \notin AuthPC
    /\ \A s \in Slot \ {r} : req'[s].pc = req[s].pc /\ req'[s].password = req[s].password

LEMMA QuietStep ==
    ASSUME TypeInv, HandlerInv, NEW r \in Slot, Quiet(r)
    PROVE  HandlerInv'
  <1>1. \A s \in Slot : req'[s].pc \in AuthPC => s # r /\ req[s].pc \in AuthPC
    BY DEF Quiet
  <1>2. \A a, b \in Slot : req'[a].pc \in AuthPC /\ req'[b].pc \in AuthPC => a = b
    BY <1>1 DEF HandlerInv
  <1>3. \A s \in Slot : req'[s].pc \in {"loginConnect", "changeSet"}
                          => req'[s].password = adminPassword'
    BY DEF HandlerInv, Quiet, AuthPC
  <1> QED BY <1>2, <1>3 DEF HandlerInv

LEMMA QuietDone ==
    ASSUME TypeInv, NEW r \in Slot, Done(r), adminPassword' = adminPassword
    PROVE  Quiet(r)
  <1>1. req \in [Slot -> Request]
    BY DEF TypeInv, TypeOK
  <1>2. req'[r] = Idle /\ \A s \in Slot \ {r} : req'[s] = req[s]
    BY <1>1, Finished
  <1> QED BY <1>2, IdleFields DEF Quiet, AuthPC

LEMMA QuietGoto ==
    ASSUME TypeInv, NEW r \in Slot, NEW pc \in PC \ AuthPC, Goto(r, pc),
           adminPassword' = adminPassword
    PROVE  Quiet(r)
  <1>1. req \in [Slot -> Request]
    BY DEF TypeInv, TypeOK
  <1>2. req'[r].pc = pc /\ \A s \in Slot \ {r} : req'[s] = req[s]
    BY <1>1, Went
  <1> QED BY <1>2 DEF Quiet

(* Steps that change no password, and where the new place of the thread is   *)
(* not one of the handler's. *)
LEMMA QuietNew ==
    ASSUME TypeInv, NEW r \in Slot, NEW next \in Request, Step(r, next), next.pc \notin AuthPC,
           adminPassword' = adminPassword
    PROVE  Quiet(r)
  <1>1. req \in [Slot -> Request]
    BY DEF TypeInv, TypeOK
  <1>2. req'[r] = next /\ \A s \in Slot \ {r} : req'[s] = req[s]
    BY <1>1, Stepped
  <1> QED BY <1>2 DEF Quiet

LEMMA UsagerQuiet == ASSUME TypeInv, NEW r \in Slot, Usager(r) PROVE Quiet(r)
  <1>0. /\ Frame(r) /\ adminPassword' = adminPassword
        /\ user \in SUBSET User_t /\ req[r] \in Request
    BY UsagerFrame, KeepTables DEF TypeInv, TypeOK
  <1>1. ASSUME AskAsUser(r) PROVE Quiet(r)
    <2>1. PICK token \in given, pc \in {"listUser", "postUser"} :
             Step(r, [Fresh EXCEPT !.pc = pc, !.token = token])
      BY <1>1 DEF AskAsUser
    <2> DEFINE next == [Fresh EXCEPT !.pc = pc, !.token = token]
    <2>2. token \in Id
      BY DEF TypeInv, TypeOK
    <2>3. next \in Request /\ next.pc = pc
      BY <2>2, FreshFields DEF Request, UsagerPC, PostPC
    <2>4. Step(r, next)
      BY <2>1
    <2> HIDE DEF next
    <2> QED BY <1>0, <2>3, <2>4, QuietNew DEF AuthPC
  <1>2. ASSUME FindUser(r) PROVE Quiet(r)
    <2> DEFINE requestUser == getUserById(user, req[r].token)
               pc == IF req[r].pc = "listUser" THEN "listConnected" ELSE "postBlocked"
               next == [req[r] EXCEPT !.pc = pc, !.mac = requestUser.mac]
    <2>1. CASE requestUser = NoUser
      BY <1>0, <1>2, <2>1, QuietDone DEF FindUser
    <2>2. CASE requestUser # NoUser
      <3>1. Step(r, next)
        BY <1>2, <2>2 DEF FindUser
      <3>2. requestUser \in user
        BY <1>0, <2>2, FoundById
      <3>3. requestUser.mac \in Mac
        BY <1>0, <3>2 DEF User_t
      <3>4. next \in Request /\ next.pc \in {"listConnected", "postBlocked"}
        BY <1>0, <3>3 DEF Request, UsagerPC, PostPC
      <3> HIDE DEF next, pc, requestUser
      <3>5. next.pc \notin AuthPC
        BY <3>4 DEF AuthPC
      <3> QED BY <1>0, <3>1, <3>4, <3>5, QuietNew
    <2> QED BY <2>1, <2>2
  <1>3. ASSUME ListConnected(r) PROVE Quiet(r)
    <2> DEFINE is == isUserConnected(connections, req[r].token)
               next == [req[r] EXCEPT !.pc = "listBlocked", !.connected = is]
    <2>0. is \in BOOLEAN
      BY DEF isUserConnected
    <2>2. Step(r, next)
      BY <1>3 DEF ListConnected
    <2> HIDE DEF is
    <2>1. next \in Request /\ next.pc = "listBlocked"
      BY <1>0, <2>0 DEF Request, UsagerPC
    <2> HIDE DEF next
    <2> QED BY <1>0, <2>1, <2>2, QuietNew DEF AuthPC
  <1>4. ASSUME ListAnswered(r) \/ ListRefused(r) \/ PostAdmitted(r) \/ PostRefused(r)
        PROVE  Quiet(r)
    BY <1>0, <1>4, QuietDone DEF ListAnswered, ListRefused, PostAdmitted, PostRefused
  <1>5. ASSUME PostBlocked(r) PROVE Quiet(r)
    <2>1. "postConnected" \in PC \ AuthPC
      BY DEF PC, UsagerPC, PostPC, AuthPC
    <2> QED BY <1>0, <1>5, <2>1, QuietDone, QuietGoto DEF PostBlocked
  <1> QED BY <1>1, <1>2, <1>3, <1>4, <1>5 DEF Usager

LEMMA SuperviseurQuiet == ASSUME TypeInv, NEW r \in Slot, Superviseur(r) PROVE Quiet(r)
  <1>0. /\ adminPassword' = adminPassword
        /\ user \in SUBSET User_t /\ req[r] \in Request
    BY DEF TypeInv, TypeOK, Superviseur, AskAsAdmin, BlockAdmin, BlockRead, Block, UnblockRead,
           Unblock, ReadAsAdmin, Start, Keep, tables
  <1>1. ASSUME AskAsAdmin(r) PROVE Quiet(r)
    <2>1. PICK token \in given \cup {NoId}, mac \in Mac \cup {NoMac},
               pc \in {"blockAdmin", "unblockRead", "readAdmin"} :
             Step(r, [Fresh EXCEPT !.pc = pc, !.token = token, !.mac = mac])
      <3>1. Fresh.token = NoId /\ Fresh.mac = NoMac
        BY FreshFields
      <3>2. \A mac : [Fresh EXCEPT !.pc = "unblockRead", !.mac = mac]
                       = [Fresh EXCEPT !.pc = "unblockRead", !.token = NoId, !.mac = mac]
        BY <3>1, FreshFields DEF Request
      <3>3. \A token : [Fresh EXCEPT !.pc = "readAdmin", !.token = token]
                         = [Fresh EXCEPT !.pc = "readAdmin", !.token = token, !.mac = NoMac]
        BY <3>1, FreshFields DEF Request
      <3> QED BY <1>1, <3>2, <3>3 DEF AskAsAdmin
    <2> DEFINE next == [Fresh EXCEPT !.pc = pc, !.token = token, !.mac = mac]
    <2>2. token \in Id \cup {NoId}
      BY DEF TypeInv, TypeOK
    <2>3. next \in Request /\ next.pc = pc
      BY <2>2, FreshFields DEF Request, SuperviseurPC
    <2>4. Step(r, next)
      BY <2>1
    <2> HIDE DEF next
    <2> QED BY <1>0, <2>3, <2>4, QuietNew DEF AuthPC
  <1>2. /\ "blockRead" \in PC \ AuthPC /\ "blockSet" \in PC \ AuthPC
        /\ "unblockSet" \in PC \ AuthPC
    BY DEF PC, SuperviseurPC, AuthPC
  <1>3. ASSUME BlockAdmin(r) \/ BlockRead(r) \/ UnblockRead(r) PROVE Quiet(r)
    BY <1>0, <1>2, <1>3, QuietDone, QuietGoto DEF BlockAdmin, BlockRead, UnblockRead
  <1>4. ASSUME Block(r) \/ ReadAsAdmin(r) PROVE Quiet(r)
    BY <1>0, <1>4, QuietDone DEF Block, ReadAsAdmin
  <1>5. ASSUME Unblock(r) PROVE Quiet(r)
    <2>1. /\ req'[r].pc = "idle"
          /\ \A s \in Slot \ {r} : Reopened(req'[s], req[s], req[r].mac)
      BY <1>5, UnblockEffect
    <2> QED BY <1>0, <2>1 DEF Quiet, Reopened, AuthPC
  <1> QED BY <1>1, <1>3, <1>4, <1>5 DEF Superviseur

LEMMA IdentificationQuiet == ASSUME TypeInv, NEW r \in Slot, Identification(r) PROVE Quiet(r)
  <1>0. /\ adminPassword' = adminPassword
        /\ user \in SUBSET User_t /\ req \in [Slot -> Request] /\ req[r] \in Request
    BY DEF TypeInv, TypeOK, Identification, Identify, ReadByMac, ReadConnected, RefuseBlocked,
           AssignId, CreateUser, ConnectUser, Start, Keep, tables
  <1>1. ASSUME Identify(r) PROVE Quiet(r)
    <2>1. PICK mac \in Mac :
             req' = [s \in Slot |->
                   IF s = r THEN [Fresh EXCEPT !.pc = "byMac", !.mac = mac,
                                               !.overlap = \E o \in Slot : Same(o, mac)]
                   ELSE IF Same(s, mac) THEN [req[s] EXCEPT !.overlap = TRUE]
                   ELSE req[s]]
      BY <1>1 DEF Identify
    <2> DEFINE mine == [Fresh EXCEPT !.pc = "byMac", !.mac = mac,
                                     !.overlap = \E o \in Slot : Same(o, mac)]
    <2>2. mine.pc = "byMac"
      BY FreshFields DEF Request
    <2>3. req'[r] = mine
      BY <2>1
    <2>4. \A s \in Slot \ {r} :
             req'[s] = [req[s] EXCEPT !.overlap = TRUE] \/ req'[s] = req[s]
      BY <2>1
    <2>5. \A s \in Slot : /\ [req[s] EXCEPT !.overlap = TRUE].pc = req[s].pc
                          /\ [req[s] EXCEPT !.overlap = TRUE].password = req[s].password
      BY <1>0 DEF Request
    <2>6. \A s \in Slot \ {r} : req'[s].pc = req[s].pc /\ req'[s].password = req[s].password
      BY <2>4, <2>5
    <2> HIDE DEF mine
    <2> QED BY <1>0, <2>2, <2>3, <2>6 DEF Quiet, AuthPC
  <1>2. ASSUME ReadByMac(r) PROVE Quiet(r)
    <2> DEFINE found == getUserByMac(user, req[r].mac).userId
               next == [req[r] EXCEPT !.pc = "connected", !.token = found]
    <2>1. found \in Id \cup {NoId}
      BY <1>0, FoundByMac DEF NoUser, User_t
    <2>2. next \in Request /\ next.pc = "connected"
      BY <1>0, <2>1 DEF Request, IdentificationPC
    <2>3. Step(r, next)
      BY <1>2 DEF ReadByMac
    <2> HIDE DEF next
    <2> QED BY <1>0, <2>2, <2>3, QuietNew DEF AuthPC
  <1>3. ASSUME ReadConnected(r) PROVE Quiet(r)
    <2> DEFINE is == isUserConnected(connections, req[r].token)
               next == [req[r] EXCEPT !.pc = "blocked", !.connected = is]
    <2>0. is \in BOOLEAN
      BY DEF isUserConnected
    <2>2. Step(r, next)
      BY <1>3 DEF ReadConnected
    <2> HIDE DEF is
    <2>1. next \in Request /\ next.pc = "blocked"
      BY <1>0, <2>0 DEF Request, IdentificationPC
    <2> HIDE DEF next
    <2> QED BY <1>0, <2>1, <2>2, QuietNew DEF AuthPC
  <1>4. ASSUME RefuseBlocked(r) \/ ConnectUser(r) PROVE Quiet(r)
    BY <1>0, <1>4, QuietDone DEF RefuseBlocked, ConnectUser
  <1>5. ASSUME AssignId(r) PROVE Quiet(r)
    <2>1. CASE Goto(r, "create")
      <3>1. "create" \in PC \ AuthPC
        BY DEF PC, IdentificationPC, AuthPC
      <3> QED BY <1>0, <2>1, <3>1, QuietGoto
    <2>2. ASSUME NEW id \in Id, Step(r, [req[r] EXCEPT !.pc = "create", !.token = id])
          PROVE  Quiet(r)
      <3> DEFINE next == [req[r] EXCEPT !.pc = "create", !.token = id]
      <3>1. next \in Request /\ next.pc = "create"
        BY <1>0 DEF Request, IdentificationPC
      <3>2. Step(r, next)
        BY <2>2
      <3> HIDE DEF next
      <3> QED BY <1>0, <3>1, <3>2, QuietNew DEF AuthPC
    <2> QED BY <1>5, <2>1, <2>2 DEF AssignId
  <1>6. ASSUME CreateUser(r) PROVE Quiet(r)
    <2>1. /\ req'[r].pc = "connect"
          /\ \A s \in Slot \ {r} : Reopened(req'[s], req[s], req[r].mac)
      BY <1>6, CreateUserEffect
    <2> QED BY <1>0, <2>1 DEF Quiet, Reopened, AuthPC
  <1> QED BY <1>1, <1>2, <1>3, <1>4, <1>5, <1>6 DEF Identification

(* A step of the handler thread that compares no password and writes none.   *)
LEMMA HandlerGoto ==
    ASSUME TypeInv, HandlerInv, NEW r \in Slot, NEW pc \in PC, Goto(r, pc),
           req[r].pc \in AuthPC, adminPassword' = adminPassword,
           pc \in {"loginConnect", "changeSet"} => req[r].password = adminPassword
    PROVE  HandlerInv'
  <1>1. req \in [Slot -> Request]
    BY DEF TypeInv, TypeOK
  <1>2. /\ req'[r].pc = pc /\ req'[r].password = req[r].password
        /\ \A s \in Slot \ {r} : req'[s] = req[s]
    BY <1>1, Went
  <1>3. \A s \in Slot \ {r} : req'[s].pc \notin AuthPC
    BY <1>2 DEF HandlerInv
  <1>4. {"loginConnect", "changeSet"} \subseteq AuthPC
    BY DEF AuthPC
  <1> QED BY <1>2, <1>3, <1>4 DEF HandlerInv

LEMMA HandlerDone ==
    ASSUME TypeInv, HandlerInv, NEW r \in Slot, Done(r), req[r].pc \in AuthPC
    PROVE  HandlerInv'
  <1>1. req \in [Slot -> Request]
    BY DEF TypeInv, TypeOK
  <1>2. req'[r] = Idle /\ \A s \in Slot \ {r} : req'[s] = req[s]
    BY <1>1, Finished
  <1>3. \A s \in Slot : req'[s].pc \notin AuthPC
    BY <1>2, IdleFields DEF HandlerInv, AuthPC
  <1>4. {"loginConnect", "changeSet"} \subseteq AuthPC
    BY DEF AuthPC
  <1> QED BY <1>3, <1>4 DEF HandlerInv

LEMMA AskHandlerStep ==
    ASSUME TypeInv, HandlerInv, NEW r \in Slot, AskHandler(r)
    PROVE  HandlerInv'
  <1>1. \A s \in Slot : req[s].pc \notin AuthPC
    BY DEF AskHandler, HandlerFree, Requests
  <1>2. PICK next \in Request :
           Step(r, next) /\ next.pc \notin {"loginConnect", "changeSet"}
    <2>1. given \subseteq Id
      BY DEF TypeInv, TypeOK
    <2>2. ASSUME NEW token \in given, NEW pc \in {"logoutAdmin", "volumeAdmin"},
                 Step(r, [Fresh EXCEPT !.pc = pc, !.token = token])
          PROVE  \E next \in Request :
                    Step(r, next) /\ next.pc \notin {"loginConnect", "changeSet"}
      <3> DEFINE next == [Fresh EXCEPT !.pc = pc, !.token = token]
      <3>1. next \in Request /\ next.pc = pc
        BY <2>1, FreshFields DEF Request, AuthPC
      <3> QED BY <2>2, <3>1
    <2>3. ASSUME NEW token \in given, NEW password \in Password,
                 Step(r, [Fresh EXCEPT !.pc = "loginAdmin", !.token = token,
                                       !.password = password])
          PROVE  \E next \in Request :
                    Step(r, next) /\ next.pc \notin {"loginConnect", "changeSet"}
      <3> DEFINE next == [Fresh EXCEPT !.pc = "loginAdmin", !.token = token,
                                       !.password = password]
      <3>1. next \in Request /\ next.pc = "loginAdmin"
        BY <2>1, FreshFields DEF Request, AuthPC
      <3> QED BY <2>3, <3>1
    <2>4. ASSUME NEW ancien \in Password, NEW nouveau \in Password,
                 Step(r, [Fresh EXCEPT !.pc = "changeHash", !.password = ancien,
                                       !.nouveau = nouveau])
          PROVE  \E next \in Request :
                    Step(r, next) /\ next.pc \notin {"loginConnect", "changeSet"}
      <3> DEFINE next == [Fresh EXCEPT !.pc = "changeHash", !.password = ancien,
                                       !.nouveau = nouveau]
      <3>1. next \in Request /\ next.pc = "changeHash"
        BY FreshFields DEF Request, AuthPC
      <3> QED BY <2>4, <3>1
    <2> QED BY <2>2, <2>3, <2>4 DEF AskHandler
  <1>3. req \in [Slot -> Request]
    BY DEF TypeInv, TypeOK
  <1>4. req'[r] = next /\ \A s \in Slot \ {r} : req'[s] = req[s]
    BY <1>2, <1>3, Stepped
  <1>5. {"loginConnect", "changeSet"} \subseteq AuthPC
    BY DEF AuthPC
  <1> QED BY <1>1, <1>2, <1>4, <1>5 DEF HandlerInv

LEMMA AuthHandler ==
    ASSUME TypeInv, HandlerInv, NEW r \in Slot, Auth(r)
    PROVE  HandlerInv'
  <1>0. {"loginUser", "loginHash", "loginConnect", "changeSet", "logoutDisconnect"} \subseteq PC
    BY DEF PC, AuthPC
  <1>1. ASSUME LoginAdmin(r) PROVE HandlerInv'
    <2>1. req[r].pc \in AuthPC /\ adminPassword' = adminPassword
      BY <1>1, KeepTables DEF LoginAdmin, AuthPC
    <2>2. Done(r) \/ Goto(r, "loginUser")
      BY <1>1 DEF LoginAdmin
    <2> QED BY <1>0, <2>1, <2>2, HandlerDone, HandlerGoto
  <1>2. ASSUME LoginUser(r) PROVE HandlerInv'
    <2>1. req[r].pc \in AuthPC /\ adminPassword' = adminPassword
      BY <1>2, KeepTables DEF LoginUser, AuthPC
    <2>2. Done(r) \/ Goto(r, "loginHash")
      BY <1>2 DEF LoginUser
    <2> QED BY <1>0, <2>1, <2>2, HandlerDone, HandlerGoto
  <1>3. ASSUME CheckPassword(r) PROVE HandlerInv'
    <2>1. req[r].pc \in AuthPC /\ adminPassword' = adminPassword
      BY <1>3, KeepTables DEF CheckPassword, AuthPC
    <2>2. \/ Done(r)
          \/ /\ req[r].password = adminPassword
             /\ Goto(r, "loginConnect") \/ Goto(r, "changeSet")
      BY <1>3 DEF CheckPassword
    <2> QED BY <1>0, <2>1, <2>2, HandlerDone, HandlerGoto
  <1>4. ASSUME LogoutAdmin(r) PROVE HandlerInv'
    <2>1. req[r].pc \in AuthPC /\ adminPassword' = adminPassword
      BY <1>4, KeepTables DEF LogoutAdmin, AuthPC
    <2>2. Done(r) \/ Goto(r, "logoutDisconnect")
      BY <1>4 DEF LogoutAdmin
    <2> QED BY <1>0, <2>1, <2>2, HandlerDone, HandlerGoto
  <1>5. ASSUME ConnectAdmin(r) \/ SetAdminPassword(r) \/ DisconnectAdmin(r) PROVE HandlerInv'
    <2>1. req[r].pc \in AuthPC /\ Done(r)
      BY <1>5 DEF ConnectAdmin, SetAdminPassword, DisconnectAdmin, AuthPC
    <2> QED BY <2>1, HandlerDone
  <1> QED BY <1>1, <1>2, <1>3, <1>4, <1>5, AskHandlerStep DEF Auth

THEOREM HandlerStep == TypeInv /\ HandlerInv /\ [Next]_vars => HandlerInv'
  <1> SUFFICES ASSUME TypeInv, HandlerInv, [Next]_vars PROVE HandlerInv'
    OBVIOUS
  <1>1. ASSUME NEW r \in Slot, Identification(r) \/ Usager(r) \/ Superviseur(r) PROVE HandlerInv'
    BY <1>1, IdentificationQuiet, UsagerQuiet, SuperviseurQuiet, QuietStep
  <1>2. ASSUME NEW r \in Slot, Auth(r) PROVE HandlerInv'
    BY <1>2, AuthHandler
  <1>3. ASSUME NEW id \in Id, Expire(id) PROVE HandlerInv'
    BY <1>3 DEF Expire, HandlerInv
  <1>4. CASE Restart
    <2>1. \A r \in Slot : req'[r] = Idle
      BY <1>4 DEF Restart
    <2> QED BY <2>1, IdleFields DEF HandlerInv, AuthPC
  <1>5. CASE UNCHANGED vars
    BY <1>5 DEF vars, tables, HandlerInv
  <1> QED BY <1>1, <1>2, <1>3, <1>4, <1>5 DEF Next

THEOREM HandlerInit == Init => HandlerInv
  <1> SUFFICES ASSUME Init PROVE HandlerInv
    OBVIOUS
  <1>1. \A r \in Slot : req[r] = Idle
    BY DEF Init
  <1> QED BY <1>1, IdleFields DEF HandlerInv, AuthPC

(* The password a login or a change compared is still the one in force when  *)
(* the administrator is connected or the password replaced: the one handler  *)
(* thread serves nothing in between.                                         *)
THEOREM PasswordsInForce == Spec => PasswordInForce
  <1>1. HandlerInv =>
          [\A r \in Slot : ConnectAdmin(r) \/ SetAdminPassword(r)
                             => req[r].password = adminPassword]_vars
    BY DEF HandlerInv, ConnectAdmin, SetAdminPassword
  <1> QED BY <1>1, TypeInit, TypeStep, HandlerInit, HandlerStep, PTL DEF Spec, PasswordInForce
=============================================================================
