------------------------------ MODULE AccessProofs ------------------------------
(***************************************************************************)
(* Theorems about Access, for any users, requests, roles that requests may *)
(* name and mixes of operations, and any number of faults.                 *)
(***************************************************************************)
EXTENDS Access, FiniteSetTheorems, TLAPS

\* What a request has asked and was let in with, where it stands.
Asked ==
    \A r \in Requests :
       /\ ask[r] = None => pc[r] = "idle" /\ copy[r] = None
       /\ pc[r] = "load" => copy[r] = None
       /\ ask[r] # None => /\ Op(r) \in RoleOps => Row(r) \in Named
                           /\ Op(r) \in SecretOps => ask[r].what \in Secrets

Placed ==
    \A r \in Requests :
       /\ pc[r] \in {"roles", "has", "add", "remove"} =>
             Op(r) \in RoleOps /\ copy[r].user # None
       /\ pc[r] \in {"count", "update", "insert", "drop"} =>
             Op(r) \in SecretOps /\ copy[r].user # None
       /\ pc[r] = "rotate" => Op(r) = "verify" /\ Matches(r, copy[r])

\* The inductive invariant of the types.
TypeInv == TypeOK /\ Asked /\ Placed

LEMMA SessionLoaded ==
    ASSUME TypeInv, NEW r \in Requests, pc[r] = "load" PROVE Loaded(r) \in Copies
<1>1. ask[r].sid \in Sids \cup {None}
  BY DEF TypeInv, TypeOK, Asks
<1>2. CASE ask[r].sid \in DOMAIN sessions
  <2>1. sessions[ask[r].sid] \in Rows /\ ask[r].sid \in Sids
    BY <1>2 DEF TypeInv, TypeOK
  <2>2. QED
    BY <1>2, <2>1 DEF Loaded, Rows, Copies
<1>3. CASE ask[r].sid \notin DOMAIN sessions
  <2>1. <<"first", r>> \in Sids
    BY DEF Sids
  <2>2. QED
    BY <1>3, <2>1 DEF Loaded, Copies
<1>4. QED
  BY <1>2, <1>3

\* The session is renewed, or regenerate failed.
Turns(r) == Rotate(r) \/ RotateThrows(r)

LEMMA Turned ==
    ASSUME TypeInv, NEW r \in Requests, Turns(r)
    PROVE  /\ \E c \in Copies : copy' = [copy EXCEPT ![r] = c]
           /\ copy'[r].sid = <<"login", r>> /\ copy'[r].nonce = None
           /\ pc[r] = "rotate" /\ GoTo(r, "save") /\ UNCHANGED ask /\ ask[r] # None
<1>1. \A u \in Users \cup {None} : Renewed(r, u) \in Copies
  BY DEF Renewed, Copies, Sids
<1>2. pc[r] = "rotate" /\ GoTo(r, "save") /\ UNCHANGED ask
  BY DEF Turns, Rotate, RotateThrows, LogIn
<1>3. ask[r] \in Asks /\ ask[r] # None
  BY <1>2 DEF TypeInv, TypeOK
<1>4. User(r) \in Users
  BY <1>3 DEF User, Asks
<1>5. copy' = [copy EXCEPT ![r] = Renewed(r, User(r))] \/ copy' = [copy EXCEPT ![r] = Renewed(r, None)]
  BY DEF Turns, Rotate, RotateThrows, LogIn
<1>6. PICK u \in Users \cup {None} : copy' = [copy EXCEPT ![r] = Renewed(r, u)]
  BY <1>4, <1>5
<1>7. copy'[r] = Renewed(r, u)
  BY <1>6 DEF TypeInv, TypeOK
<1>8. copy'[r].sid = <<"login", r>> /\ copy'[r].nonce = None
  BY <1>7 DEF Renewed
<1>9. QED
  BY <1>1, <1>2, <1>3, <1>6, <1>8

\* What a request does in a step.
LEMMA WhoActs ==
    ASSUME TypeInv, [Next]_vars, NEW r \in Requests
    PROVE  \/ UNCHANGED <<ask[r], pc[r], copy[r]>>
           \/ \E u \in Users : Begin(r, u)
           \/ Load(r) \/ Turns(r) \/ GetRoles(r) \/ HasRole(r)
           \/ CountSecrets(r) \/ UpdateSecret(r)
           \/ /\ \/ pc'[r] = "idle"
                 \/ pc[r] \notin {"idle", "load"} /\ pc'[r] \in {"touch", "answer"}
              /\ UNCHANGED <<ask[r], copy[r]>>
<1>0. pc \in [Requests -> Pcs] /\ ask \in [Requests -> Asks \cup {None}]
      /\ copy \in [Requests -> Copies \cup {None}]
  BY DEF TypeInv, TypeOK
<1>1. CASE UNCHANGED vars
  BY <1>1 DEF vars, request
<1>2. CASE \E q \in Requests, u \in Users : Begin(q, u)
  <2>1. PICK q \in Requests, u \in Users : Begin(q, u)
    BY <1>2
  <2>2. q = r \/ UNCHANGED <<ask[r], pc[r], copy[r]>>
    BY <1>0, <2>1 DEF Begin, GoTo
  <2>3. QED
    BY <2>1, <2>2
<1>3. CASE \E q \in Requests : Load(q)
  <2>1. PICK q \in Requests : Load(q)
    BY <1>3
  <2>2. q = r \/ UNCHANGED <<ask[r], pc[r], copy[r]>>
    <3>1. pc'[r] = pc[r] \/ q = r
      BY <1>0, <2>1 DEF Load, GoTo
    <3>2. copy'[r] = copy[r] \/ q = r
      BY <1>0, <2>1 DEF Load
    <3>3. QED
      BY <2>1, <3>1, <3>2 DEF Load
  <2>3. QED
    BY <2>1, <2>2
<1>4. CASE \E q \in Requests : Turns(q)
  <2>1. PICK q \in Requests : Turns(q)
    BY <1>4
  <2>2. q = r \/ UNCHANGED <<ask[r], pc[r], copy[r]>>
    BY <1>0, <2>1 DEF Turns, Rotate, RotateThrows, LogIn, GoTo
  <2>3. QED
    BY <2>1, <2>2
<1>9. CASE \E q \in Requests : Session(q) /\ ~Load(q) /\ ~Turns(q)
  <2>1. PICK q \in Requests : Session(q) /\ ~Load(q) /\ ~Turns(q)
    BY <1>9
  <2>2. /\ UNCHANGED <<ask, copy>> /\ pc[q] \notin {"idle", "load"}
        /\ \E w \in {"idle", "touch", "answer"} : GoTo(q, w)
    BY <2>1
    DEF Session, Turns, Save, SaveThrows, Touch, Destroy, DestroyThrows, Answer
  <2>3. QED
    BY <1>0, <2>2 DEF GoTo
<1>5. CASE \E q \in Requests : Role(q)
  BY <1>0, <1>5 DEF Role, InitRoles, GetRoles, HasRole, AddRole, RemoveRole, GoTo, request
<1>6. CASE \E q \in Requests : SecretStore(q) \/ StoreThrows(q)
  BY <1>0, <1>6 
  DEF SecretStore, CountSecrets, UpdateSecret, InsertSecret, DeleteSecret, StoreThrows, GoTo
<1>7. CASE \E s \in Sids : Expire(s)
  BY <1>7 DEF Expire, request
<1>8. CASE Restart
  BY <1>8 DEF Restart
<1>10. QED
  BY <1>1, <1>2, <1>3, <1>4, <1>5, <1>6, <1>7, <1>8, <1>9 DEF Next

\* A server writes down the owner that it was started with.
WritesDown(o) == roles' = roles \cup {OwnerRow(o)} /\ owners' = owners \cup {o}

\* Who writes what else.
LEMMA WhoWrites ==
    ASSUME [Next]_vars
    PROVE  /\ \/ UNCHANGED sessions
              \/ \E s \in Sids : Del(s)
              \/ \E r \in Requests : Del(copy[r].sid) /\ pc[r] \in {"rotate", "destroy"}
              \/ \E r \in Requests : Set(copy[r]) /\ pc[r] = "save"
           /\ \/ UNCHANGED <<roles, maker, owners>>
              \/ UNCHANGED maker /\ \E o \in Owners : WritesDown(o)
              \/ UNCHANGED owners /\ \E r \in Requests : AddRole(r)
              \/ UNCHANGED <<maker, owners>> /\ \E r \in Requests : RemoveRole(r)
           /\ UNCHANGED ready \/ ready' \in BOOLEAN
           /\ \/ UNCHANGED secrets
              \/ \E r \in Requests : InsertSecret(r) \/ DeleteSecret(r)
           /\ UNCHANGED <<cookie, given>> \/ \E r \in Requests : Answer(r)
           /\ UNCHANGED <<signed, logins>> \/ \E r \in Requests : Rotate(r)
           /\ UNCHANGED together \/ \E r \in Requests : Load(r)
           /\ UNCHANGED <<out, behind>> \/ \E r \in Requests : Destroy(r)
           /\ UNCHANGED crowded \/ \E r \in Requests : CountSecrets(r)
           /\ UNCHANGED faults \/ Fault
<1>1. CASE UNCHANGED vars \/ \E r \in Requests, u \in Users : Begin(r, u)
  BY <1>1 DEF Begin, vars, store, browser, history
<1>2. CASE \E r \in Requests : Load(r)
  BY <1>2 DEF Load, store, browser
<1>3. CASE \E r \in Requests : Session(r) /\ ~Load(r)
  BY <1>3
  DEF Session, Rotate, RotateThrows, Save, SaveThrows, Touch, Destroy, DestroyThrows, Answer,
      LogIn, store, tables, browser, history
<1>4. CASE \E r \in Requests : Role(r)
  BY <1>4
  DEF Role, InitRoles, GetRoles, HasRole, AddRole, RemoveRole, WritesDown, store, browser, history
<1>5. CASE \E r \in Requests : SecretStore(r) \/ StoreThrows(r)
  BY <1>5
  DEF SecretStore, CountSecrets, UpdateSecret, InsertSecret, DeleteSecret, StoreThrows, store,
      browser, history
<1>6. CASE (\E s \in Sids : Expire(s)) \/ Restart
  BY <1>6 DEF Expire, Restart, tables, browser, history
<1>7. QED
  BY <1>1, <1>2, <1>3, <1>4, <1>5, <1>6 DEF Next

\* A request asks for what its browser has.
LEMMA AskedFor ==
    ASSUME TypeInv, NEW r \in Requests, NEW u \in Users, Begin(r, u)
    PROVE  \E a \in Asks : /\ ask' = [ask EXCEPT ![r] = a]
                           /\ a.nonce \in given[u] \cup {None}
                           /\ a.op \in RoleOps => a.what \in Named
                           /\ a.op \in SecretOps => a.what \in Secrets
<1>1. PICK op \in Ops, n \in given[u] \cup {None}, what \in Named \cup Secrets \cup {None} :
         /\ op \in RoleOps <=> what \in Named
         /\ op \in SecretOps <=> what \in Secrets
         /\ ask' = [ask EXCEPT ![r] =
                       [op |-> op, user |-> u, sid |-> cookie[u], nonce |-> n, what |-> what]]
  BY DEF Begin
<1>2. cookie[u] \in Sids \cup {None} /\ n \in Nonces \cup {None}
  BY DEF TypeInv, TypeOK
<1>3. [op |-> op, user |-> u, sid |-> cookie[u], nonce |-> n, what |-> what] \in Asks
  BY <1>2 DEF Asks
<1>4. QED
  BY <1>1, <1>3

\* Whom it was let in as.
LEMMA WasLetIn ==
    ASSUME TypeInv, NEW r \in Requests, Load(r)
    PROVE  /\ ask[r] \in Asks /\ UNCHANGED ask
           /\ \E c \in Copies : /\ copy' = [copy EXCEPT ![r] = c]
                                /\ c.sid = Loaded(r).sid /\ c.user = Loaded(r).user
                                /\ c.nonce = IF Op(r) = "nonce" THEN r ELSE Loaded(r).nonce
           /\ \/ GoTo(r, "touch")
              \/ Op(r) = "nonce" /\ GoTo(r, "save")
              \/ Op(r) = "verify" /\ Matches(r, Loaded(r)) /\ GoTo(r, "rotate")
              \/ Op(r) = "logout" /\ GoTo(r, "destroy")
              \/ Op(r) \in RoleOps /\ Loaded(r).user # None /\ GoTo(r, "roles")
              \/ Op(r) = "storeSecret" /\ Loaded(r).user # None /\ GoTo(r, "count")
              \/ Op(r) = "removeSecret" /\ Loaded(r).user # None /\ GoTo(r, "drop")
<1>1. ask[r] \in Asks /\ Op(r) \in Ops
  BY DEF TypeInv, TypeOK, Load, Asks, Op
<1>2. UNCHANGED ask
  BY DEF Load
<1>3. Loaded(r) \in Copies
  BY SessionLoaded DEF Load
<1>4. PICK session \in Copies :
         /\ session = Loaded(r)
         /\ copy' = [copy EXCEPT ![r] =
                        IF Op(r) = "nonce" THEN [session EXCEPT !.nonce = r] ELSE session]
         /\ GoTo(r, IF LetIn(r, session) THEN Waits[Op(r)] ELSE "touch")
  BY <1>3 DEF Load
<1>5. \E c \in Copies : /\ copy' = [copy EXCEPT ![r] = c]
                        /\ c.sid = Loaded(r).sid /\ c.user = Loaded(r).user
                        /\ c.nonce = IF Op(r) = "nonce" THEN r ELSE Loaded(r).nonce
  <2>1. CASE Op(r) = "nonce"
    <3>1. [session EXCEPT !.nonce = r] \in Copies
      BY DEF Copies, Nonces
    <3>2. QED
      BY <1>4, <2>1, <3>1 DEF Copies
  <2>2. CASE Op(r) # "nonce"
    BY <1>4, <2>2
  <2>3. QED
    BY <2>1, <2>2
<1>6. \/ GoTo(r, "touch")
      \/ LetIn(r, session) /\ GoTo(r, Waits[Op(r)])
  BY <1>4 DEF GoTo
<1>7. \A op \in Ops :
         Waits[op] = CASE op = "nonce" -> "save" [] op = "verify" -> "rotate"
                       [] op = "logout" -> "destroy" [] op \in RoleOps -> "roles"
                       [] op = "storeSecret" -> "count" [] op = "removeSecret" -> "drop"
  BY DEF Waits, Ops, SessionOps, RoleOps, SecretOps
<1>8. LetIn(r, Loaded(r)) => /\ Op(r) = "verify" => Matches(r, Loaded(r))
                             /\ Op(r) \notin {"nonce", "verify"} => Loaded(r).user # None
  BY DEF LetIn
<1>9. QED
  BY <1>1, <1>2, <1>4, <1>5, <1>6, <1>7, <1>8 DEF Ops, SessionOps, RoleOps, SecretOps
-------------------------------------------------------------------------------
LEMMA InitTypes == Init => TypeInv
<1> SUFFICES ASSUME Init PROVE TypeInv
  OBVIOUS
<1>1. PICK logged \in SUBSET Users :
         /\ sessions = [s \in {"before"} \X logged |-> [nonce |-> None, user |-> s[2]]]
         /\ cookie = [u \in Users |-> IF u \in logged THEN <<"before", u>> ELSE None]
  BY DEF Init
<1>2. /\ sessions \in [DOMAIN sessions -> Rows] /\ DOMAIN sessions \subseteq Sids
      /\ cookie \in [Users -> Sids \cup {None}]
  BY <1>1 DEF Rows, Sids
<1>3. signed \in [Sids -> Users \cup {None}]
  <2>1. \A s \in Sids : s[1] = "before" => s[2] \in Users
    BY DEF Sids
  <2>2. QED
    BY <2>1 DEF Init
<1>4. /\ pc \in [Requests -> Pcs] /\ ask \in [Requests -> Asks \cup {None}]
      /\ copy \in [Requests -> Copies \cup {None}]
      /\ \A r \in Requests : pc[r] = "idle" /\ ask[r] = None /\ copy[r] = None
  BY DEF Init, Pcs
<1>5. maker \in [DOMAIN maker -> Users] /\ DOMAIN maker \subseteq Users \X BOOLEAN
  <2>1. DOMAIN maker = {}
    BY DEF Init
  <2>2. maker = [p \in {} |-> None]
    BY DEF Init
  <2>3. QED
    BY <2>1, <2>2
<1>6. TypeOK
  BY <1>2, <1>3, <1>4, <1>5 DEF Init, TypeOK
<1>7. QED
  BY <1>4, <1>6 DEF TypeInv, Asked, Placed

\* Where the requests stand, what they asked and what they hold.
LEMMA RequestsStep ==
    ASSUME TypeInv, [Next]_vars
    PROVE  /\ ask' \in [Requests -> Asks \cup {None}]
           /\ pc' \in [Requests -> Pcs]
           /\ copy' \in [Requests -> Copies \cup {None}]
<1>0. pc \in [Requests -> Pcs] /\ ask \in [Requests -> Asks \cup {None}]
      /\ copy \in [Requests -> Copies \cup {None}]
  BY DEF TypeInv, TypeOK
<1>1. CASE UNCHANGED request
  BY <1>0, <1>1 DEF request
<1>2. CASE \E r \in Requests, u \in Users : Begin(r, u)
  <2>1. PICK r \in Requests, u \in Users : Begin(r, u)
    BY <1>2
  <2>2. GoTo(r, "load") /\ UNCHANGED copy
    BY <2>1 DEF Begin
  <2>3. QED
    BY <1>0, <2>1, <2>2, AskedFor DEF GoTo, Pcs
<1>3. CASE \E r \in Requests : Load(r)
  BY <1>0, <1>3, WasLetIn DEF GoTo, Pcs
<1>4. CASE \E r \in Requests : Turns(r)
  <2>1. PICK r \in Requests : Turns(r)
    BY <1>4
  <2>2. QED
    BY <1>0, <2>1, Turned DEF GoTo, Pcs
<1>5. CASE \E r \in Requests : Session(r) /\ ~Load(r) /\ ~Turns(r)
  BY <1>0, <1>5
  DEF Session, Turns, Save, SaveThrows, Touch, Destroy, DestroyThrows, Answer, GoTo, Pcs
<1>6. CASE \E r \in Requests : Role(r)
  BY <1>0, <1>6
  DEF Role, InitRoles, GetRoles, HasRole, AddRole, RemoveRole, GoTo, Pcs, request
<1>7. CASE \E r \in Requests : SecretStore(r) \/ StoreThrows(r)
  BY <1>0, <1>7
  DEF SecretStore, CountSecrets, UpdateSecret, InsertSecret, DeleteSecret, StoreThrows, GoTo, Pcs
<1>8. CASE Restart
  BY <1>0, <1>8 DEF Restart, Pcs
<1>9. QED
  BY <1>1, <1>2, <1>3, <1>4, <1>5, <1>6, <1>7, <1>8 DEF Next, Expire, vars

LEMMA PlacedStep == ASSUME TypeInv, [Next]_vars PROVE Asked' /\ Placed'
<1>0. pc \in [Requests -> Pcs] /\ ask \in [Requests -> Asks \cup {None}]
      /\ copy \in [Requests -> Copies \cup {None}]
  BY DEF TypeInv, TypeOK
<1> SUFFICES ASSUME NEW r \in Requests
             PROVE  /\ ask'[r] = None => pc'[r] = "idle" /\ copy'[r] = None
                    /\ pc'[r] = "load" => copy'[r] = None
                    /\ ask'[r] # None => /\ Op(r)' \in RoleOps => Row(r)' \in Named
                                         /\ Op(r)' \in SecretOps => (ask[r].what)' \in Secrets
                    /\ pc'[r] \in {"roles", "has", "add", "remove"} =>
                          Op(r)' \in RoleOps /\ (copy[r].user)' # None
                    /\ pc'[r] \in {"count", "update", "insert", "drop"} =>
                          Op(r)' \in SecretOps /\ (copy[r].user)' # None
                    /\ pc'[r] = "rotate" => Op(r)' = "verify" /\ Matches(r, copy[r])'
  BY DEF Asked, Placed
<1>1. CASE UNCHANGED <<ask[r], pc[r], copy[r]>>
  BY <1>1 DEF TypeInv, Asked, Placed, Op, Row, Matches
<1>2. CASE /\ \/ pc'[r] = "idle"
              \/ pc[r] \notin {"idle", "load"} /\ pc'[r] \in {"touch", "answer"}
           /\ UNCHANGED <<ask[r], copy[r]>>
  BY <1>2 DEF TypeInv, TypeOK, Asked, Op, Row
<1>3. CASE \E u \in Users : Begin(r, u)
  <2>1. GoTo(r, "load") /\ UNCHANGED copy /\ copy[r] = None
    BY <1>3 DEF Begin, TypeInv, Asked
  <2>2. PICK a \in Asks : /\ ask' = [ask EXCEPT ![r] = a]
                          /\ a.op \in RoleOps => a.what \in Named
                          /\ a.op \in SecretOps => a.what \in Secrets
    BY <1>3, AskedFor
  <2>3. QED
    BY <1>0, <2>1, <2>2, NoneAssumption DEF GoTo, Op, Row
<1>4. CASE Load(r)
  <2>1. PICK c \in Copies : /\ copy' = [copy EXCEPT ![r] = c]
                            /\ c.user = Loaded(r).user
                            /\ c.nonce = IF Op(r) = "nonce" THEN r ELSE Loaded(r).nonce
    BY <1>4, WasLetIn
  <2>2. copy'[r] = c /\ ask'[r] = ask[r] /\ ask[r] # None
    BY <1>0, <1>4, <2>1, NoneAssumption, WasLetIn
  <2>3. Op(r)' = Op(r) /\ Row(r)' = Row(r)
    BY <2>2 DEF Op, Row
  <2>4. /\ Op(r) \in RoleOps => Row(r) \in Named
        /\ Op(r) \in SecretOps => ask[r].what \in Secrets
    BY <2>2 DEF TypeInv, Asked
  <2>5. /\ pc'[r] \in {"roles", "has", "add", "remove"} =>
              Op(r) \in RoleOps /\ c.user # None
        /\ pc'[r] \in {"count", "update", "insert", "drop"} =>
              Op(r) \in SecretOps /\ c.user # None
        /\ pc'[r] = "rotate" => Op(r) = "verify" /\ Matches(r, Loaded(r))
        /\ pc'[r] # "load"
    BY <1>0, <1>4, <2>1, WasLetIn DEF GoTo, SecretOps
  <2>6. pc'[r] = "rotate" => Matches(r, copy[r])'
    BY <2>1, <2>2, <2>5 DEF Matches
  <2>7. QED
    BY <2>2, <2>3, <2>4, <2>5, <2>6
<1>5. CASE Turns(r)
  <2>1. pc'[r] = "save" /\ UNCHANGED ask /\ ask[r] # None
    BY <1>0, <1>5, Turned DEF GoTo
  <2>2. QED
    BY <2>1 DEF TypeInv, Asked, Op, Row
<1>6. CASE GetRoles(r) \/ HasRole(r) \/ CountSecrets(r) \/ UpdateSecret(r)
  <2>1. UNCHANGED <<ask, copy>> /\ ask[r] # None
    BY <1>6 DEF GetRoles, HasRole, CountSecrets, UpdateSecret, TypeInv, TypeOK
  <2>2. \/ pc[r] \in {"roles", "has"} /\ pc'[r] \in {"touch", "has", "add", "remove"}
        \/ pc[r] \in {"count", "update"} /\ pc'[r] \in {"touch", "update", "insert"}
    BY <1>0, <1>6 DEF GetRoles, HasRole, CountSecrets, UpdateSecret, GoTo
  <2>3. QED
    BY <2>1, <2>2 DEF TypeInv, Asked, Placed, Op, Row
<1>7. QED
  BY <1>1, <1>2, <1>3, <1>4, <1>5, <1>6, WhoActs

LEMMA TypesStep == ASSUME TypeInv, [Next]_vars PROVE TypeInv'
<1>1. Asked' /\ Placed'
  BY PlacedStep
<1>2. /\ ask' \in [Requests -> Asks \cup {None}]
      /\ pc' \in [Requests -> Pcs]
      /\ copy' \in [Requests -> Copies \cup {None}]
  BY RequestsStep
<1>3. /\ \A r \in Requests : pc'[r] # "idle" => ask'[r] # None
      /\ \A r \in Requests : pc'[r] \notin {"idle", "load"} => copy'[r] # None
  <2> SUFFICES ASSUME NEW r \in Requests, pc'[r] # "idle"
               PROVE  ask'[r] # None /\ (pc'[r] # "load" => copy'[r] # None)
    OBVIOUS
  <2>1. ask'[r] # None
    BY <1>1 DEF Asked
  <2>2. ASSUME pc'[r] # "load" PROVE copy'[r] # None
    <3>0. pc \in [Requests -> Pcs] /\ copy \in [Requests -> Copies \cup {None}]
      BY DEF TypeInv, TypeOK
    <3>1. CASE Load(r)
      BY <3>0, <3>1, WasLetIn, NoneAssumption
    <3>2. CASE Turns(r)
      BY <3>0, <3>2, Turned, NoneAssumption
    <3>3. CASE \E u \in Users : Begin(r, u)
      BY <2>2, <3>0, <3>3 DEF Begin, GoTo
    <3>4. CASE GetRoles(r) \/ HasRole(r) \/ CountSecrets(r) \/ UpdateSecret(r)
      BY <3>4 DEF GetRoles, HasRole, CountSecrets, UpdateSecret, TypeInv, TypeOK
    <3>5. CASE /\ UNCHANGED pc[r] \/ pc[r] \notin {"idle", "load"}
               /\ UNCHANGED copy[r]
      BY <2>2, <3>5 DEF TypeInv, TypeOK
    <3>6. QED
      BY <3>1, <3>2, <3>3, <3>4, <3>5, WhoActs
  <2>3. QED
    BY <2>1, <2>2
<1>4. /\ sessions' \in [DOMAIN sessions' -> Rows] /\ DOMAIN sessions' \subseteq Sids
  <2>1. CASE \E s \in Sids : Del(s)
    BY <2>1 DEF Del, Restrict, TypeInv, TypeOK
  <2>2. CASE \E r \in Requests : Del(copy[r].sid)
    BY <2>2 DEF Del, Restrict, TypeInv, TypeOK
  <2>3. CASE \E r \in Requests : Set(copy[r]) /\ pc[r] = "save"
    BY <2>3 DEF Set, TypeInv, TypeOK, Copies, Rows
  <2>4. QED
    BY <2>1, <2>2, <2>3, WhoWrites DEF TypeInv, TypeOK
<1>5. /\ roles' \subseteq Users \X BOOLEAN \X Roles
      /\ maker' \in [DOMAIN maker' -> Users] /\ DOMAIN maker' \subseteq Users \X BOOLEAN
  <2>1. \A o \in Owners : OwnerRow(o) \in Users \X BOOLEAN \X Roles
    BY AccessAssumption DEF OwnerRow, Roles
  <2>2. CASE \E r \in Requests : AddRole(r)
    <3>1. PICK r \in Requests : AddRole(r)
      BY <2>2
    <3>2. Row(r) \in Users \X BOOLEAN \X Roles /\ copy[r].user \in Users
      BY <3>1, AccessAssumption DEF AddRole, TypeInv, TypeOK, Asked, Placed, Copies
    <3>3. Pair(r) \in Users \X BOOLEAN
      BY <3>2 DEF Pair
    <3>4. QED
      BY <3>1, <3>2, <3>3 DEF AddRole, TypeInv, TypeOK
  <2>3. CASE \E r \in Requests : RemoveRole(r) /\ UNCHANGED maker
    BY <2>3 DEF RemoveRole, TypeInv, TypeOK
  <2>4. CASE UNCHANGED maker /\ \E o \in Owners : WritesDown(o)
    BY <2>1, <2>4 DEF WritesDown, TypeInv, TypeOK
  <2>5. CASE UNCHANGED <<roles, maker, owners>>
    BY <2>5 DEF TypeInv, TypeOK
  <2>6. QED
    BY <2>2, <2>3, <2>4, <2>5, WhoWrites
<1>6. secrets' \subseteq Users \X Secrets
  <2>1. CASE \E r \in Requests : InsertSecret(r)
    BY <2>1 DEF InsertSecret, Secret, TypeInv, TypeOK, Asked, Placed, Copies
  <2>2. CASE \E r \in Requests : DeleteSecret(r)
    BY <2>2 DEF DeleteSecret, TypeInv, TypeOK
  <2>3. QED
    BY <2>1, <2>2, WhoWrites DEF TypeInv, TypeOK
<1>7. ready' \in BOOLEAN
  BY WhoWrites DEF TypeInv, TypeOK
<1>8. cookie' \in [Users -> Sids \cup {None}] /\ given' \in [Users -> SUBSET Nonces]
  <2>1. CASE \E r \in Requests : Answer(r)
    <3>1. PICK r \in Requests : Answer(r)
      BY <2>1
    <3>2. copy[r] \in Copies /\ copy[r].sid \in Sids
      BY <3>1 DEF Answer, TypeInv, TypeOK, Copies
    <3>3. cookie' \in [Users -> Sids \cup {None}]
      BY <3>1, <3>2 DEF Answer, TypeInv, TypeOK
    <3>4. given' \in [Users -> SUBSET Nonces]
      BY <3>1 DEF Answer, TypeInv, TypeOK, Nonces
    <3>5. QED
      BY <3>3, <3>4
  <2>2. QED
    BY <2>1, WhoWrites DEF TypeInv, TypeOK
<1>9. signed' \in [Sids -> Users \cup {None}] /\ logins' \in [Nonces -> SUBSET Requests]
  <2>1. CASE \E r \in Requests : Rotate(r)
    <3>1. PICK r \in Requests : Rotate(r)
      BY <2>1
    <3>2. User(r) \in Users
      BY <3>1 DEF Rotate, User, TypeInv, TypeOK, Asks
    <3>3. signed' \in [Sids -> Users \cup {None}]
      BY <3>1, <3>2 DEF Rotate, LogIn, TypeInv, TypeOK
    <3>4. logins' \in [Nonces -> SUBSET Requests]
      BY <3>1 DEF Rotate, LogIn, TypeInv, TypeOK
    <3>5. QED
      BY <3>3, <3>4
  <2>2. QED
    BY <2>1, WhoWrites DEF TypeInv, TypeOK
<1>10. together' \subseteq Nonces
  <2>1. CASE \E r \in Requests : Load(r)
    <3>1. PICK r \in Requests : Load(r)
      BY <2>1
    <3>2. together' = together \/ (/\ LetIn(r, Loaded(r)) /\ Op(r) = "verify"
                                   /\ together' = together \cup {ask[r].nonce})
      BY <3>1 DEF Load
    <3>3. ask[r].nonce \in Nonces \cup {None}
      BY <3>1 DEF Load, TypeInv, TypeOK, Asks
    <3>4. LetIn(r, Loaded(r)) /\ Op(r) = "verify" => ask[r].nonce # None
      BY DEF LetIn, Matches
    <3>5. QED
      BY <3>2, <3>3, <3>4 DEF TypeInv, TypeOK
  <2>2. QED
    BY <2>1, WhoWrites DEF TypeInv, TypeOK
<1>11. out' \subseteq Sids /\ behind' \subseteq Sids
  <2>1. CASE \E r \in Requests : Destroy(r)
    BY <2>1 DEF Destroy, TypeInv, TypeOK, Copies
  <2>2. QED
    BY <2>1, WhoWrites DEF TypeInv, TypeOK
<1>12. crowded' \subseteq Users
  <2>1. CASE \E r \in Requests : CountSecrets(r)
    BY <2>1 DEF CountSecrets, TypeInv, TypeOK, Placed, Copies
  <2>2. QED
    BY <2>1, WhoWrites DEF TypeInv, TypeOK
<1>13. faults' \in Nat
  <2>1. UNCHANGED faults \/ Fault
    BY WhoWrites
  <2>2. QED
    BY <2>1 DEF TypeInv, TypeOK, Fault
<1>14. owners' \subseteq Owners
  BY WhoWrites DEF WritesDown, TypeInv, TypeOK
<1>15. TypeOK'
  BY <1>2, <1>3, <1>4, <1>5, <1>6, <1>7, <1>8, <1>9, <1>10, <1>11, <1>12, <1>13, <1>14
  DEF TypeOK
<1>16. QED
  BY <1>1, <1>15 DEF TypeInv

\* Every variable keeps its type.
THEOREM TypesHold == Spec => []TypeOK
<1>1. TypeInv => TypeOK
  BY DEF TypeInv
<1>2. QED
  BY InitTypes, TypesStep, <1>1, PTL DEF Spec
-------------------------------------------------------------------------------
\* The rows of platform owners.
OwnerRows == {x \in roles : x[3] = "PlatformOwner"}

\* Who was let through to the table of roles is an owner, and changes a developer.
Allowed ==
    \A r \in Requests :
       pc[r] \in {"has", "add", "remove"} =>
          Row(r)[3] = "Developer" /\ <<copy[r].user, TRUE>> \in owners

\* It is known who made a developer.
Made == \A row \in roles : row[3] = "Developer" => <<row[1], row[2]>> \in DOMAIN maker

RoleInv == OnlyOwners /\ Allowed /\ Made

LEMMA AllowedStep == ASSUME TypeInv, RoleInv, [Next]_vars PROVE Allowed'
<1>0. pc \in [Requests -> Pcs]
  BY DEF TypeInv, TypeOK
<1>7. owners \subseteq owners'
  BY WhoWrites DEF WritesDown
<1> SUFFICES ASSUME NEW r \in Requests, pc'[r] \in {"has", "add", "remove"}
             PROVE  Row(r)'[3] = "Developer" /\ <<(copy[r].user)', TRUE>> \in owners
  BY <1>7 DEF Allowed
<1>1. CASE UNCHANGED <<ask[r], pc[r], copy[r]>>
  BY <1>1 DEF RoleInv, Allowed, Row
<1>2. CASE GetRoles(r)
  <2>1. MayChange(r) /\ UNCHANGED <<ask, copy>>
    BY <1>0, <1>2 DEF GetRoles, GoTo
  <2>2. Row(r)[3] = "Developer" /\ "PlatformOwner" \in RolesOf(copy[r].user)
    BY <2>1 DEF MayChange, Admin
  <2>3. <<copy[r].user, TRUE, "PlatformOwner">> \in OwnerRows
    BY <2>2 DEF RolesOf, OwnerRows
  <2>4. <<copy[r].user, TRUE>> \in {<<row[1], row[2]>> : row \in OwnerRows}
    <3>1. \A u, b, c : <<u, b, c>>[1] = u /\ <<u, b, c>>[2] = b
      OBVIOUS
    <3>2. \E row \in OwnerRows : <<copy[r].user, TRUE>> = <<row[1], row[2]>>
      BY <2>3, <3>1
    <3>3. QED
      BY <3>2
  <2>5. <<copy[r].user, TRUE>> \in owners
    BY <2>4 DEF RoleInv, OnlyOwners, OwnerRows
  <2>6. QED
    BY <2>1, <2>2, <2>5 DEF Row
<1>3. CASE HasRole(r)
  BY <1>3 DEF HasRole, RoleInv, Allowed, Row
<1>4. CASE Load(r) \/ Turns(r) \/ \E u \in Users : Begin(r, u)
  <2>1. CASE Load(r)
    BY <1>0, <2>1, WasLetIn DEF GoTo
  <2>2. CASE Turns(r) \/ \E u \in Users : Begin(r, u)
    BY <1>0, <2>2 DEF Turns, Rotate, RotateThrows, LogIn, Begin, GoTo
  <2>3. QED
    BY <1>4, <2>1, <2>2
<1>5. CASE CountSecrets(r) \/ UpdateSecret(r)
  BY <1>0, <1>5 DEF CountSecrets, UpdateSecret, GoTo
<1>6. QED
  BY <1>1, <1>2, <1>3, <1>4, <1>5, WhoActs

\* The rows of owners change when an owner is written down, and then by that one.
LEMMA OwnersStep ==
    ASSUME TypeInv, RoleInv, [Next]_vars
    PROVE  {<<row[1], row[2]>> : row \in OwnerRows'} = owners'
<1>0. {<<row[1], row[2]>> : row \in OwnerRows} = owners
  BY DEF RoleInv, OnlyOwners, OwnerRows
<1>1. CASE UNCHANGED <<roles, owners>>
  BY <1>0, <1>1 DEF OwnerRows
<1>2. CASE \E o \in Owners : WritesDown(o)
  <2>1. PICK o \in Owners : WritesDown(o)
    BY <1>2
  <2>2. o = <<o[1], o[2]>>
    BY AccessAssumption
  <2>3. OwnerRow(o)[1] = o[1] /\ OwnerRow(o)[2] = o[2] /\ OwnerRow(o)[3] = "PlatformOwner"
    BY DEF OwnerRow
  <2>4. OwnerRows' = OwnerRows \cup {OwnerRow(o)}
    BY <2>1, <2>3 DEF WritesDown, OwnerRows
  <2>5. {<<row[1], row[2]>> : row \in OwnerRows'} = owners \cup {<<OwnerRow(o)[1], OwnerRow(o)[2]>>}
    BY <1>0, <2>4
  <2>6. QED
    BY <2>1, <2>2, <2>3, <2>5 DEF WritesDown
<1>3. CASE UNCHANGED owners /\ \E r \in Requests : AddRole(r) \/ RemoveRole(r)
  <2>1. PICK r \in Requests : AddRole(r) \/ RemoveRole(r)
    BY <1>3
  <2>2. Row(r)[3] # "PlatformOwner"
    BY <2>1 DEF AddRole, RemoveRole, RoleInv, Allowed
  <2>3. roles' = roles \cup {Row(r)} \/ roles' = roles \ {Row(r)}
    BY <2>1 DEF AddRole, RemoveRole
  <2>4. OwnerRows' = OwnerRows
    BY <2>2, <2>3 DEF OwnerRows
  <2>5. QED
    BY <1>0, <1>3, <2>4
<1>4. QED
  BY <1>1, <1>2, <1>3, WhoWrites

LEMMA RolesStep == ASSUME TypeInv, RoleInv, [Next]_vars PROVE RoleInv'
<1>1. Allowed'
  BY AllowedStep
<1>2. \A row \in roles' :
         row[3] = "Developer" => /\ <<row[1], row[2]>> \in DOMAIN maker'
                                 /\ <<maker'[<<row[1], row[2]>>], TRUE>> \in owners'
  <2>0. owners \subseteq owners'
    BY WhoWrites DEF WritesDown
  <2>1. CASE UNCHANGED maker /\ \A row \in roles' : row[3] = "Developer" => row \in roles
    BY <2>0, <2>1 DEF RoleInv, OnlyOwners, Made
  <2>2. CASE \E r \in Requests : AddRole(r)
    <3>1. PICK r \in Requests : AddRole(r)
      BY <2>2
    <3>2. Row(r)[3] = "Developer" /\ <<copy[r].user, TRUE>> \in owners
      BY <3>1 DEF AddRole, RoleInv, Allowed
    <3>3. /\ roles' = roles \cup {Row(r)}
          /\ maker' = [p \in DOMAIN maker \cup {Pair(r)} |-> IF p = Pair(r) THEN copy[r].user
                                                              ELSE maker[p]]
      BY <3>1 DEF AddRole
    <3>4. Pair(r) = <<Row(r)[1], Row(r)[2]>>
      BY DEF Pair
    <3>5. QED
      BY <2>0, <3>2, <3>3, <3>4 DEF RoleInv, OnlyOwners, Made
  <2>3. CASE UNCHANGED maker /\ \E r \in Requests : RemoveRole(r)
    BY <2>1, <2>3 DEF RemoveRole
  <2>4. CASE UNCHANGED maker /\ \E o \in Owners : WritesDown(o)
    <3>1. \A o \in Owners : OwnerRow(o)[3] # "Developer"
      BY DEF OwnerRow
    <3>2. QED
      BY <2>1, <2>4, <3>1 DEF WritesDown
  <2>5. QED
    BY <2>1, <2>2, <2>3, <2>4, WhoWrites
<1>3. QED
  BY <1>1, <1>2, OwnersStep DEF RoleInv, OnlyOwners, OwnerRows, Made

\* The platform owners are those that servers were started with, and every developer was
\* made by one of them, however requests and starts interleave.
THEOREM OwnersStand == Spec => []OnlyOwners
<1>1. Init => RoleInv
  BY DEF Init, RoleInv, OnlyOwners, Allowed, Made
<1>2. RoleInv => OnlyOwners
  BY DEF RoleInv
<1>3. QED
  BY InitTypes, TypesStep, RolesStep, <1>1, <1>2, PTL DEF Spec
-------------------------------------------------------------------------------
\* Nobody has an id yet, and nobody had it.
New(s) ==
    /\ s \notin DOMAIN sessions \cup out
    /\ \A r \in Requests : copy[r] # None => copy[r].sid # s

\* The ids a request may draw are new.
Fresh ==
    \A r \in Requests :
       /\ ask[r] = None \/ pc[r] = "load" => New(<<"first", r>>)
       /\ ask[r] = None \/ pc[r] \in {"load", "rotate"} =>
             New(<<"login", r>>) /\ signed[<<"login", r>>] = None
       /\ signed[<<"first", r>>] = None

\* A request holds the session of a user who signed for it.
Holds == \A r \in Requests : copy[r] # None => copy[r].user = signed[copy[r].sid]

\* What is about to be stored under an id that was logged out was held before.
Late ==
    \A r \in Requests : pc[r] = "save" /\ copy[r].sid \in out => copy[r].sid \in behind

SessionInv == Rotated /\ LoggedOut /\ Fresh /\ Holds /\ Late

\* An id stays new until the request it is for draws it.
LEMMA NewStays ==
    ASSUME TypeInv, [Next]_vars, NEW s, New(s),
           \A q \in Requests : Load(q) => s # <<"first", q>>,
           \A q \in Requests : Turns(q) => s # <<"login", q>>
    PROVE  New(s)'
<1>0. copy \in [Requests -> Copies \cup {None}]
  BY DEF TypeInv, TypeOK
<1>1. DOMAIN sessions' \subseteq DOMAIN sessions \cup {copy[r].sid : r \in {q \in Requests : copy[q] # None}}
  <2>1. CASE \E t : Del(t)
    BY <2>1 DEF Del, Restrict
  <2>2. CASE \E r \in Requests : Set(copy[r]) /\ pc[r] = "save"
    BY <2>2 DEF Set, TypeInv, TypeOK
  <2>3. QED
    BY <2>1, <2>2, WhoWrites
<1>2. out' \subseteq out \cup {copy[r].sid : r \in {q \in Requests : copy[q] # None}}
  <2>1. CASE \E r \in Requests : Destroy(r)
    BY <2>1 DEF Destroy, TypeInv, TypeOK
  <2>2. QED
    BY <2>1, WhoWrites
<1>3. ASSUME NEW r \in Requests, copy'[r] # None PROVE copy'[r].sid # s
  <2>1. CASE UNCHANGED copy[r]
    BY <1>3, <2>1 DEF New
  <2>2. CASE Load(r)
    <3>1. copy'[r].sid = Loaded(r).sid
      BY <1>0, <2>2, WasLetIn
    <3>2. QED
      BY <2>2, <3>1 DEF Loaded, New
  <2>3. CASE Turns(r)
    BY <1>0, <2>3, Turned
  <2>4. QED
    BY <2>1, <2>2, <2>3, WhoActs DEF Begin, GetRoles, HasRole, CountSecrets, UpdateSecret
<1>4. QED
  BY <1>1, <1>2, <1>3 DEF New

\* An id that is not new keeps its user.
LEMMA SignedStays ==
    ASSUME TypeInv, Fresh, [Next]_vars, NEW s \in Sids, ~New(s) \/ s[1] # "login"
    PROVE  signed'[s] = signed[s]
<1>1. CASE \E r \in Requests : Rotate(r)
  <2>1. PICK r \in Requests : Rotate(r)
    BY <1>1
  <2>2. New(<<"login", r>>)
    BY <2>1 DEF Fresh, Rotate
  <2>4. s # <<"login", r>>
    BY <2>2
  <2>3. QED
    BY <2>1, <2>4 DEF Rotate, LogIn, TypeInv, TypeOK
<1>2. QED
  BY <1>1, WhoWrites

LEMMA FreshStep == ASSUME TypeInv, Fresh, [Next]_vars PROVE Fresh'
<1>0. pc \in [Requests -> Pcs]
  BY DEF TypeInv, TypeOK
<1> SUFFICES ASSUME NEW r \in Requests
             PROVE  /\ ask'[r] = None \/ pc'[r] = "load" => New(<<"first", r>>)'
                    /\ ask'[r] = None \/ pc'[r] \in {"load", "rotate"} =>
                          New(<<"login", r>>)' /\ signed'[<<"login", r>>] = None
                    /\ signed'[<<"first", r>>] = None
  BY DEF Fresh
<1>1. signed'[<<"first", r>>] = None
  BY SignedStays DEF Fresh, Sids
<1>2. TypeInv'
  BY TypesStep
<1>3. ASSUME ask'[r] = None \/ pc'[r] = "load" PROVE New(<<"first", r>>)'
  <2>1. (ask[r] = None \/ pc[r] = "load") /\ ~Load(r)
    <3>1. CASE Load(r)
      BY <1>0, <1>3, <3>1, WasLetIn, NoneAssumption DEF GoTo
    <3>2. CASE Turns(r)
      BY <1>0, <1>3, <3>2 DEF Turns, Rotate, RotateThrows, LogIn, GoTo, TypeInv, TypeOK
    <3>3. CASE GetRoles(r) \/ HasRole(r) \/ CountSecrets(r) \/ UpdateSecret(r)
      BY <1>0, <1>3, <3>3
      DEF GetRoles, HasRole, CountSecrets, UpdateSecret, GoTo, TypeInv, TypeOK
    <3>4. CASE \E u \in Users : Begin(r, u)
      BY <1>0, <3>4 DEF Begin, Load, TypeInv, Asked
    <3>5. CASE UNCHANGED <<ask[r], pc[r]>> /\ ~Load(r)
      BY <1>3, <3>5
    <3>6. CASE pc'[r] \in {"idle", "touch", "answer"} /\ UNCHANGED ask[r] /\ ~Load(r)
      BY <1>3, <3>6
    <3>7. QED
      BY <3>1, <3>2, <3>3, <3>4, <3>5, <3>6, WhoActs
  <2>2. \A q \in Requests : Load(q) => <<"first", r>> # <<"first", q>>
    BY <2>1
  <2>3. QED
    BY <2>1, <2>2, NewStays DEF Fresh
<1>4. ASSUME ask'[r] = None \/ pc'[r] \in {"load", "rotate"}
      PROVE  New(<<"login", r>>)' /\ signed'[<<"login", r>>] = None
  <2>1. (ask[r] = None \/ pc[r] \in {"load", "rotate"}) /\ ~Turns(r)
    <3>1. CASE Load(r)
      BY <3>1 DEF Load, Turns, Rotate, RotateThrows
    <3>2. CASE Turns(r)
      BY <1>0, <1>4, <3>2 DEF Turns, Rotate, RotateThrows, LogIn, GoTo, TypeInv, TypeOK
    <3>3. CASE GetRoles(r) \/ HasRole(r) \/ CountSecrets(r) \/ UpdateSecret(r)
      BY <1>0, <1>4, <3>3
      DEF GetRoles, HasRole, CountSecrets, UpdateSecret, GoTo, TypeInv, TypeOK
    <3>4. CASE \E u \in Users : Begin(r, u)
      BY <1>0, <3>4 DEF Begin, Turns, Rotate, RotateThrows, TypeInv, Asked
    <3>5. CASE UNCHANGED <<ask[r], pc[r]>> /\ ~Turns(r)
      BY <1>4, <3>5
    <3>6. CASE pc'[r] \in {"idle", "touch", "answer"} /\ UNCHANGED ask[r] /\ ~Turns(r)
      BY <1>4, <3>6
    <3>7. QED
      BY <3>1, <3>2, <3>3, <3>4, <3>5, <3>6, WhoActs
  <2>2. \A q \in Requests : Turns(q) => <<"login", r>> # <<"login", q>>
    BY <2>1
  <2>3. signed'[<<"login", r>>] = signed[<<"login", r>>]
    <3>1. ASSUME NEW q \in Requests, Rotate(q)
          PROVE  signed'[<<"login", r>>] = signed[<<"login", r>>]
      <4>1. <<"login", q>> # <<"login", r>> /\ <<"login", r>> \in Sids
        BY <2>1, <3>1 DEF Turns, Sids
      <4>2. signed' = [signed EXCEPT ![<<"login", q>>] = User(q)]
        BY <3>1 DEF Rotate, LogIn
      <4>3. QED
        BY <4>1, <4>2 DEF TypeInv, TypeOK
    <3>2. QED
      BY <3>1, WhoWrites
  <2>4. QED
    BY <2>1, <2>2, <2>3, NewStays DEF Fresh
<1>5. QED
  BY <1>1, <1>3, <1>4

\* The session that was stored, or a new one.
LEMMA WhichLoaded ==
    ASSUME NEW r
    PROVE  \/ /\ Loaded(r).sid \in DOMAIN sessions
              /\ Loaded(r).user = sessions[Loaded(r).sid].user
              /\ Loaded(r).nonce = sessions[Loaded(r).sid].nonce
           \/ /\ Loaded(r).sid = <<"first", r>>
              /\ Loaded(r).user = None /\ Loaded(r).nonce = None
BY DEF Loaded

LEMMA HoldsStep == ASSUME TypeInv, SessionInv, [Next]_vars PROVE Holds'
<1>0. copy \in [Requests -> Copies \cup {None}]
  BY DEF TypeInv, TypeOK
<1> SUFFICES ASSUME NEW r \in Requests, copy'[r] # None
             PROVE  copy'[r].user = signed'[copy'[r].sid]
  BY DEF Holds
<1>1. CASE UNCHANGED copy[r]
  <2>1. copy[r].sid \in Sids /\ ~New(copy[r].sid)
    BY <1>0, <1>1 DEF New, Copies
  <2>2. QED
    BY <1>1, <2>1, SignedStays DEF SessionInv, Holds
<1>2. CASE Load(r)
  <2>1. copy'[r].user = Loaded(r).user /\ copy'[r].sid = Loaded(r).sid
    BY <1>0, <1>2, WasLetIn
  <2>2. UNCHANGED signed
    BY <1>2 DEF Load
  <2>3. QED
    BY <2>1, <2>2, WhichLoaded DEF SessionInv, Rotated, Fresh
<1>3. CASE Rotate(r)
  <2>1. <<"login", r>> \in Sids
    BY DEF Sids
  <2>2. QED
    BY <1>0, <1>3, <2>1 DEF Rotate, LogIn, Renewed, TypeInv, TypeOK
<1>5. CASE RotateThrows(r)
  <2>1. signed[<<"login", r>>] = None
    BY <1>5 DEF RotateThrows, SessionInv, Fresh
  <2>2. QED
    BY <1>0, <1>5, <2>1 DEF RotateThrows, history, Renewed
<1>4. QED
  BY <1>1, <1>2, <1>3, <1>5, WhoActs DEF Turns, Begin, GetRoles, HasRole, CountSecrets, UpdateSecret

LEMMA RotatedStep == ASSUME TypeInv, SessionInv, [Next]_vars PROVE Rotated'
<1> SUFFICES ASSUME NEW s \in DOMAIN sessions'
             PROVE  sessions'[s].user = signed'[s]
  BY DEF Rotated
<1>1. CASE s \in DOMAIN sessions /\ sessions'[s] = sessions[s]
  <2>1. s \in Sids /\ ~New(s)
    BY <1>1 DEF New, TypeInv, TypeOK
  <2>2. QED
    BY <1>1, <2>1, SignedStays DEF SessionInv, Rotated
<1>2. CASE \E r \in Requests : /\ pc[r] = "save" /\ s = copy[r].sid
                               /\ sessions'[s].user = copy[r].user
  <2>1. PICK r \in Requests : /\ pc[r] = "save" /\ s = copy[r].sid
                              /\ sessions'[s].user = copy[r].user
    BY <1>2
  <2>2. copy[r] # None /\ s \in Sids /\ ~New(s)
    BY <2>1 DEF New, TypeInv, TypeOK, Copies
  <2>3. QED
    BY <2>1, <2>2, SignedStays DEF SessionInv, Holds
<1>3. CASE \E t : Del(t)
  BY <1>1, <1>3 DEF Del, Restrict
<1>4. CASE \E r \in Requests : Set(copy[r]) /\ pc[r] = "save"
  BY <1>1, <1>2, <1>4 DEF Set
<1>5. QED
  BY <1>1, <1>3, <1>4, WhoWrites

LEMMA LoggedOutStep == ASSUME TypeInv, SessionInv, [Next]_vars PROVE LoggedOut' /\ Late'
<1>0. /\ copy \in [Requests -> Copies \cup {None}] /\ pc \in [Requests -> Pcs]
      /\ DOMAIN sessions \cap out \subseteq behind
  BY DEF TypeInv, TypeOK, SessionInv, LoggedOut
<1>1. CASE \E q \in Requests : Destroy(q)
  <2>1. PICK q \in Requests : Destroy(q)
    BY <1>1
  <2>2. /\ sessions' = Restrict(sessions, DOMAIN sessions \ {copy[q].sid})
        /\ out' = out \cup {copy[q].sid}
        /\ behind' = IF Writers(copy[q].sid) = {} THEN behind ELSE behind \cup {copy[q].sid}
        /\ UNCHANGED copy /\ GoTo(q, "answer")
    BY <2>1 DEF Destroy, Del
  <2>3. LoggedOut'
    BY <1>0, <2>2 DEF LoggedOut, Restrict
  <2>4. Late'
    BY <1>0, <2>2 DEF SessionInv, Late, Writers, GoTo
  <2>5. QED
    BY <2>3, <2>4
<1>2. CASE ~ \E q \in Requests : Destroy(q)
  <2>0. UNCHANGED <<out, behind>>
    BY <1>2, WhoWrites
  <2>1. LoggedOut'
    <3>1. CASE \E t : Del(t)
      BY <1>0, <2>0, <3>1 DEF Del, Restrict, LoggedOut
    <3>2. CASE \E r \in Requests : Set(copy[r]) /\ pc[r] = "save"
      BY <1>0, <2>0, <3>2 DEF Set, LoggedOut, SessionInv, Late
    <3>3. QED
      BY <1>0, <2>0, <3>1, <3>2, WhoWrites DEF LoggedOut
  <2>2. ASSUME NEW r \in Requests, pc'[r] = "save", copy'[r].sid \in out
        PROVE  copy'[r].sid \in behind
    <3>1. CASE UNCHANGED <<pc[r], copy[r]>>
      BY <2>2, <3>1 DEF SessionInv, Late
    <3>2. CASE Load(r)
      <4>1. copy'[r].sid = Loaded(r).sid
        BY <1>0, <3>2, WasLetIn
      <4>2. <<"first", r>> \notin out
        BY <3>2 DEF Load, SessionInv, Fresh, New
      <4>3. QED
        BY <1>0, <2>2, <4>1, <4>2, WhichLoaded
    <3>3. CASE Turns(r)
      <4>1. copy'[r].sid = <<"login", r>>
        BY <1>0, <3>3, Turned
      <4>2. <<"login", r>> \notin out
        BY <3>3 DEF Turns, Rotate, RotateThrows, SessionInv, Fresh, New
      <4>3. QED
        BY <2>2, <4>1, <4>2
    <3>4. CASE \/ GetRoles(r) \/ HasRole(r) \/ CountSecrets(r) \/ UpdateSecret(r)
               \/ \E u \in Users : Begin(r, u)
      BY <1>0, <2>2, <3>4 DEF GetRoles, HasRole, CountSecrets, UpdateSecret, Begin, GoTo
    <3>5. QED
      BY <2>2, <3>1, <3>2, <3>3, <3>4, WhoActs
  <2>3. QED
    BY <2>0, <2>1, <2>2 DEF Late
<1>3. QED
  BY <1>1, <1>2

LEMMA InitSessions == Init => SessionInv
<1> SUFFICES ASSUME Init PROVE SessionInv
  OBVIOUS
<1>1. PICK logged \in SUBSET Users :
         sessions = [s \in {"before"} \X logged |-> [nonce |-> None, user |-> s[2]]]
  BY DEF Init
<1>2. /\ signed = [s \in Sids |-> IF s[1] = "before" THEN s[2] ELSE None]
      /\ out = {} /\ \A r \in Requests : copy[r] = None /\ pc[r] = "idle"
  BY DEF Init
<1>3. Rotated
  <2>1. \A s \in DOMAIN sessions : /\ s \in Sids /\ s[1] = "before"
                                   /\ sessions[s].user = s[2]
    BY <1>1 DEF Sids
  <2>2. QED
    BY <1>2, <2>1 DEF Rotated
<1>4. Fresh
  <2>1. \A r \in Requests : /\ <<"first", r>> \notin DOMAIN sessions
                            /\ <<"login", r>> \notin DOMAIN sessions
                            /\ <<"first", r>> \in Sids /\ <<"login", r>> \in Sids
    BY <1>1 DEF Sids
  <2>2. \A r \in Requests : New(<<"first", r>>) /\ New(<<"login", r>>)
    BY <1>2, <2>1 DEF New
  <2>3. \A r \in Requests : signed[<<"first", r>>] = None /\ signed[<<"login", r>>] = None
    BY <1>2, <2>1
  <2>4. QED
    BY <2>2, <2>3 DEF Fresh
<1>5. LoggedOut /\ Holds /\ Late
  BY <1>2 DEF LoggedOut, Holds, Late
<1>6. QED
  BY <1>3, <1>4, <1>5 DEF SessionInv

LEMMA SessionsStep == ASSUME TypeInv, SessionInv, [Next]_vars PROVE SessionInv'
<1>1. Fresh
  BY DEF SessionInv
<1>2. QED
  BY <1>1, FreshStep, HoldsStep, RotatedStep, LoggedOutStep DEF SessionInv

\* The user of a session that is stored signed for it.
THEOREM SessionsAreSigned == Spec => []Rotated
<1>1. SessionInv => Rotated
  BY DEF SessionInv
<1>2. QED
  BY InitTypes, TypesStep, InitSessions, SessionsStep, <1>1, PTL DEF Spec

\* A session that was logged out comes back only if somebody was about to write it.
THEOREM LogoutLasts == Spec => []LoggedOut
<1>1. SessionInv => LoggedOut
  BY DEF SessionInv
<1>2. QED
  BY InitTypes, TypesStep, InitSessions, SessionsStep, <1>1, PTL DEF Spec
-------------------------------------------------------------------------------
\* A nonce that was given, or is signed, is one of a request that is over.
Given ==
    /\ \A u \in Users, n \in Nonces : n \in given[u] => ask[n] # None /\ pc[n] = "idle"
    /\ \A r \in Requests : ask[r] # None /\ ask[r].nonce # None =>
          LET n == ask[r].nonce IN ask[n] # None /\ pc[n] = "idle"

\* Who is about to store a nonce drew it.
Drawn ==
    \A r \in Requests : pc[r] = "save" /\ copy[r].nonce # None =>
       copy[r].nonce = r /\ Op(r) = "nonce"

\* A nonce is stored where the request that drew it put it.
Kept ==
    \A s \in DOMAIN sessions :
       LET n == sessions[s].nonce
       IN  n # None => /\ ask[n] # None /\ Op(n) = "nonce" /\ pc[n] # "load"
                       /\ copy[n] # None /\ copy[n].sid = s

\* Who was let in with a nonce holds that session.
Matched ==
    \A r \in Requests : pc[r] = "rotate" =>
       LET n == ask[r].nonce
       IN  /\ n # None /\ ask[n] # None /\ Op(n) = "nonce" /\ pc[n] # "load"
           /\ copy[n] # None /\ copy[r].sid = copy[n].sid

\* A nonce that was used is stored no more, and nobody else was let in with it; one
\* request at a time is let in with a nonce, and one for all.
Spent(n) ==
    /\ logins[n] # {} => /\ ask[n] # None /\ pc[n] = "idle"
                         /\ \A s \in DOMAIN sessions : sessions[s].nonce # n
                         /\ n \in together \/ Admitted(n) = {}
    /\ n \notin together => /\ \A q, r \in Admitted(n) : q = r
                            /\ \A q, r \in logins[n] : q = r

Used == \A n \in Nonces : Spent(n)

NonceInv == Given /\ Drawn /\ Kept /\ Matched /\ Used

\* A request that is over stays so, and keeps what it drew.
LEMMA OverStays ==
    ASSUME TypeInv, [Next]_vars, NEW n \in Requests, ask[n] # None
    PROVE  /\ UNCHANGED ask[n]
           /\ pc[n] = "idle" => pc'[n] = "idle"
           /\ pc[n] # "load" => pc'[n] # "load"
           /\ pc[n] # "load" /\ copy[n] # None /\ Op(n) = "nonce" => UNCHANGED copy[n]
<1>0. pc \in [Requests -> Pcs]
  BY DEF TypeInv, TypeOK
<1>1. CASE UNCHANGED <<ask[n], pc[n], copy[n]>>
  BY <1>1
<1>2. CASE Load(n)
  BY <1>0, <1>2, WasLetIn DEF Load, GoTo
<1>3. CASE Turns(n)
  BY <1>0, <1>3 DEF Turns, Rotate, RotateThrows, LogIn, GoTo, TypeInv, Placed
<1>4. CASE GetRoles(n) \/ HasRole(n) \/ CountSecrets(n) \/ UpdateSecret(n)
  BY <1>0, <1>4 DEF GetRoles, HasRole, CountSecrets, UpdateSecret, GoTo
<1>5. CASE /\ \/ pc'[n] = "idle"
              \/ pc[n] \notin {"idle", "load"} /\ pc'[n] \in {"touch", "answer"}
           /\ UNCHANGED <<ask[n], copy[n]>>
  BY <1>5
<1>6. QED
  BY <1>1, <1>2, <1>3, <1>4, <1>5, WhoActs DEF Begin

LEMMA GivenStep == ASSUME TypeInv, NonceInv, [Next]_vars PROVE Given'
<1>0. /\ pc \in [Requests -> Pcs] /\ ask \in [Requests -> Asks \cup {None}]
      /\ given \in [Users -> SUBSET Nonces]
  BY DEF TypeInv, TypeOK
<1>1. ASSUME NEW n \in Nonces, ask[n] # None, pc[n] = "idle"
      PROVE  ask'[n] # None /\ pc'[n] = "idle"
  BY <1>1, OverStays DEF Nonces
<1>2. ASSUME NEW u \in Users, NEW n \in Nonces, n \in given'[u]
      PROVE  ask'[n] # None /\ pc'[n] = "idle"
  <2>1. CASE n \in given[u]
    BY <1>1, <2>1 DEF NonceInv, Given
  <2>2. CASE n \notin given[u]
    <3>1. PICK r \in Requests : Answer(r)
      BY <1>2, <2>2, WhoWrites
    <3>2. n = r /\ GoTo(r, "idle") /\ UNCHANGED ask
      BY <1>0, <1>2, <2>2, <3>1 DEF Answer
    <3>3. ask[r] # None
      BY <3>1 DEF Answer, TypeInv, TypeOK
    <3>4. QED
      BY <1>0, <3>2, <3>3 DEF GoTo
  <2>3. QED
    BY <2>1, <2>2
<1>3. ASSUME NEW r \in Requests, ask'[r] # None, ask'[r].nonce # None
      PROVE  LET n == ask'[r].nonce IN ask'[n] # None /\ pc'[n] = "idle"
  <2>1. CASE ask[r] # None
    <3>1. ask'[r] = ask[r] /\ ask[r].nonce \in Nonces
      BY <1>0, <1>3, <2>1, OverStays DEF Asks
    <3>2. QED
      BY <1>1, <1>3, <2>1, <3>1 DEF NonceInv, Given
  <2>2. CASE ask[r] = None
    <3>1. PICK u \in Users : Begin(r, u)
      BY <1>3, <2>2, WhoActs
      DEF Load, Turns, Rotate, RotateThrows, LogIn, GetRoles, HasRole, CountSecrets, UpdateSecret, TypeInv, TypeOK
    <3>2. ask'[r].nonce \in given[u]
      BY <1>0, <1>3, <3>1, AskedFor
    <3>3. ask'[r].nonce \in Nonces
      BY <1>0, <3>2
    <3>4. QED
      BY <1>1, <3>2, <3>3 DEF NonceInv, Given
  <2>3. QED
    BY <2>1, <2>2
<1>4. QED
  BY <1>2, <1>3 DEF Given

LEMMA DrawnStep == ASSUME TypeInv, NonceInv, [Next]_vars PROVE Drawn'
<1>0. /\ pc \in [Requests -> Pcs] /\ copy \in [Requests -> Copies \cup {None}]
      /\ None \notin Requests
  BY AccessAssumption DEF TypeInv, TypeOK
<1> SUFFICES ASSUME NEW r \in Requests, pc'[r] = "save", copy'[r].nonce # None
             PROVE  copy'[r].nonce = r /\ Op(r)' = "nonce"
  BY DEF Drawn
<1>1. CASE UNCHANGED <<ask[r], pc[r], copy[r]>>
  BY <1>1 DEF NonceInv, Drawn, Op
<1>2. CASE Load(r)
  <2>1. Op(r) = "nonce" /\ UNCHANGED ask
    BY <1>0, <1>2, WasLetIn DEF GoTo
  <2>2. copy'[r].nonce = r
    BY <1>0, <1>2, <2>1, WasLetIn
  <2>3. QED
    BY <2>1, <2>2 DEF Op
<1>3. CASE Turns(r)
  BY <1>0, <1>3, Turned
<1>4. CASE \/ GetRoles(r) \/ HasRole(r) \/ CountSecrets(r) \/ UpdateSecret(r)
           \/ \E u \in Users : Begin(r, u)
  BY <1>0, <1>4 DEF GetRoles, HasRole, CountSecrets, UpdateSecret, Begin, GoTo
<1>5. QED
  BY <1>1, <1>2, <1>3, <1>4, WhoActs

\* A session after a step is one from before, or what a request stored.
LEMMA WhichSessions ==
    ASSUME TypeInv, [Next]_vars, NEW s \in DOMAIN sessions'
    PROVE  \/ s \in DOMAIN sessions /\ sessions'[s] = sessions[s]
           \/ \E r \in Requests : /\ pc[r] = "save" /\ s = copy[r].sid
                                  /\ sessions'[s].nonce = copy[r].nonce
<1>1. CASE \E t : Del(t)
  BY <1>1 DEF Del, Restrict
<1>2. CASE \E r \in Requests : Set(copy[r]) /\ pc[r] = "save"
  BY <1>2 DEF Set
<1>3. QED
  BY <1>1, <1>2, WhoWrites

LEMMA KeptStep == ASSUME TypeInv, NonceInv, [Next]_vars PROVE Kept'
<1> SUFFICES ASSUME NEW s \in DOMAIN sessions', sessions'[s].nonce # None
             PROVE  LET n == sessions'[s].nonce
                    IN  /\ ask'[n] # None /\ ask'[n].op = "nonce" /\ pc'[n] # "load"
                        /\ copy'[n] # None /\ copy'[n].sid = s
  BY DEF Kept, Op
<1>1. ASSUME NEW n \in Requests, ask[n] # None, Op(n) = "nonce", pc[n] # "load",
             copy[n] # None, copy[n].sid = s
      PROVE  /\ ask'[n] # None /\ ask'[n].op = "nonce" /\ pc'[n] # "load"
             /\ copy'[n] # None /\ copy'[n].sid = s
  BY <1>1, OverStays DEF Op
<1>2. CASE s \in DOMAIN sessions /\ sessions'[s] = sessions[s]
  <2>1. sessions[s].nonce \in Requests
    BY <1>2 DEF TypeInv, TypeOK, Rows, Nonces
  <2>2. QED
    BY <1>1, <1>2, <2>1 DEF NonceInv, Kept, Op
<1>3. CASE \E r \in Requests : /\ pc[r] = "save" /\ s = copy[r].sid
                               /\ sessions'[s].nonce = copy[r].nonce
  <2>1. PICK r \in Requests : /\ pc[r] = "save" /\ s = copy[r].sid
                              /\ sessions'[s].nonce = copy[r].nonce
    BY <1>3
  <2>2. copy[r].nonce = r /\ Op(r) = "nonce"
    BY <2>1 DEF NonceInv, Drawn
  <2>3. ask[r] # None /\ copy[r] # None
    BY <2>1 DEF TypeInv, TypeOK
  <2>4. QED
    BY <1>1, <2>1, <2>2, <2>3
<1>4. QED
  BY <1>2, <1>3, WhichSessions

\* Who is let in after a step was before, or was now: with a nonce that is stored.
LEMMA AdmittedStays ==
    ASSUME TypeInv, [Next]_vars, NEW r \in Requests, pc'[r] = "rotate"
    PROVE  \/ UNCHANGED <<ask[r], pc[r], copy[r]>>
           \/ /\ Load(r) /\ UNCHANGED ask /\ Op(r) = "verify" /\ LetIn(r, Loaded(r))
              /\ ask[r].nonce \in Nonces /\ copy'[r].sid = Loaded(r).sid
              /\ Loaded(r).sid \in DOMAIN sessions
              /\ sessions[Loaded(r).sid].nonce = ask[r].nonce
<1>0. /\ pc \in [Requests -> Pcs] /\ copy \in [Requests -> Copies \cup {None}]
  BY DEF TypeInv, TypeOK
<1>1. CASE Load(r)
  <2>1. Op(r) = "verify" /\ Matches(r, Loaded(r)) /\ UNCHANGED ask /\ ask[r] \in Asks
    BY <1>0, <1>1, WasLetIn DEF GoTo
  <2>2. LetIn(r, Loaded(r))
    BY <2>1 DEF LetIn
  <2>3. copy'[r].sid = Loaded(r).sid
    BY <1>0, <1>1, WasLetIn
  <2>4. Loaded(r).nonce # None /\ Loaded(r).nonce = ask[r].nonce
    BY <2>1 DEF Matches
  <2>5. ask[r].nonce \in Nonces
    BY <2>1, <2>4 DEF Asks
  <2>6. QED
    BY <1>1, <2>1, <2>2, <2>3, <2>4, <2>5, WhichLoaded
<1>2. CASE \/ Turns(r) \/ GetRoles(r) \/ HasRole(r) \/ CountSecrets(r) \/ UpdateSecret(r)
           \/ \E u \in Users : Begin(r, u)
  BY <1>0, <1>2
  DEF Turns, Rotate, RotateThrows, LogIn, GetRoles, HasRole, CountSecrets, UpdateSecret, Begin, GoTo
<1>3. QED
  BY <1>1, <1>2, WhoActs

LEMMA MatchedStep == ASSUME TypeInv, NonceInv, [Next]_vars PROVE Matched'
<1> SUFFICES ASSUME NEW r \in Requests, pc'[r] = "rotate"
             PROVE  LET n == ask'[r].nonce
                    IN  /\ n # None /\ ask'[n] # None /\ ask'[n].op = "nonce" /\ pc'[n] # "load"
                        /\ copy'[n] # None /\ copy'[r].sid = copy'[n].sid
  BY DEF Matched, Op
<1>1. ASSUME NEW n \in Requests, ask[n] # None, Op(n) = "nonce", pc[n] # "load",
             copy[n] # None
      PROVE  /\ ask'[n] # None /\ ask'[n].op = "nonce" /\ pc'[n] # "load"
             /\ copy'[n] = copy[n]
  BY <1>1, OverStays DEF Op
<1>2. None \notin Requests
  BY AccessAssumption
<1>3. CASE UNCHANGED <<ask[r], pc[r], copy[r]>>
  <2>1. ask[r].nonce \in Requests
    BY <1>3 DEF NonceInv, Matched, TypeInv, TypeOK, Asks, Nonces
  <2>2. QED
    BY <1>1, <1>2, <1>3, <2>1 DEF NonceInv, Matched, Op
<1>4. CASE /\ UNCHANGED ask /\ copy'[r].sid = Loaded(r).sid
           /\ ask[r].nonce \in Nonces
           /\ Loaded(r).sid \in DOMAIN sessions
           /\ sessions[Loaded(r).sid].nonce = ask[r].nonce
  BY <1>1, <1>2, <1>4 DEF NonceInv, Kept, Nonces, Op
<1>5. QED
  BY <1>3, <1>4, AdmittedStays

\* Nobody is let in with a nonce but by Load.
LEMMA AdmittedShrinks ==
    ASSUME TypeInv, [Next]_vars, NEW n, ~ \E r \in Requests : Load(r)
    PROVE  Admitted(n)' \subseteq Admitted(n)
BY AdmittedStays DEF Admitted

\* A nonce that is stored no more stays so, once the request that drew it is over.
LEMMA StoredNoMore ==
    ASSUME TypeInv, NonceInv, [Next]_vars, NEW n \in Nonces, pc[n] = "idle",
           \A s \in DOMAIN sessions : sessions[s].nonce # n
    PROVE  \A s \in DOMAIN sessions' : sessions'[s].nonce # n
<1>1. None \notin Nonces
  BY AccessAssumption DEF Nonces
<1>2. QED
  BY <1>1, WhichSessions DEF NonceInv, Drawn

LEMMA UsedStep == ASSUME TypeInv, NonceInv, [Next]_vars PROVE Used'
<1>0. /\ pc \in [Requests -> Pcs] /\ logins \in [Nonces -> SUBSET Requests]
      /\ None \notin Nonces /\ Nonces = Requests
  BY AccessAssumption DEF TypeInv, TypeOK, Nonces
<1> SUFFICES ASSUME NEW n \in Nonces PROVE Spent(n)'
  BY DEF Used
<1>6. Spent(n)
  BY DEF NonceInv, Used
<1>1. ASSUME logins[n] # {}
      PROVE  /\ ask'[n] # None /\ pc'[n] = "idle"
             /\ \A s \in DOMAIN sessions' : sessions'[s].nonce # n
  <2>1. ask[n] # None /\ pc[n] = "idle" /\ \A s \in DOMAIN sessions : sessions[s].nonce # n
    BY <1>1, <1>6 DEF Spent
  <2>2. QED
    BY <1>0, <2>1, OverStays, StoredNoMore
<1>2. CASE \E r \in Requests : Load(r)
  <2>1. PICK r \in Requests : Load(r)
    BY <1>2
  <2>2. /\ UNCHANGED <<logins, sessions>>
        /\ together' = IF Op(r) = "verify" /\ LetIn(r, Loaded(r)) /\ Admitted(ask[r].nonce) # {}
                       THEN together \cup {ask[r].nonce} ELSE together
    BY <2>1 DEF Load, store
  <2>3. \A q \in Requests : pc'[q] = "rotate" /\ q # r => UNCHANGED <<ask[q], pc[q]>>
    BY <1>0, <2>1 DEF Load, GoTo
  <2>4. CASE r \notin Admitted(n)'
    <3>1. Admitted(n)' \subseteq Admitted(n)
      BY <2>3, <2>4 DEF Admitted
    <3>2. n \notin together' => n \notin together
      BY <2>2
    <3>3. QED
      BY <1>1, <1>6, <2>2, <3>1, <3>2 DEF Spent
  <2>5. CASE r \in Admitted(n)'
    <3>1. pc'[r] = "rotate" /\ ask[r].nonce = n
      BY <2>1, <2>5 DEF Admitted, Load
    <3>2. pc[r] = "load"
      BY <2>1 DEF Load
    <3>3. /\ Op(r) = "verify" /\ LetIn(r, Loaded(r))
          /\ Loaded(r).sid \in DOMAIN sessions /\ sessions[Loaded(r).sid].nonce = n
      BY <3>1, <3>2, AdmittedStays
    <3>4. logins[n] = {}
      BY <1>6, <3>3 DEF Spent
    <3>5. n \in together' \/ (n \notin together /\ Admitted(n) = {})
      BY <2>2, <3>1, <3>3
    <3>6. Admitted(n)' \subseteq Admitted(n) \cup {r}
      BY <2>3 DEF Admitted
    <3>7. QED
      BY <2>2, <3>4, <3>5, <3>6 DEF Spent
  <2>6. QED
    BY <2>4, <2>5
<1>3. CASE \E r \in Requests : Rotate(r)
  <2>1. PICK r \in Requests : Rotate(r)
    BY <1>3
  <2>2. /\ UNCHANGED <<ask, together>> /\ Del(copy[r].sid) /\ GoTo(r, "save")
        /\ logins' = [logins EXCEPT ![ask[r].nonce] = @ \cup {r}] /\ pc[r] = "rotate"
    BY <2>1 DEF Rotate, LogIn
  <2>3. ~ \E q \in Requests : Load(q)
    <3>1. ASSUME NEW q \in Requests, Load(q) PROVE FALSE
      <4>1. pc[q] = "load" /\ q # r /\ UNCHANGED logins /\ pc'[r] = pc[r]
        BY <1>0, <2>2, <3>1 DEF Load, GoTo
      <4>2. QED
        BY <1>0, <2>2, <4>1 DEF GoTo
    <3>2. QED
      BY <3>1
  <2>4. Admitted(n)' \subseteq Admitted(n) \ {r}
    <3>1. r \notin Admitted(n)'
      BY <1>0, <2>2 DEF Admitted, GoTo
    <3>2. QED
      BY <2>3, <3>1, AdmittedShrinks
  <2>5. CASE ask[r].nonce # n
    BY <1>0, <1>6, <1>1, <2>2, <2>4, <2>5 DEF Spent
  <2>6. CASE ask[r].nonce = n
    <3>1. r \in Admitted(n)
      BY <2>2, <2>6 DEF Admitted
    <3>2. ask[n] # None /\ pc[n] = "idle"
      <4>1. ask[r] # None
        BY <2>2 DEF TypeInv, TypeOK
      <4>2. QED
        BY <1>0, <2>6, <4>1 DEF NonceInv, Given
    <3>3. \A s \in DOMAIN sessions' : sessions'[s].nonce # n
      <4>1. copy[r].sid = copy[n].sid
        BY <2>2, <2>6 DEF NonceInv, Matched
      <4>2. QED
        BY <1>0, <2>2, <4>1 DEF Del, Restrict, NonceInv, Kept
    <3>4. ask'[n] # None /\ pc'[n] = "idle"
      BY <1>0, <3>2, OverStays
    <3>5. n \notin together => logins'[n] = {r} /\ Admitted(n)' = {}
      <4>1. ASSUME n \notin together PROVE logins[n] = {} /\ Admitted(n) = {r}
        BY <1>6, <3>1, <4>1 DEF Spent
      <4>2. QED
        BY <1>0, <2>2, <2>4, <2>6, <4>1
    <3>6. QED
      BY <2>2, <3>3, <3>4, <3>5 DEF Spent
  <2>7. QED
    BY <2>5, <2>6
<1>4. CASE ~(\E r \in Requests : Load(r)) /\ ~(\E r \in Requests : Rotate(r))
  <2>1. UNCHANGED <<logins, together>>
    BY <1>4, WhoWrites
  <2>2. Admitted(n)' \subseteq Admitted(n)
    BY <1>4, AdmittedShrinks
  <2>3. QED
    BY <1>1, <1>6, <2>1, <2>2 DEF Spent
<1>5. QED
  BY <1>2, <1>3, <1>4

LEMMA InitNonces == Init => NonceInv
<1> SUFFICES ASSUME Init PROVE NonceInv
  OBVIOUS
<1>1. \A s \in DOMAIN sessions : sessions[s].nonce = None
  BY DEF Init
<1>2. QED
  BY <1>1 DEF Init, NonceInv, Given, Drawn, Kept, Matched, Used, Spent, Admitted, Nonces

LEMMA NoncesStep == ASSUME TypeInv, NonceInv, [Next]_vars PROVE NonceInv'
BY GivenStep, DrawnStep, KeptStep, MatchedStep, UsedStep DEF NonceInv

LEMMA AtMostOne ==
    ASSUME NEW S, \A q, r \in S : q = r PROVE Cardinality(S) <= 1
<1>1. CASE S = {}
  BY <1>1, FS_EmptySet
<1>2. CASE S # {}
  <2>1. PICK x : S = {x}
    BY <1>2
  <2>2. QED
    BY <2>1, FS_Singleton
<1>3. QED
  BY <1>1, <1>2

\* A nonce logs in once, unless two requests were let in with it at once.
THEOREM NoncesAreSingle == Spec => []SingleUse
<1>1. NonceInv => SingleUse
  BY AtMostOne DEF NonceInv, Used, Spent, SingleUse
<1>2. QED
  BY InitTypes, TypesStep, InitNonces, NoncesStep, <1>1, PTL DEF Spec
-------------------------------------------------------------------------------
SecretsOfUser(u) == {secret \in secrets : secret[1] = u}

\* The requests of a user that are past the count.
Past(u) == {r \in Requests : pc[r] \in {"update", "insert"} /\ copy[r].user = u}

\* There is room for the one store that is past the count.
Room ==
    \A u \in Users \ crowded :
       /\ Cardinality(SecretsOfUser(u)) <= MAX_NUMBER_OF_SECRETS
       /\ Past(u) # {} => Cardinality(SecretsOfUser(u)) < MAX_NUMBER_OF_SECRETS
       /\ \A q, r \in Past(u) : q = r

SecretInv == IsFiniteSet(secrets) /\ Room

\* Nobody gets past the count but by it.
LEMMA PastShrinks ==
    ASSUME TypeInv, [Next]_vars, NEW u, ~ \E r \in Requests : CountSecrets(r)
    PROVE  Past(u)' \subseteq Past(u)
<1>0. pc \in [Requests -> Pcs]
  BY DEF TypeInv, TypeOK
<1> SUFFICES ASSUME NEW r \in Requests, pc'[r] \in {"update", "insert"}
             PROVE  pc[r] \in {"update", "insert"} /\ copy'[r] = copy[r]
  BY DEF Past
<1>1. CASE Load(r)
  BY <1>0, <1>1, WasLetIn DEF GoTo
<1>2. CASE \/ Turns(r) \/ GetRoles(r) \/ HasRole(r) \/ UpdateSecret(r)
           \/ \E v \in Users : Begin(r, v)
  BY <1>0, <1>2 DEF Turns, Rotate, RotateThrows, LogIn, GetRoles, HasRole, UpdateSecret, Begin, GoTo
<1>3. QED
  BY <1>1, <1>2, WhoActs

LEMMA SecretsStep == ASSUME TypeInv, SecretInv, [Next]_vars PROVE SecretInv'
<1>0. /\ pc \in [Requests -> Pcs] /\ MAX_NUMBER_OF_SECRETS \in Nat
      /\ IsFiniteSet(secrets)
  BY AccessAssumption DEF TypeInv, TypeOK, SecretInv
<1>1. IsFiniteSet(secrets')
  <2>1. CASE \E r \in Requests : InsertSecret(r)
    BY <1>0, <2>1, FS_AddElement DEF InsertSecret
  <2>2. CASE \E r \in Requests : DeleteSecret(r)
    BY <1>0, <2>2, FS_RemoveElement DEF DeleteSecret
  <2>3. QED
    BY <1>0, <2>1, <2>2, WhoWrites
<1>2. ASSUME NEW u \in Users
      PROVE  /\ IsFiniteSet(SecretsOfUser(u)) /\ Cardinality(SecretsOfUser(u)) \in Nat
             /\ \A S \in SUBSET SecretsOfUser(u) :
                   Cardinality(S) \in Nat /\ Cardinality(S) <= Cardinality(SecretsOfUser(u))
  <2>1. SecretsOfUser(u) \subseteq secrets
    BY DEF SecretsOfUser
  <2>2. IsFiniteSet(SecretsOfUser(u))
    BY <1>0, <2>1, FS_Subset
  <2>3. QED
    BY <2>2, FS_Subset, FS_CardinalityType
<1> SUFFICES ASSUME NEW u \in Users, u \notin crowded'
             PROVE  /\ Cardinality(SecretsOfUser(u)') <= MAX_NUMBER_OF_SECRETS
                    /\ Past(u)' # {} => Cardinality(SecretsOfUser(u)') < MAX_NUMBER_OF_SECRETS
                    /\ \A q, r \in Past(u)' : q = r
  BY <1>1 DEF SecretInv, Room
<1>3. CASE \E r \in Requests : CountSecrets(r)
  <2>1. PICK r \in Requests : CountSecrets(r)
    BY <1>3
  <2>2. /\ UNCHANGED <<secrets, copy>> /\ crowded \subseteq crowded'
        /\ \/ GoTo(r, "touch")
           \/ /\ GoTo(r, "update") /\ ~(Cardinality(SecretsOf(r)) >= MAX_NUMBER_OF_SECRETS)
              /\ Storing(r) = {} \/ copy[r].user \in crowded'
    BY <2>1 DEF CountSecrets, store
  <2>3. SecretsOfUser(u)' = SecretsOfUser(u)
    BY <2>2 DEF SecretsOfUser
  <2>4. CASE r \notin Past(u)'
    <3>1. Past(u)' \subseteq Past(u)
      BY <1>0, <2>2, <2>4 DEF Past, GoTo
    <3>2. QED
      BY <2>2, <2>3, <3>1 DEF SecretInv, Room
  <2>5. CASE r \in Past(u)'
    <3>1. pc'[r] = "update" /\ copy[r].user = u
      BY <1>0, <2>2, <2>5 DEF Past, GoTo
    <3>2. Storing(r) = Past(u) /\ SecretsOf(r) = SecretsOfUser(u)
      BY <3>1 DEF Storing, Past, SecretsOf, SecretsOfUser
    <3>3. Past(u) = {} /\ Cardinality(SecretsOfUser(u)) < MAX_NUMBER_OF_SECRETS
      BY <1>0, <1>2, <2>2, <3>1, <3>2 DEF GoTo
    <3>4. Past(u)' \subseteq Past(u) \cup {r}
      BY <1>0, <2>2 DEF Past, GoTo
    <3>5. QED
      BY <1>0, <1>2, <2>3, <3>3, <3>4
  <2>6. QED
    BY <2>4, <2>5
<1>4. CASE ~ \E r \in Requests : CountSecrets(r)
  <2>0. u \notin crowded
    BY <1>4, WhoWrites
  <2>1. Past(u)' \subseteq Past(u)
    BY <1>4, PastShrinks
  <2>2. CASE SecretsOfUser(u)' \subseteq SecretsOfUser(u)
    BY <1>0, <1>2, <2>0, <2>1, <2>2 DEF SecretInv, Room
  <2>3. CASE \E r \in Requests : InsertSecret(r)
    <3>1. PICK r \in Requests : InsertSecret(r)
      BY <2>3
    <3>2. CASE copy[r].user # u
      <4>1. SecretsOfUser(u)' = SecretsOfUser(u)
        BY <3>1, <3>2 DEF InsertSecret, Secret, SecretsOfUser
      <4>2. QED
        BY <2>2, <4>1
    <3>3. CASE copy[r].user = u
      <4>1. r \in Past(u) /\ r \notin Past(u)'
        BY <1>0, <3>1, <3>3 DEF InsertSecret, Past, GoTo
      <4>2. Past(u)' = {}
        BY <2>0, <2>1, <4>1 DEF SecretInv, Room
      <4>3. Cardinality(SecretsOfUser(u)) < MAX_NUMBER_OF_SECRETS
        BY <2>0, <4>1 DEF SecretInv, Room
      <4>4. SecretsOfUser(u)' = SecretsOfUser(u) \cup {Secret(r)}
        BY <3>1, <3>3 DEF InsertSecret, Secret, SecretsOfUser
      <4>5. Cardinality(SecretsOfUser(u)') <= Cardinality(SecretsOfUser(u)) + 1
        BY <1>2, <4>4, FS_AddElement
      <4>6. /\ Cardinality(SecretsOfUser(u)') \in Nat
            /\ Cardinality(SecretsOfUser(u)) \in Nat
        BY <1>2, <4>4, FS_AddElement, FS_CardinalityType
      <4>7. QED
        BY <1>0, <4>2, <4>3, <4>5, <4>6
    <3>4. QED
      BY <3>2, <3>3
  <2>4. CASE (\E r \in Requests : DeleteSecret(r)) \/ UNCHANGED secrets
    BY <2>2, <2>4 DEF DeleteSecret, SecretsOfUser
  <2>5. QED
    BY <2>3, <2>4, WhoWrites
<1>5. QED
  BY <1>3, <1>4

\* Nobody has more secrets than the maximum, unless two of their requests passed the
\* count together.
THEOREM SecretsAreFew == Spec => []AtMostMax
<1>1. Init => SecretInv
  <2>1. ASSUME Init PROVE SecretInv
    <3>1. \A u : SecretsOfUser(u) = {} /\ Past(u) = {}
      BY <2>1 DEF Init, SecretsOfUser, Past
    <3>2. IsFiniteSet(secrets)
      BY <2>1, FS_EmptySet DEF Init
    <3>3. Cardinality({}) = 0 /\ 0 <= MAX_NUMBER_OF_SECRETS
      BY FS_EmptySet, AccessAssumption
    <3>4. QED
      BY <3>1, <3>2, <3>3 DEF SecretInv, Room
  <2>2. QED
    BY <2>1
<1>2. SecretInv => AtMostMax
  BY DEF SecretInv, Room, AtMostMax, SecretsOfUser
<1>3. QED
  BY InitTypes, TypesStep, SecretsStep, <1>1, <1>2, PTL DEF Spec
===============================================================================
