--------------------------------- MODULE Access ---------------------------------
(***************************************************************************)
(* Who a request is from, and what is theirs: the sessions of the server   *)
(* (remote-server/src/keyvalue-session-store.ts on a key-value store, and  *)
(* routers/auth), the roles (rbac/src/roleStore.ts on Postgres, and the    *)
(* handlers of remote-server/src/rbac) and the secrets of a user           *)
(* (remote-server/src/secret.ts on Postgres; their contents are left out). *)
(*                                                                         *)
(* Every user has a browser, whose requests run at once on one server.     *)
(* What is stored survives the server.  express-session is outside: it  *)
(* loads a session before the handler, and saves it after the handler if   *)
(* it was changed (resave and saveUninitialized are false).  Signatures    *)
(* are right here, and the lifetimes of sessions end at any time.          *)
(***************************************************************************)
EXTENDS Naturals, FiniteSets, Functions

CONSTANTS
    Users,      \* users, each with one browser
    Owners,     \* what INIT_PLATFORM_OWNER may name: <<user, written as in sessions>>
    Requests,
    Named,      \* the rows of the role table that requests may name
    Secrets,    \* identifiers of secrets
    MAX_NUMBER_OF_SECRETS,
    Mixes,      \* bound: the sets of operations that meet in one behaviour
    MaxFaults,  \* bound: failed calls, and crashes
    None        \* no session, no user, no nonce

Roles == {"PlatformOwner", "Developer"}

SessionOps == {"nonce", "verify", "logout"}
RoleOps == {"grant", "revoke"}
SecretOps == {"storeSecret", "removeSecret"}
Ops == SessionOps \cup RoleOps \cup SecretOps

ASSUME AccessAssumption ==
    /\ Owners \subseteq Users \X BOOLEAN
    /\ Named \subseteq Users \X BOOLEAN \X Roles
    /\ Mixes \subseteq SUBSET Ops
    /\ MAX_NUMBER_OF_SECRETS \in Nat /\ MaxFaults \in Nat
    /\ None \notin Users \cup Requests \cup Named \cup Secrets

VARIABLES
    sessions,   \* the sessions stored: id -> [nonce, user]
    roles,      \* the rows of the role table: <<user, written as in sessions, role>>
    secrets,    \* the secrets stored: <<user, identifier>>
    ready,      \* the role store of the server is initialised
    cookie,     \* user -> the session id in the browser
    given,      \* user -> nonces the browser was answered
    ask,        \* request -> [op, user, sid, nonce, what]
    pc,         \* request -> where it stands
    copy,       \* request -> its session: [sid, nonce, user]
    signed,     \* history: session id -> the user who signed for it
    logins,     \* history: nonce -> the requests it logged in
    together,   \* history: nonces of two requests at once
    out,        \* history: sessions destroyed by a logout
    behind,     \* history: of these, the ones somebody was about to write back
    maker,      \* history: <<user, written as in sessions>> -> who made them developer
    owners,     \* history: the owners that servers started with and wrote down
    crowded,    \* history: users of whom two stores passed the count together
    faults      \* faults so far

store   == <<sessions, roles, secrets, ready>>
tables  == <<roles, secrets, ready>>
browser == <<cookie, given>>
request == <<ask, pc, copy>>
history == <<signed, logins, together, out, behind, maker, owners, crowded>>
vars == <<store, browser, request, history, faults>>

\* Ids are random, so that each is new.  Some users are logged in from before.
Sids == ({"before"} \X Users) \cup ({"first", "login"} \X Requests)

Nonces == Requests

Rows == [nonce : Nonces \cup {None}, user : Users \cup {None}]

Empty == [nonce |-> None, user |-> None]

Asks == [op : Ops, user : Users, sid : Sids \cup {None}, nonce : Nonces \cup {None},
         what : Named \cup Secrets \cup {None}]

\* What a request has of its session.
Copies == [sid : Sids, nonce : Nonces \cup {None}, user : Users \cup {None}]

ASSUME NoneAssumption == None \notin Asks \cup Copies

Pcs == {"idle", "load", "rotate", "save", "answer", "destroy", "touch", "roles", "has",
        "add", "remove", "count", "update", "insert", "drop"}

Fault == faults < MaxFaults /\ faults' = faults + 1

GoTo(r, where) == pc' = [pc EXCEPT ![r] = where]

Op(r) == ask[r].op
User(r) == ask[r].user
Row(r) == ask[r].what
Pair(r) == <<Row(r)[1], Row(r)[2]>>
Secret(r) == <<copy[r].user, ask[r].what>>

\* The row of an owner, as onInit writes it.
OwnerRow(o) == <<o[1], o[2], "PlatformOwner">>

\* Mutant of Admin: owners make owners.
AdminOfAll(role) == "PlatformOwner"

\* getRoleAdmin: nobody grants or revokes the role of the owner.
Admin(role) == IF role = "Developer" THEN "PlatformOwner" ELSE None

\* getRoles of a user, by the address as sessions write it.
RolesOf(u) == {role \in Roles : <<u, TRUE, role>> \in roles}
-------------------------------------------------------------------------------
Init ==
    /\ \E logged \in SUBSET Users :
          /\ sessions = [s \in {"before"} \X logged |-> [nonce |-> None, user |-> s[2]]]
          /\ cookie = [u \in Users |-> IF u \in logged THEN <<"before", u>> ELSE None]
    /\ roles = {} /\ secrets = {} /\ ready = FALSE
    /\ given = [u \in Users |-> {}]
    /\ ask = [r \in Requests |-> None]
    /\ pc = [r \in Requests |-> "idle"]
    /\ copy = [r \in Requests |-> None]
    /\ signed = [s \in Sids |-> IF s[1] = "before" THEN s[2] ELSE None]
    /\ logins = [n \in Nonces |-> {}]
    /\ together = {} /\ out = {} /\ behind = {}
    /\ maker = <<>> /\ owners = {} /\ crowded = {}
    /\ faults = 0
-------------------------------------------------------------------------------
\* The operations of the requests so far.
Begun == {Op(q) : q \in {r \in Requests : ask[r] # None}}

\* A browser sends a request, with the cookie it has then.  A login signs one of the
\* nonces it was answered; requests about roles and secrets name one.
Begin(r, u) ==
    /\ ask[r] = None
    /\ \E op \in Ops, n \in given[u] \cup {None}, what \in Named \cup Secrets \cup {None} :
          /\ \E mix \in Mixes : {op} \cup Begun \subseteq mix
          /\ op = "verify" <=> n # None
          /\ op \in RoleOps <=> what \in Named
          /\ op \in SecretOps <=> what \in Secrets
          /\ ask' = [ask EXCEPT ![r] =
                        [op |-> op, user |-> u, sid |-> cookie[u], nonce |-> n, what |-> what]]
    /\ GoTo(r, "load")
    /\ UNCHANGED <<store, browser, copy, history, faults>>

\* The session of r: the one stored under its cookie, or a new one.
Loaded(r) ==
    LET s == ask[r].sid
    IN  IF s \in DOMAIN sessions
        THEN [sid |-> s, nonce |-> sessions[s].nonce, user |-> sessions[s].user]
        ELSE [sid |-> <<"first", r>>, nonce |-> None, user |-> None]

\* Where a handler first waits.
Waits == [nonce |-> "save", verify |-> "rotate", logout |-> "destroy", grant |-> "roles",
          revoke |-> "roles", storeSecret |-> "count", removeSecret |-> "drop"]

\* verifySiwe: the nonce signed is the one of the session.
Matches(r, session) == session.nonce # None /\ session.nonce = ask[r].nonce

\* requireAuth: the session has a user.  The routes of a login do not ask for one.
LetIn(r, session) ==
    CASE Op(r) = "nonce" -> TRUE
      [] Op(r) = "verify" -> Matches(r, session)
      [] OTHER -> session.user # None

\* The requests that were let in with nonce n and still run.
Admitted(n) == {q \in Requests : pc[q] = "rotate" /\ ask[q].nonce = n}

\* The session is loaded, and the handler starts: getNonce is over with that.  Who is
\* not let in is answered 401.
Load(r) ==
    /\ pc[r] = "load"
    /\ LET session == Loaded(r)
       IN /\ copy' = [copy EXCEPT ![r] =
                         IF Op(r) = "nonce" THEN [session EXCEPT !.nonce = r] ELSE session]
          /\ GoTo(r, IF LetIn(r, session) THEN Waits[Op(r)] ELSE "touch")
          /\ together' =
                IF Op(r) = "verify" /\ LetIn(r, session) /\ Admitted(ask[r].nonce) # {}
                THEN together \cup {ask[r].nonce} ELSE together
    /\ UNCHANGED <<store, browser, ask, signed, logins, out, behind, maker, owners, crowded,
                   faults>>

\* del of the key-value store.
Del(s) == sessions' = Restrict(sessions, DOMAIN sessions \ {s})

\* set of the key-value store.
Set(session) ==
    sessions' = [s \in DOMAIN sessions \cup {session.sid} |->
                    IF s = session.sid THEN [nonce |-> session.nonce, user |-> session.user]
                    ELSE sessions[s]]

\* The session that regenerate makes, when its user is u.
Renewed(r, u) == [sid |-> <<"login", r>>, nonce |-> None, user |-> u]

LogIn(r) ==
    /\ copy' = [copy EXCEPT ![r] = Renewed(r, User(r))]
    /\ signed' = [signed EXCEPT ![<<"login", r>>] = User(r)]
    /\ logins' = [logins EXCEPT ![ask[r].nonce] = @ \cup {r}]
    /\ GoTo(r, "save")

\* Mutant of Rotate: the session is renewed, and the old one stays.
RotateKeeps(r) ==
    /\ pc[r] = "rotate"
    /\ LogIn(r)
    /\ UNCHANGED <<store, browser, ask, together, out, behind, maker, owners, crowded, faults>>

\* Mutant of Rotate: the user is put into the session that is there.
RotateNothing(r) ==
    /\ pc[r] = "rotate"
    /\ copy' = [copy EXCEPT ![r].nonce = None, ![r].user = User(r)]
    /\ logins' = [logins EXCEPT ![ask[r].nonce] = @ \cup {r}]
    /\ GoTo(r, "save")
    /\ UNCHANGED <<store, browser, ask, signed, together, out, behind, maker, owners, crowded,
                   faults>>

\* verifySiwe, once the signature is verified: regenerate deletes the session whatever
\* it holds by then, and makes another.
Rotate(r) ==
    /\ pc[r] = "rotate"
    /\ Del(copy[r].sid)
    /\ LogIn(r)
    /\ UNCHANGED <<tables, browser, ask, together, out, behind, maker, owners, crowded,
                   faults>>

\* It fails, before the deletion or after: answered 500, with the new session, which
\* nobody is the user of, but which is saved as its id is another.
RotateThrows(r) ==
    /\ pc[r] = "rotate"
    /\ Fault
    /\ Del(copy[r].sid) \/ UNCHANGED sessions
    /\ copy' = [copy EXCEPT ![r] = Renewed(r, None)]
    /\ GoTo(r, "save")
    /\ UNCHANGED <<tables, browser, ask, history>>

\* set of KeyValueSessionStore, before the answer goes.
Save(r) ==
    /\ pc[r] = "save"
    /\ Set(copy[r])
    /\ GoTo(r, "answer")
    /\ UNCHANGED <<tables, browser, ask, copy, history, faults>>

\* It fails, and the answer goes all the same.
SaveThrows(r) ==
    /\ pc[r] = "save"
    /\ Fault
    /\ GoTo(r, "answer")
    /\ UNCHANGED <<store, browser, ask, copy, history>>

\* Mutant of Touch: the session is stored again, to live longer.
TouchSets(r) ==
    /\ pc[r] = "touch"
    /\ IF copy[r].sid = ask[r].sid THEN Set(copy[r]) ELSE UNCHANGED sessions
    /\ GoTo(r, "idle")
    /\ UNCHANGED <<tables, browser, ask, copy, history, faults>>

\* touch of KeyValueSessionStore: a session that was not changed lives longer, if it is
\* there (expire makes no key).
Touch(r) ==
    /\ pc[r] = "touch"
    /\ GoTo(r, "idle")
    /\ UNCHANGED <<store, browser, ask, copy, history, faults>>

\* Who holds session s in order to write it back.
Writers(s) == {r \in Requests : pc[r] = "save" /\ copy[r].sid = s}

\* logout: destroy of KeyValueSessionStore, ...
Destroy(r) ==
    /\ pc[r] = "destroy"
    /\ LET s == copy[r].sid
       IN /\ Del(s)
          /\ out' = out \cup {s}
          /\ behind' = IF Writers(s) = {} THEN behind ELSE behind \cup {s}
    /\ GoTo(r, "answer")
    /\ UNCHANGED <<tables, browser, ask, copy, signed, logins, together, maker, owners, crowded,
                   faults>>

\* ... whose failure is not looked at: the answer says that it is done.
DestroyThrows(r) ==
    /\ pc[r] = "destroy"
    /\ Fault
    /\ Del(copy[r].sid) \/ UNCHANGED sessions
    /\ GoTo(r, "answer")
    /\ UNCHANGED <<tables, browser, ask, copy, history>>

\* The browser takes the answer, and the cookie with it.
Answer(r) ==
    /\ pc[r] = "answer"
    /\ cookie' = [cookie EXCEPT ![User(r)] = IF Op(r) = "logout" THEN None ELSE copy[r].sid]
    /\ given' = IF Op(r) = "nonce" THEN [given EXCEPT ![User(r)] = @ \cup {r}] ELSE given
    /\ GoTo(r, "idle")
    /\ UNCHANGED <<store, ask, copy, history, faults>>

\* The lifetime of a session is over.
Expire(s) ==
    /\ s \in DOMAIN sessions
    /\ Fault
    /\ Del(s)
    /\ UNCHANGED <<tables, browser, request, history>>
-------------------------------------------------------------------------------
\* The first call of the role store finds the owner that its server was started with in the
\* table, or adds it.  (Nobody takes it out, so that it does not matter that two calls may do
\* this at once.)
InitRoles(r) ==
    /\ pc[r] = "roles"
    /\ ~ready
    /\ \E o \in Owners : /\ roles' = roles \cup {OwnerRow(o)}
                         /\ owners' = owners \cup {o}
    /\ ready' = TRUE
    /\ UNCHANGED <<sessions, secrets, browser, request, signed, logins, together, out,
                   behind, maker, crowded, faults>>

\* handleGrantRole, handleRevokeRole: the caller holds the role above the one in the
\* request.
MayChange(r) ==
    /\ Admin(Row(r)[3]) # None
    /\ Admin(Row(r)[3]) \in RolesOf(copy[r].user)

GetRoles(r) ==
    /\ pc[r] = "roles"
    /\ ready
    /\ GoTo(r, IF ~MayChange(r) THEN "touch"
               ELSE IF Op(r) = "grant" THEN "has" ELSE "remove")
    /\ UNCHANGED <<store, browser, ask, copy, history, faults>>

\* addRoleBySchema: nothing to do for a role that is there, ...
HasRole(r) ==
    /\ pc[r] = "has"
    /\ GoTo(r, IF Row(r) \in roles THEN "touch" ELSE "add")
    /\ UNCHANGED <<store, browser, ask, copy, history, faults>>

\* ... and another one is added, if it did not come meanwhile.
AddRole(r) ==
    /\ pc[r] = "add"
    /\ roles' = roles \cup {Row(r)}
    /\ maker' = [p \in DOMAIN maker \cup {Pair(r)} |-> IF p = Pair(r) THEN copy[r].user
                                                      ELSE maker[p]]
    /\ GoTo(r, "touch")
    /\ UNCHANGED <<sessions, secrets, ready, browser, ask, copy, signed, logins, together,
                   out, behind, owners, crowded, faults>>

\* removeRoleBySchema.
RemoveRole(r) ==
    /\ pc[r] = "remove"
    /\ roles' = roles \ {Row(r)}
    /\ GoTo(r, "touch")
    /\ UNCHANGED <<sessions, secrets, ready, browser, ask, copy, history, faults>>

-------------------------------------------------------------------------------
\* The secrets of the user of r, as listSecrets has them.
SecretsOf(r) == {secret \in secrets : secret[1] = copy[r].user}

\* The stores of the user of r that are past the count.
Storing(r) == {q \in Requests : pc[q] \in {"update", "insert"} /\ copy[q].user = copy[r].user}

\* Mutant of CountSecrets: one too many is let through.
CountSecretsLate(r) ==
    /\ pc[r] = "count"
    /\ GoTo(r, IF Cardinality(SecretsOf(r)) > MAX_NUMBER_OF_SECRETS THEN "touch" ELSE "update")
    /\ UNCHANGED <<store, browser, ask, copy, history, faults>>

\* ensureMaxSecretsCount: 429 for a user who has as many as that.
CountSecrets(r) ==
    /\ pc[r] = "count"
    /\ IF Cardinality(SecretsOf(r)) >= MAX_NUMBER_OF_SECRETS
       THEN GoTo(r, "touch") /\ UNCHANGED crowded
       ELSE /\ GoTo(r, "update")
            /\ crowded' = IF Storing(r) = {} THEN crowded ELSE crowded \cup {copy[r].user}
    /\ UNCHANGED <<store, browser, ask, copy, signed, logins, together, out, behind, maker,
                   owners, faults>>

\* _saveSecret: a secret that is there is updated, ...
UpdateSecret(r) ==
    /\ pc[r] = "update"
    /\ GoTo(r, IF Secret(r) \in secrets THEN "touch" ELSE "insert")
    /\ UNCHANGED <<store, browser, ask, copy, history, faults>>

\* ... and another one inserted; which throws if it came meanwhile.
InsertSecret(r) ==
    /\ pc[r] = "insert"
    /\ secrets' = secrets \cup {Secret(r)}
    /\ GoTo(r, "touch")
    /\ UNCHANGED <<sessions, roles, ready, browser, ask, copy, history, faults>>

\* handleRemoveSecret.
DeleteSecret(r) ==
    /\ pc[r] = "drop"
    /\ secrets' = secrets \ {Secret(r)}
    /\ GoTo(r, "touch")
    /\ UNCHANGED <<sessions, roles, ready, browser, ask, copy, history, faults>>
-------------------------------------------------------------------------------
\* A call of the role store or of the secret store fails.
StoreThrows(r) ==
    /\ pc[r] \in {"roles", "has", "add", "remove", "count", "update", "insert", "drop"}
    /\ Fault
    /\ GoTo(r, "touch")
    /\ UNCHANGED <<store, browser, ask, copy, history>>

\* The server ends with its requests, and starts again, configured as before or not.
Restart ==
    /\ ready \/ \E r \in Requests : pc[r] # "idle"
    /\ Fault
    /\ pc' = [r \in Requests |-> "idle"]
    /\ ready' = FALSE
    /\ UNCHANGED <<sessions, roles, secrets, browser, ask, copy, history>>
-------------------------------------------------------------------------------
Session(r) ==
    \/ Load(r) \/ Rotate(r) \/ RotateThrows(r) \/ Save(r) \/ SaveThrows(r) \/ Touch(r)
    \/ Destroy(r) \/ DestroyThrows(r) \/ Answer(r)

Role(r) ==
    InitRoles(r) \/ GetRoles(r) \/ HasRole(r) \/ AddRole(r) \/ RemoveRole(r)

SecretStore(r) == CountSecrets(r) \/ UpdateSecret(r) \/ InsertSecret(r) \/ DeleteSecret(r)

Next ==
    \/ \E r \in Requests, u \in Users : Begin(r, u)
    \/ \E r \in Requests : Session(r) \/ Role(r) \/ SecretStore(r) \/ StoreThrows(r)
    \/ \E s \in Sids : Expire(s)
    \/ Restart

Spec == Init /\ [][Next]_vars
-------------------------------------------------------------------------------
TypeOK ==
    /\ sessions \in [DOMAIN sessions -> Rows] /\ DOMAIN sessions \subseteq Sids
    /\ roles \subseteq Users \X BOOLEAN \X Roles
    /\ secrets \subseteq Users \X Secrets
    /\ ready \in BOOLEAN /\ owners \subseteq Owners
    /\ cookie \in [Users -> Sids \cup {None}]
    /\ given \in [Users -> SUBSET Nonces]
    /\ ask \in [Requests -> Asks \cup {None}]
    /\ pc \in [Requests -> Pcs]
    /\ copy \in [Requests -> Copies \cup {None}]
    /\ \A r \in Requests : pc[r] # "idle" => ask[r] # None
    /\ \A r \in Requests : pc[r] \notin {"idle", "load"} => copy[r] # None
    /\ signed \in [Sids -> Users \cup {None}]
    /\ logins \in [Nonces -> SUBSET Requests]
    /\ together \subseteq Nonces /\ out \subseteq Sids /\ behind \subseteq Sids
    /\ maker \in [DOMAIN maker -> Users] /\ DOMAIN maker \subseteq Users \X BOOLEAN
    /\ crowded \subseteq Users
    /\ faults \in Nat

(***************************************************************************)
(* "Rotate session id on login" (auth.ts:81): the user of a session signed *)
(* for it, under an id that no session had before; and it stays theirs,    *)
(* whatever other requests of the browser write back.                      *)
(***************************************************************************)
Rotated == \A s \in DOMAIN sessions : sessions[s].user \in {signed[s]}

(***************************************************************************)
(* A session that was logged out is gone for good, though requests that    *)
(* loaded it before end after it: unless one of them changed it, for which *)
(* only asking for a nonce will do.                                        *)
(***************************************************************************)
LoggedOut == DOMAIN sessions \cap out \subseteq behind

(***************************************************************************)
(* "Consume nonce (single use)" (auth.ts:77): a nonce logs in once, unless *)
(* two requests with it were let in at once.  What consumes it is that the *)
(* session goes that held it: the assignment is lost with the copy.        *)
(***************************************************************************)
SingleUse == \A n \in Nonces \ together : Cardinality(logins[n]) <= 1

(***************************************************************************)
(* The platform owners are those that servers were started with and wrote  *)
(* down: grants make no others, revocations take none away, and a start    *)
(* with another owner, or another spelling of the same, adds one and       *)
(* leaves those before in place.  Every developer was made by one of them  *)
(* that is written as sessions write it.                                   *)
(***************************************************************************)
OnlyOwners ==
    /\ {<<row[1], row[2]>> : row \in {x \in roles : x[3] = "PlatformOwner"}} = owners
    /\ \A row \in roles :
           row[3] = "Developer" => <<maker[<<row[1], row[2]>>], TRUE>> \in owners

(***************************************************************************)
(* "can't store more than 50" (middlewares/secret.ts:13): the secrets are  *)
(* counted before they are stored, so that nobody has more than the        *)
(* maximum, unless two of their requests passed the count together.        *)
(***************************************************************************)
AtMostMax ==
    \A u \in Users \ crowded :
        Cardinality({secret \in secrets : secret[1] = u}) <= MAX_NUMBER_OF_SECRETS
===============================================================================
