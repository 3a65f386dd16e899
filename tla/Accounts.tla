-------------------------------- MODULE Accounts --------------------------------
(***************************************************************************)
(* Credits and what they buy: the balances of the users and the history of *)
(* their transactions (rbac/src/userStore.ts, transactions.ts and their    *)
(* stores), the grants of a platform owner (remote-server/src/rbac), the   *)
(* images a user stores (routers/image, adapters/src/image_store.ts), the  *)
(* account at Coinbase (routers/cdp) and the charge of a worker.           *)
(*                                                                         *)
(* A request is a run of one handler; every step is the code between two   *)
(* awaits.  The requests of all users interleave, on several servers that  *)
(* share the database.  The credits that payments bring are the subject of *)
(* Payments.  Contents of images are left out, and so is updating them; no *)
(* balance comes near the end of its column here.                          *)
(***************************************************************************)
EXTENDS Integers, FiniteSets, FiniteSetsExt

CONSTANTS
    Users, Images, Servers,
    Requests,   \* requests, and charges of workers, at the same time
    Delta,      \* operation -> the credits it adds or takes, of each kind
    Initial,    \* the credits of the users who have some at the start
    MaxFaults,  \* bound: failed calls and crashes
    None        \* nothing asked

Kinds == {"unified", "cdp"}

Ops == {"grant", "take", "store", "delete", "open", "find", "run"}

Asks == [op : Ops, user : Users, image : Images, server : Servers]

ASSUME AccountsAssumption ==
    /\ Delta \in [Ops -> [Kinds -> Nat]]
    /\ Initial \in [Kinds -> Nat]
    /\ MaxFaults \in Nat
    /\ IsFiniteSet(Requests)
    /\ "first" \notin Requests /\ "node" \notin Requests
    /\ None \notin Asks

VARIABLES
    known,      \* the users with a row
    balance,    \* user -> kind -> credits in the row
    ledger,     \* the history: [user, credit, kind, amount, ref]
    images,     \* the images stored, <<user, image>>
    ready,      \* the servers whose image store is initialised
    count,      \* server -> user -> images it counts
    coinbase,   \* the users with an account at Coinbase
    linked,     \* the users with a row in the account store
    ask,        \* request -> what it asks: [op, user, image, server]
    pc,         \* request -> where it stands
    todo,       \* request -> kinds it has yet to record
    snap,       \* request -> the images it read to initialise the store
    maker,      \* history: image stored -> the request that stored it
    gone,       \* history: images that were deleted, if only once
    torn,       \* history: users hit by a fault between balance and history
    repeated,   \* history: users charged twice for one node
    unpaid,     \* history: requests that stored an image and were not charged
    stale,      \* history: servers whose counts were overtaken
    faults      \* faults so far

credits  == <<known, balance, ledger>>
gallery  == <<images, ready, count>>
accounts == <<coinbase, linked>>
request  == <<ask, pc, todo, snap>>
past     == <<maker, gone>>
history  == <<past, torn, repeated, unpaid, stale>>
vars == <<credits, gallery, accounts, request, history, faults>>

Pcs == {"idle", "get", "create", "increase", "reduce", "record", "guard", "init", "load",
        "look", "insert", "count", "remove", "uncount", "find", "exists", "charged",
        "free", "link"}

Fault == faults < MaxFaults /\ faults' = faults + 1

GoTo(r, where) == pc' = [pc EXCEPT ![r] = where]

Nothing == [k \in Kinds |-> 0]

\* Who asks, and what.
Op(r) == ask[r].op
User(r) == ask[r].user
Picture(r) == <<ask[r].user, ask[r].image>>
Server(r) == ask[r].server

\* The kinds of credits an operation moves, and the one that is recorded first.
Moved(op) == {k \in Kinds : Delta[op][k] > 0}
First(kinds) == IF "unified" \in kinds THEN "unified" ELSE "cdp"

\* The transaction of r for kind k.  What is charged for a node is named after it; all
\* other operations name theirs by a fresh uuid.
Entry(r, k) ==
    [user |-> User(r), credit |-> Op(r) = "grant", kind |-> k, amount |-> Delta[Op(r)][k],
     ref |-> IF Op(r) = "run" THEN "node" ELSE r]

\* validateCreate: nothing of an amount of zero is a transaction.
Valid(e) == e.amount > 0

\* computeIdempotencyKey: all but the direction.
Key(e) == [user |-> e.user, kind |-> e.kind, amount |-> e.amount, ref |-> e.ref]

\* The transactions a user who has credits at the start got them by.
Opening(users) ==
    {[user |-> u, credit |-> TRUE, kind |-> k, amount |-> Initial[k], ref |-> "first"] :
        u \in users, k \in {kind \in Kinds : Initial[kind] > 0}}
-------------------------------------------------------------------------------
Init ==
    /\ known \in SUBSET Users
    /\ balance = [u \in Users |-> IF u \in known THEN Initial ELSE Nothing]
    /\ ledger = Opening(known)
    /\ images = {} /\ ready = {}
    /\ count = [s \in Servers |-> [u \in Users |-> 0]]
    /\ coinbase = {} /\ linked = {}
    /\ ask = [r \in Requests |-> None]
    /\ pc = [r \in Requests |-> "idle"]
    /\ todo = [r \in Requests |-> {}]
    /\ snap = [r \in Requests |-> {}]
    /\ maker = <<>> /\ gone = {}
    /\ torn = {} /\ repeated = {} /\ unpaid = {} /\ stale = {}
    /\ faults = 0
-------------------------------------------------------------------------------
\* A request comes in, or a worker has run the node.  (A worker runs one node only, so
\* that two charges are for the same.)
Begin(r, a) ==
    /\ ask[r] = None
    /\ ask' = [ask EXCEPT ![r] = a]
    /\ GoTo(r, CASE a.op \in {"grant", "take"} -> "get"
                 [] a.op \in {"store", "open"} -> "guard"
                 [] a.op = "delete" -> "init"
                 [] a.op = "find" -> "find"
                 [] a.op = "run" -> "reduce")
    /\ UNCHANGED <<credits, gallery, accounts, todo, snap, history, faults>>

\* Where a request stands once its credits are moved and recorded.
AfterCharge(r) == IF Op(r) = "open" THEN "link" ELSE "idle"

\* handleIncreaseCredits, handleDecreaseCredits: a user without row gets one, ...
Move(op) == IF op = "grant" THEN "increase" ELSE "reduce"

\* The row of u, if there is one.
Get(u) == {balance[v] : v \in known \cap {u}}

GetUser(r) ==
    /\ pc[r] = "get"
    /\ GoTo(r, IF Get(User(r)) = {} THEN "create" ELSE Move(Op(r)))
    /\ UNCHANGED <<credits, gallery, accounts, ask, todo, snap, history, faults>>

\* ... unless somebody else was faster, without credits and so without history.
CreateUser(r) ==
    /\ pc[r] = "create"
    /\ known' = known \cup {User(r)}
    /\ GoTo(r, Move(Op(r)))
    /\ UNCHANGED <<balance, ledger, gallery, accounts, ask, todo, snap, history, faults>>

\* What r has yet to record.
Owes(r, kinds) ==
    /\ todo' = [todo EXCEPT ![r] = kinds]
    /\ GoTo(r, IF kinds = {} THEN AfterCharge(r) ELSE "record")

\* Amounts are added kind by kind.
Plus(row, delta) == [k \in Kinds |-> row[k] + delta[k]]

\* _increaseCredits: one statement, that inserts or adds.
Increase(r) ==
    /\ pc[r] = "increase"
    /\ known' = known \cup {User(r)}
    /\ balance' = [balance EXCEPT ![User(r)] = Plus(@, Delta["grant"])]
    /\ Owes(r, Moved("grant"))
    /\ UNCHANGED <<ledger, gallery, accounts, ask, snap, history, faults>>

\* The balance of u covers what op takes, and there is a row to take it from.
Covers(u, op) == u \in known /\ \A k \in Kinds : balance[u][k] >= Delta[op][k]

\* _reduceCredits: one statement, that takes what the balance covers ...
Reduce(r) ==
    /\ pc[r] = "reduce"
    /\ Covers(User(r), Op(r))
    /\ balance' = [balance EXCEPT ![User(r)] = [k \in Kinds |-> @[k] - Delta[Op(r)][k]]]
    /\ Owes(r, Moved(Op(r)))
    /\ repeated' = IF Op(r) # "run" THEN repeated
                   ELSE repeated \cup
                       {u \in {User(r)} : \/ \E e \in ledger : e.user = u /\ e.ref = "node"
                                          \/ \E q \in Requests \ {r} :
                                                 /\ pc[q] = "record" /\ Op(q) = "run"
                                                 /\ User(q) = u}
    /\ UNCHANGED <<known, ledger, gallery, accounts, ask, snap, past, torn, unpaid, stale,
                   faults>>

\* ... and else throws.  An image is stored by then, and stays.
ReduceThrows(r) ==
    /\ pc[r] = "reduce"
    /\ ~Covers(User(r), Op(r))
    /\ GoTo(r, "idle")
    /\ unpaid' = unpaid \cup (IF Op(r) = "store" THEN {r} ELSE {})
    /\ UNCHANGED <<credits, gallery, accounts, ask, todo, snap, past, torn, repeated,
                   stale, faults>>

\* A transaction whose key is in the history is not written again.
CreateConfirmed(e) ==
    /\ Valid(e)
    /\ ledger' = IF \E d \in ledger : Key(d) = Key(e) THEN ledger ELSE ledger \cup {e}

\* Mutant of Credit: what is added is recorded for one kind only.
CreditOnce(r) ==
    /\ pc[r] = "record" /\ Op(r) = "grant"
    /\ CreateConfirmed(Entry(r, First(todo[r])))
    /\ Owes(r, {})
    /\ UNCHANGED <<known, balance, gallery, accounts, ask, snap, history, faults>>

\* What was added is recorded, kind by kind ...
Credit(r) ==
    /\ pc[r] = "record" /\ Op(r) = "grant"
    /\ LET k == First(todo[r])
       IN CreateConfirmed(Entry(r, k)) /\ Owes(r, todo[r] \ {k})
    /\ UNCHANGED <<known, balance, gallery, accounts, ask, snap, history, faults>>

\* ... and so is what was taken.
Debit(r) ==
    /\ pc[r] = "record" /\ Op(r) # "grant"
    /\ LET k == First(todo[r])
       IN CreateConfirmed(Entry(r, k)) /\ Owes(r, todo[r] \ {k})
    /\ UNCHANGED <<known, balance, gallery, accounts, ask, snap, history, faults>>
-------------------------------------------------------------------------------
\* The kind of credits a user must have one of.
Needs(op) == IF op = "store" THEN "unified" ELSE "cdp"

\* The middlewares of storeImage and of opening an account.
Guard(r) ==
    /\ pc[r] = "guard"
    /\ GoTo(r, IF \A row \in Get(User(r)) : row[Needs(Op(r))] < 1 THEN "idle"
               ELSE IF Op(r) = "store" THEN "init" ELSE "exists")
    /\ UNCHANGED <<credits, gallery, accounts, ask, todo, snap, history, faults>>

\* The images of u.
Of(u, pictures) == {p \in pictures : p[1] = u}

\* The first call of the image store: a store that is initialised is used, ...
Use(r) == IF Op(r) = "store" THEN "look" ELSE "remove"

EnsureInitialized(r) ==
    /\ pc[r] = "init"
    /\ Server(r) \in ready
    /\ GoTo(r, Use(r))
    /\ UNCHANGED <<credits, gallery, accounts, ask, todo, snap, history, faults>>

\* ... another one counts the images, ...
Preload(r) ==
    /\ pc[r] = "init"
    /\ Server(r) \notin ready
    /\ snap' = [snap EXCEPT ![r] = images]
    /\ GoTo(r, "load")
    /\ UNCHANGED <<credits, gallery, accounts, ask, todo, history, faults>>

\* Who has changed the images of a user, and not yet the count of s.
Counting(s) == {r \in Requests : pc[r] \in {"count", "uncount"} /\ Server(r) = s}

\* ... and is initialised, even if another request has done so meanwhile.
Initialize(r) ==
    /\ pc[r] = "load"
    /\ count' = [count EXCEPT ![Server(r)] = [u \in Users |-> Cardinality(Of(u, snap[r]))]]
    /\ ready' = ready \cup {Server(r)}
    /\ stale' = IF snap[r] = images /\ Counting(Server(r)) = {} THEN stale \ {Server(r)}
                ELSE stale \cup {Server(r)}
    /\ GoTo(r, Use(r))
    /\ UNCHANGED <<credits, images, accounts, ask, todo, snap, past, torn, repeated, unpaid,
                   faults>>

\* handleStoreImage: 409 if the image is there, ...
Look(r) ==
    /\ pc[r] = "look"
    /\ GoTo(r, IF Picture(r) \in images THEN "idle" ELSE "insert")
    /\ UNCHANGED <<credits, gallery, accounts, ask, todo, snap, history, faults>>

\* The counts of the other servers do not follow.
Overtake(r) == stale' = stale \cup (Servers \ {Server(r)})

\* Mutant of Insert: a request that finds the image there goes on.
InsertOver(r) ==
    /\ pc[r] = "insert"
    /\ images' = images \cup {Picture(r)}
    /\ maker' = [p \in images \cup {Picture(r)} |->
                    IF p \in images THEN maker[p] ELSE r]
    /\ Overtake(r)
    /\ GoTo(r, "count")
    /\ UNCHANGED <<credits, ready, count, accounts, ask, todo, snap, gone, torn, repeated,
                   unpaid, faults>>

\* ... and again if it came meanwhile; else it is stored, ...
Insert(r) ==
    /\ pc[r] = "insert"
    /\ IF Picture(r) \in images
       THEN GoTo(r, "idle") /\ UNCHANGED <<images, maker, stale>>
       ELSE /\ images' = images \cup {Picture(r)}
            /\ maker' = [p \in images \cup {Picture(r)} |->
                            IF p \in images THEN maker[p] ELSE r]
            /\ Overtake(r)
            /\ GoTo(r, "count")
    /\ UNCHANGED <<credits, ready, count, accounts, ask, todo, snap, gone, torn, repeated,
                   unpaid, faults>>

\* ... counted, and then paid for.
Count(r) ==
    /\ pc[r] = "count"
    /\ count' = [count EXCEPT ![Server(r)][User(r)] = @ + 1]
    /\ GoTo(r, "reduce")
    /\ UNCHANGED <<credits, images, ready, accounts, ask, todo, snap, history, faults>>

\* deleteImage: 404 if there is none, or it goes ...
Delete(r) ==
    /\ pc[r] = "remove"
    /\ IF Picture(r) \notin images
       THEN GoTo(r, "idle") /\ UNCHANGED <<images, past, stale>>
       ELSE /\ images' = images \ {Picture(r)}
            /\ gone' = gone \cup {Picture(r)}
            /\ maker' = [p \in images \ {Picture(r)} |-> maker[p]]
            /\ Overtake(r)
            /\ GoTo(r, "uncount")
    /\ UNCHANGED <<credits, ready, count, accounts, ask, todo, snap, torn, repeated, unpaid,
                   faults>>

\* Mutant of Uncount: an image that goes is not counted off.
UncountNothing(r) ==
    /\ pc[r] = "uncount"
    /\ GoTo(r, "idle")
    /\ UNCHANGED <<credits, gallery, accounts, ask, todo, snap, history, faults>>

\* ... and is counted off, as far as zero: one that is not counted yet stays counted.
Uncount(r) ==
    /\ pc[r] = "uncount"
    /\ LET n == count[Server(r)][User(r)]
       IN /\ count' = [count EXCEPT ![Server(r)][User(r)] = IF n = 0 THEN 0 ELSE n - 1]
          /\ stale' = IF n = 0 THEN stale \cup {Server(r)} ELSE stale
    /\ GoTo(r, "idle")
    /\ UNCHANGED <<credits, images, ready, accounts, ask, todo, snap, past, torn, repeated,
                   unpaid, faults>>
-------------------------------------------------------------------------------
\* GET /account: nothing to do for a user without account at Coinbase.
GetAccount(r) ==
    /\ pc[r] = "find"
    /\ GoTo(r, IF User(r) \in coinbase THEN "exists" ELSE "idle")
    /\ UNCHANGED <<credits, gallery, accounts, ask, todo, snap, history, faults>>

\* CdpAccountStore.exists says yes, whatever the lookup returns.  So the account is not
\* paid for, and GET does not add the row that is missing.
Exists(r) ==
    /\ pc[r] = "exists"
    /\ GoTo(r, IF Op(r) = "open" THEN "free" ELSE "idle")
    /\ UNCHANGED <<credits, gallery, accounts, ask, todo, snap, history, faults>>

\* It says no when the lookup throws.
ExistsThrows(r) ==
    /\ pc[r] = "exists"
    /\ Fault
    /\ GoTo(r, IF Op(r) = "open" THEN "charged" ELSE "link")
    /\ UNCHANGED <<credits, gallery, accounts, ask, todo, snap, history>>

\* The account is created or found.
CreateOrGetAccount(r) ==
    /\ pc[r] \in {"free", "charged"}
    /\ coinbase' = coinbase \cup {User(r)}
    /\ GoTo(r, IF pc[r] = "free" THEN "link" ELSE "reduce")
    /\ UNCHANGED <<credits, gallery, linked, ask, todo, snap, history, faults>>

\* Its name is stored, if it is not there.
StoreAccount(r) ==
    /\ pc[r] = "link"
    /\ linked' = linked \cup {User(r)}
    /\ GoTo(r, "idle")
    /\ UNCHANGED <<credits, gallery, coinbase, ask, todo, snap, history, faults>>
-------------------------------------------------------------------------------
\* What is lost when r gets no further.
Abandon(rs) ==
    /\ pc' = [r \in Requests |-> IF r \in rs THEN "idle" ELSE pc[r]]
    /\ todo' = [r \in Requests |-> IF r \in rs THEN {} ELSE todo[r]]
    /\ torn' = torn \cup {User(r) : r \in {q \in rs : pc[q] = "record"}}
    /\ unpaid' = unpaid \cup {r \in rs : Op(r) = "store" /\ pc[r] \in {"count", "reduce"}}

\* A call of r fails, or its answer is lost: the handler throws.
CallThrows(r) ==
    /\ pc[r] # "idle"
    /\ Fault
    /\ Abandon({r})
    /\ stale' = stale \cup (IF pc[r] \in {"count", "uncount"} THEN {Server(r)} ELSE {})
    /\ UNCHANGED <<credits, gallery, accounts, ask, snap, past, repeated>>

\* A server dies with its requests, and starts again.
Crash(s) ==
    /\ \E r \in Requests : pc[r] # "idle" /\ Server(r) = s
    /\ Fault
    /\ Abandon({r \in Requests : pc[r] # "idle" /\ Server(r) = s})
    /\ ready' = ready \ {s}
    /\ stale' = stale \ {s}
    /\ UNCHANGED <<credits, images, count, accounts, ask, snap, past, repeated>>
-------------------------------------------------------------------------------
Credits(r) ==
    GetUser(r) \/ CreateUser(r) \/ Increase(r) \/ Reduce(r) \/ ReduceThrows(r)
        \/ Credit(r) \/ Debit(r)

ImageStore(r) ==
    EnsureInitialized(r) \/ Preload(r) \/ Initialize(r) \/ Look(r) \/ Insert(r) \/ Count(r)
        \/ Delete(r) \/ Uncount(r)

Coinbase(r) == GetAccount(r) \/ Exists(r) \/ CreateOrGetAccount(r) \/ StoreAccount(r)

Step(r) ==
    (\E a \in Asks : Begin(r, a)) \/ Credits(r) \/ Guard(r) \/ ImageStore(r) \/ Coinbase(r)

Failure ==
    \/ \E r \in Requests : ExistsThrows(r) \/ CallThrows(r)
    \/ \E s \in Servers : Crash(s)

Next == (\E r \in Requests : Step(r)) \/ Failure

Spec == Init /\ [][Next]_vars
-------------------------------------------------------------------------------
TypeOK ==
    /\ known \subseteq Users
    /\ balance \in [Users -> [Kinds -> Nat]]
    /\ ledger \subseteq [user : Users, credit : BOOLEAN, kind : Kinds, amount : Nat \ {0},
                         ref : Requests \cup {"first", "node"}]
    /\ images \subseteq Users \X Images
    /\ ready \subseteq Servers
    /\ count \in [Servers -> [Users -> Nat]]
    /\ coinbase \subseteq Users /\ linked \subseteq Users
    /\ ask \in [Requests -> Asks \cup {None}]
    /\ pc \in [Requests -> Pcs]
    /\ \A r \in Requests : pc[r] # "idle" => ask[r] # None
    /\ todo \in [Requests -> SUBSET Kinds]
    /\ \A r \in Requests : pc[r] = "record" <=> todo[r] # {}
    /\ snap \in [Requests -> SUBSET (Users \X Images)]
    /\ maker \in [images -> Requests] /\ gone \subseteq Users \X Images
    /\ torn \subseteq Users /\ repeated \subseteq Users
    /\ unpaid \subseteq Requests
    /\ stale \subseteq Servers
    /\ faults \in Nat

Signed(e) == IF e.credit THEN e.amount ELSE -e.amount

\* What the transactions in entries add up to, for a user and a kind.
Total(u, k, entries) == MapThenSumSet(Signed, {e \in entries : e.user = u /\ e.kind = k})

\* The transactions that requests have yet to record.
Pending == UNION {{Entry(r, k) : k \in todo[r]} : r \in {q \in Requests : pc[q] = "record"}}

(***************************************************************************)
(* A balance is what the history says, and what is about to be recorded,   *)
(* although the two are written one after the other and nothing is around  *)
(* them, unless a fault fell between them or two workers charged the same  *)
(* node: the balance pays twice and the history says it once.              *)
(***************************************************************************)
BalanceIsHistory ==
    \A u \in Users \ (torn \cup repeated), k \in Kinds :
        balance[u][k] = Total(u, k, ledger \cup Pending)

\* r was charged for its image, or is about to be.
Pays(r) ==
    \/ pc[r] \in {"count", "reduce", "record"}
    \/ Moved("store") = {}
    \/ \E e \in ledger : e.ref = r

\* The requests that were charged for storing p.
Payers(p) ==
    {r \in Requests : /\ ask[r] # None /\ Op(r) = "store" /\ Picture(r) = p
                      /\ pc[r] = "record" \/ \E e \in ledger : e.ref = r}

(***************************************************************************)
(* An image that is stored is paid for by the request that stored it,      *)
(* unless that one failed after storing it or its user had less than the   *)
(* price (the guard asks for one credit).  However many requests store an  *)
(* image at once, by whatever servers, no two of them pay for it, unless   *)
(* it was deleted in between.                                              *)
(***************************************************************************)
PaidFor ==
    /\ \A p \in images : Pays(maker[p]) \/ maker[p] \in unpaid \/ p[1] \in torn
    /\ \A p \in (Users \X Images) \ gone : \A q, r \in Payers(p) : q = r

(***************************************************************************)
(* The counts of a server are right, but for what its requests are about   *)
(* to count, unless another server changed the images, two requests        *)
(* initialised the store at once, an image went before it was counted, or  *)
(* a call failed that had its effect.                                      *)
(***************************************************************************)
CountIsRows ==
    \A s \in ready \ stale, u \in Users :
        LET At(where) == {r \in Requests : pc[r] = where /\ Server(r) = s /\ User(r) = u}
        IN  count[s][u] + Cardinality(At("count")) - Cardinality(At("uncount"))
                = Cardinality(Of(u, images))

===============================================================================
