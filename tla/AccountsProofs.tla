----------------------------- MODULE AccountsProofs -----------------------------
(***************************************************************************)
(* Theorems about Accounts, for any users, images, servers, prices and     *)
(* initial credits, any finite set of requests and any number of faults.   *)
(*                                                                         *)
(* The balances are compared with a sum over the history, which is defined *)
(* by a fold.  The first part shows what the proofs need of such a sum; an *)
(* induction over the set is a proof that there is no smallest subset for  *)
(* which the fact is wrong.                                                *)
(***************************************************************************)
EXTENDS Accounts, FiniteSetTheorems, WellFoundedInduction, TLAPS

-------------------------------------------------------------------------------
\* The sum of what the transactions in S say.
Sum(S) == MapThenSumSet(Signed, S)

Some(S) == CHOOSE e \in S : TRUE

\* g sums the subsets of S, one element after the other, as the fold does.
Sums(g, S) ==
    g = [T \in SUBSET S |-> IF T = {} THEN 0 ELSE Signed(Some(T)) + g[T \ {Some(T)}]]

Iterated(S) == CHOOSE g : Sums(g, S)

LEMMA SumIsIterated == ASSUME NEW S PROVE Sum(S) = Iterated(S)[S]
BY Zenon DEF Sum, MapThenSumSet, MapThenFoldSet, Iterated, Sums, Some

LEMMA SomeIsIn == ASSUME NEW S, S # {} PROVE Some(S) \in S
BY DEF Some

\* Of some subsets of a finite set, one is the smallest.
LEMMA SmallestSet ==
    ASSUME NEW S, IsFiniteSet(S), NEW Bad \in SUBSET SUBSET S, Bad # {}
    PROVE  \E T \in Bad : \A U \in (SUBSET T) \ {T} : U \notin Bad
<1>1. IsWellFoundedOn(StrictSubsetOrdering(S), FiniteSubsetsOf(S))
  BY FS_StrictSubsetOrderingWellFounded
<1>2. Bad \subseteq FiniteSubsetsOf(S)
  BY FS_FiniteSubsetsOfFinite
<1>3. PICK T \in Bad : \A U \in Bad : <<U, T>> \notin StrictSubsetOrdering(S)
  BY <1>1, <1>2, WFMin
<1>4. QED
  BY <1>3 DEF StrictSubsetOrdering

\* Two such functions agree where both are defined.
LEMMA SumsAgree ==
    ASSUME NEW S, IsFiniteSet(S), NEW A, NEW B, S \subseteq A, S \subseteq B,
           NEW g, NEW h, Sums(g, A), Sums(h, B)
    PROVE  g[S] = h[S]
<1> DEFINE Bad == {T \in SUBSET S : g[T] # h[T]}
<1>1. SUFFICES ASSUME Bad # {} PROVE FALSE
  OBVIOUS
<1>2. PICK T \in Bad : \A U \in (SUBSET T) \ {T} : U \notin Bad
  <2> HIDE DEF Bad
  <2>1. Bad \in SUBSET SUBSET S
    BY DEF Bad
  <2>2. QED
    BY <1>1, <2>1, SmallestSet
<1>3. T \in SUBSET A /\ T \in SUBSET B
  OBVIOUS
<1>4. /\ g[T] = IF T = {} THEN 0 ELSE Signed(Some(T)) + g[T \ {Some(T)}]
      /\ h[T] = IF T = {} THEN 0 ELSE Signed(Some(T)) + h[T \ {Some(T)}]
  BY <1>3 DEF Sums
<1>5. T # {}
  BY <1>2, <1>4
<1>6. T \ {Some(T)} \in (SUBSET T) \ {T}
  BY <1>5, SomeIsIn
<1>7. g[T \ {Some(T)}] = h[T \ {Some(T)}]
  BY <1>2, <1>6
<1>8. QED
  BY <1>2, <1>4, <1>7

\* There is one for every finite set.
LEMMA SumsExist ==
    ASSUME NEW S, IsFiniteSet(S)
    PROVE  Sums(Iterated(S), S)
<1> DEFINE Bad == {T \in SUBSET S : ~Sums(Iterated(T), T)}
<1>1. SUFFICES ASSUME Bad # {} PROVE FALSE
  OBVIOUS
<1>2. PICK T \in Bad : \A U \in (SUBSET T) \ {T} : U \notin Bad
  <2> HIDE DEF Bad
  <2>1. Bad \in SUBSET SUBSET S
    BY DEF Bad
  <2>2. QED
    BY <1>1, <2>1, SmallestSet
<1> DEFINE Rest(U) == U \ {Some(U)}
           g == [U \in SUBSET T |-> IF U = {} THEN 0
                                    ELSE Signed(Some(U)) + Iterated(Rest(U))[Rest(U)]]
<1>3. \A U \in SUBSET T : U # {} => Rest(U) \in (SUBSET T) \ {T} /\ Rest(U) \in SUBSET U
  BY SomeIsIn
<1>4. \A U \in (SUBSET T) \ {T} : Sums(Iterated(U), U) /\ IsFiniteSet(U)
  <2>1. ASSUME NEW U \in (SUBSET T) \ {T} PROVE U \in SUBSET S
    OBVIOUS
  <2>2. QED
    BY <1>2, <2>1, FS_Subset
<1>5. ASSUME NEW U \in (SUBSET T) \ {T}
      PROVE  g[U] = Iterated(U)[U]
  <2>1. Iterated(U)[U] = IF U = {} THEN 0 ELSE Signed(Some(U)) + Iterated(U)[Rest(U)]
    BY <1>4 DEF Sums
  <2>2. CASE U = {}
    BY <2>1, <2>2
  <2>3. CASE U # {}
    <3>1. Rest(U) \in (SUBSET T) \ {T} /\ Rest(U) \in SUBSET U
      BY <1>3, <2>3
    <3> DEFINE V == Rest(U)
    <3>2. /\ IsFiniteSet(V) /\ V \subseteq U
          /\ Sums(Iterated(U), U) /\ Sums(Iterated(V), V)
      BY <1>4, <3>1
    <3> HIDE DEF V
    <3>3. Iterated(U)[V] = Iterated(V)[V]
      BY <3>2, SumsAgree
    <3>4. g[U] = Signed(Some(U)) + Iterated(V)[V]
      BY <2>3 DEF V
    <3>5. QED
      BY <2>1, <2>3, <3>3, <3>4 DEF V
  <2>4. QED
    BY <2>2, <2>3
<1>6. g = [U \in SUBSET T |-> IF U = {} THEN 0 ELSE Signed(Some(U)) + g[U \ {Some(U)}]]
  <2>1. ASSUME NEW U \in SUBSET T, U # {}
        PROVE  Iterated(Rest(U))[Rest(U)] = g[U \ {Some(U)}]
    <3>1. Rest(U) \in (SUBSET T) \ {T}
      BY <1>3, <2>1
    <3>2. QED
      BY <1>5, <3>1
  <2>2. QED
    BY <2>1
<1>7. Sums(Iterated(T), T)
  <2>1. Sums(g, T)
    BY <1>6 DEF Sums
  <2> HIDE DEF g
  <2>2. QED
    BY <2>1 DEF Iterated
<1>8. QED
  BY <1>2, <1>7

\* The sum of a set takes one of its elements, and the sum of the others.
LEMMA SumStep ==
    ASSUME NEW S, IsFiniteSet(S)
    PROVE  Sum(S) = IF S = {} THEN 0 ELSE Signed(Some(S)) + Sum(S \ {Some(S)})
<1> DEFINE R == S \ {Some(S)}
<1>1. Iterated(S)[S] = IF S = {} THEN 0 ELSE Signed(Some(S)) + Iterated(S)[R]
  BY SumsExist DEF Sums
<1>2. Iterated(S)[R] = Iterated(R)[R]
  <2>1. IsFiniteSet(R) /\ R \subseteq S
    BY FS_RemoveElement
  <2> HIDE DEF R
  <2>2. Sums(Iterated(S), S) /\ Sums(Iterated(R), R)
    BY <2>1, SumsExist
  <2>3. QED
    BY <2>1, <2>2, SumsAgree
<1>3. QED
  BY <1>1, <1>2, SumIsIterated

LEMMA SumType ==
    ASSUME NEW S, IsFiniteSet(S), \A e \in S : Signed(e) \in Int
    PROVE  Sum(S) \in Int
<1> DEFINE Bad == {T \in SUBSET S : Sum(T) \notin Int}
<1>1. SUFFICES ASSUME Bad # {} PROVE FALSE
  OBVIOUS
<1>2. PICK T \in Bad : \A U \in (SUBSET T) \ {T} : U \notin Bad
  <2> HIDE DEF Bad
  <2>1. Bad \in SUBSET SUBSET S
    BY DEF Bad
  <2>2. QED
    BY <1>1, <2>1, SmallestSet
<1>3. Sum(T) = IF T = {} THEN 0 ELSE Signed(Some(T)) + Sum(T \ {Some(T)})
  <2>1. IsFiniteSet(T)
    BY FS_Subset
  <2>2. QED
    BY <2>1, SumStep
<1>4. T # {}
  BY <1>2, <1>3
<1>5. Some(T) \in T /\ T \ {Some(T)} \in (SUBSET T) \ {T}
  BY <1>4, SomeIsIn
<1>6. Sum(T \ {Some(T)}) \in Int /\ Signed(Some(T)) \in Int
  BY <1>2, <1>5
<1>7. QED
  BY <1>2, <1>3, <1>6

\* In whatever order the elements are taken.
LEMMA SumTakes ==
    ASSUME NEW S, IsFiniteSet(S), \A e \in S : Signed(e) \in Int, NEW d \in S
    PROVE  Sum(S) = Signed(d) + Sum(S \ {d})
<1> DEFINE Bad == {T \in SUBSET S : \E e \in T : Sum(T) # Signed(e) + Sum(T \ {e})}
<1>1. SUFFICES ASSUME Bad # {} PROVE FALSE
  OBVIOUS
<1>2. PICK T \in Bad : \A U \in (SUBSET T) \ {T} : U \notin Bad
  <2> HIDE DEF Bad
  <2>1. Bad \in SUBSET SUBSET S
    BY DEF Bad
  <2>2. QED
    BY <1>1, <2>1, SmallestSet
<1>3. PICK e \in T : Sum(T) # Signed(e) + Sum(T \ {e})
  BY <1>2
<1>4. Some(T) \in T
  BY SomeIsIn
<1> DEFINE c == Some(T)
           Both == T \ {c, e}
<1>5. /\ IsFiniteSet(T) /\ IsFiniteSet(T \ {e}) /\ IsFiniteSet(T \ {c}) /\ IsFiniteSet(Both)
  <2>1. T \in SUBSET S /\ T \ {e} \in SUBSET S /\ T \ {c} \in SUBSET S /\ Both \in SUBSET S
    OBVIOUS
  <2> HIDE DEF c, Both
  <2>2. QED
    BY <2>1, FS_Subset
<1>6. Sum(T) = Signed(c) + Sum(T \ {c})
  BY <1>4, <1>5, SumStep
<1>7. c # e
  BY <1>3, <1>6
<1>8. \A U \in (SUBSET T) \ {T} : \A x \in U : Sum(U) = Signed(x) + Sum(U \ {x})
  BY <1>2
<1>9. Sum(T \ {c}) = Signed(e) + Sum(Both)
  <2>1. T \ {c} \in (SUBSET T) \ {T} /\ e \in T \ {c} /\ (T \ {c}) \ {e} = Both
    BY <1>4, <1>7
  <2> HIDE DEF c, Both
  <2>2. QED
    BY <1>8, <2>1
<1>10. Sum(T \ {e}) = Signed(c) + Sum(Both)
  <2>1. T \ {e} \in (SUBSET T) \ {T} /\ c \in T \ {e} /\ (T \ {e}) \ {c} = Both
    BY <1>4, <1>7
  <2> HIDE DEF c, Both
  <2>2. QED
    BY <1>8, <2>1
<1>11. Signed(c) \in Int /\ Signed(e) \in Int /\ Sum(Both) \in Int
  <2>1. Both \in SUBSET S /\ c \in S
    BY <1>4
  <2> HIDE DEF c, Both
  <2>2. QED
    BY <1>5, <2>1, SumType
<1>12. QED
  <2> HIDE DEF c, Both
  <2> QED
    BY <1>3, <1>6, <1>9, <1>10, <1>11

\* What the proofs need: the sum of nothing, and of one element more.
LEMMA SumOfNone == Sum({}) = 0
BY SumStep, FS_EmptySet

LEMMA SumAdds ==
    ASSUME NEW S, IsFiniteSet(S), \A e \in S : Signed(e) \in Int,
           NEW d, Signed(d) \in Int, d \notin S
    PROVE  Sum(S \cup {d}) = Sum(S) + Signed(d)
<1>1. IsFiniteSet(S \cup {d}) /\ (S \cup {d}) \ {d} = S
  BY FS_AddElement
<1>2. Sum(S \cup {d}) = Signed(d) + Sum(S)
  BY <1>1, SumTakes
<1>3. Sum(S) \in Int
  BY SumType
<1>4. \A m, n \in Int : m + n = n + m
  OBVIOUS
<1>5. QED
  BY <1>2, <1>3, <1>4, Zenon
-------------------------------------------------------------------------------
\* What may have been asked of a request that stands somewhere.
Fits(op, where) ==
    /\ where \in {"get", "create"} => op \in {"grant", "take"}
    /\ where = "increase" => op = "grant"
    /\ where = "reduce" => op \in {"take", "store", "open", "run"}
    /\ where = "guard" => op \in {"store", "open"}
    /\ where \in {"init", "load"} => op \in {"store", "delete"}
    /\ where \in {"look", "insert", "count"} => op = "store"
    /\ where \in {"remove", "uncount"} => op = "delete"
    /\ where = "find" => op = "find"
    /\ where = "exists" => op \in {"open", "find"}
    /\ where \in {"charged", "free"} => op = "open"

Standing == \A r \in Requests : Fits(Op(r), pc[r])

\* A request records each kind once.
Recorded ==
    \A r \in Requests, e \in ledger :
       e.ref = r => ask[r] # None /\ pc[r] \in {"record", "link", "idle"} /\ e.kind \notin todo[r]

Charging(r) == pc[r] = "record" /\ Op(r) = "run"

\* A user who is charged for the node once is charged by one request.
ChargedOnce ==
    \A r \in Requests : Charging(r) /\ User(r) \notin repeated =>
       /\ \A q \in Requests : Charging(q) /\ User(q) = User(r) => q = r
       /\ \A e \in ledger : e.user = User(r) /\ e.ref = "node" => e.kind \notin todo[r]

\* The transactions of a user and a kind, written or about to be.
Said(u, k) == {e \in ledger \cup Pending : e.user = u /\ e.kind = k}

Balanced ==
    \A u \in Users \ (torn \cup repeated), k \in Kinds :
       IsFiniteSet(Said(u, k)) /\ balance[u][k] = Sum(Said(u, k))

\* The request that stored an image was asked to.
Made ==
    \A p \in images : LET r == maker[p]
                      IN  ask[r] # None /\ Op(r) = "store" /\ Picture(r) = p

\* A request that is charged for an image, or is about to be, has stored it, and it is there
\* unless it was deleted.
Kept ==
    \A r \in Requests :
       /\ ask[r] # None /\ Op(r) = "store"
       /\ pc[r] \in {"count", "reduce", "record"} \/ \E e \in ledger : e.ref = r
       => \/ Picture(r) \in images /\ maker[Picture(r)] = r
          \/ Picture(r) \in gone

\* What is counted can be.
Countable == IsFiniteSet(images) /\ \A r \in Requests : IsFiniteSet(snap[r])

\* The inductive invariant of the types.
TypeInv == TypeOK /\ Standing /\ Countable
-------------------------------------------------------------------------------
\* r goes on, and nothing changes that is counted or paid.
Walks(r) ==
    /\ pc[r] \notin {"idle", "increase", "reduce", "record", "count", "uncount"}
    /\ \E where \in Pcs \ {"record", "count", "uncount"} :
          /\ GoTo(r, where) /\ Fits(Op(r), where)
          /\ where = "reduce" => Op(r) # "store"
          /\ pc[r] = "link" => where = "idle"
    /\ UNCHANGED <<balance, ledger, images, ready, count, ask, todo, history>>

\* The next transaction of r is written.
Records(r) ==
    /\ pc[r] = "record"
    /\ \E k \in todo[r] : CreateConfirmed(Entry(r, k)) /\ Owes(r, todo[r] \ {k})
    /\ UNCHANGED <<known, balance, gallery, accounts, ask, snap, history, faults>>

\* Some requests get no further.
Abandons(rs) ==
    /\ Abandon(rs)
    /\ UNCHANGED <<credits, images, count, accounts, ask, snap, past, repeated>>

LEMMA WhoWalks ==
    ASSUME TypeInv, NEW r \in Requests,
           \/ GetUser(r) \/ CreateUser(r) \/ Guard(r) \/ EnsureInitialized(r) \/ Preload(r)
           \/ Look(r) \/ Coinbase(r) \/ ExistsThrows(r)
           \/ Insert(r) /\ Picture(r) \in images
           \/ Delete(r) /\ Picture(r) \notin images
    PROVE  Walks(r)
<1>1. Fits(Op(r), pc[r]) /\ pc[r] \in Pcs
  BY DEF TypeInv, Standing, TypeOK
<1>2. CASE GetUser(r)
  BY <1>1, <1>2 DEF GetUser, Walks, Fits, Move, GoTo, Pcs, credits, gallery, accounts, history
<1>3. CASE CreateUser(r)
  BY <1>1, <1>3 DEF CreateUser, Walks, Fits, Move, GoTo, Pcs, gallery, accounts, history
<1>4. CASE Guard(r)
  BY <1>1, <1>4 DEF Guard, Walks, Fits, GoTo, Pcs, credits, gallery, accounts, history
<1>5. CASE EnsureInitialized(r) \/ Preload(r)
  BY <1>1, <1>5
  DEF EnsureInitialized, Preload, Use, Walks, Fits, GoTo, Pcs, credits, gallery, accounts,
      history
<1>6. CASE Look(r)
  <2>1. GoTo(r, "idle") \/ GoTo(r, "insert")
    BY <1>6 DEF Look
  <2>2. QED
    BY <1>1, <1>6, <2>1 DEF Look, Walks, Fits, Pcs, credits, gallery, accounts, history
<1>7. CASE GetAccount(r)
  <2>1. GoTo(r, "idle") \/ (GoTo(r, "exists") /\ pc[r] = "find")
    BY <1>7 DEF GetAccount
  <2>2. QED
    BY <1>1, <1>7, <2>1 DEF GetAccount, Walks, Fits, Pcs, credits, gallery, accounts, history
<1>8. CASE Exists(r) \/ ExistsThrows(r)
  <2>1. \/ GoTo(r, "idle") \/ GoTo(r, "link")
        \/ Op(r) = "open" /\ (GoTo(r, "free") \/ GoTo(r, "charged"))
    BY <1>8 DEF Exists, ExistsThrows
  <2>2. QED
    BY <1>1, <1>8, <2>1
    DEF Exists, ExistsThrows, Walks, Fits, Pcs, credits, gallery, accounts, history
<1>9. CASE CreateOrGetAccount(r) \/ StoreAccount(r)
  BY <1>1, <1>9
  DEF CreateOrGetAccount, StoreAccount, Walks, Fits, GoTo, Pcs, credits, gallery, accounts,
      history
<1>10. CASE Insert(r) /\ Picture(r) \in images
  BY <1>1, <1>10 DEF Insert, Walks, Fits, GoTo, Pcs, credits, history, past
<1>11. CASE Delete(r) /\ Picture(r) \notin images
  BY <1>1, <1>11 DEF Delete, Walks, Fits, GoTo, Pcs, credits, history, past
<1>12. QED
  BY <1>2, <1>3, <1>4, <1>5, <1>6, <1>7, <1>8, <1>9, <1>10, <1>11 DEF Coinbase

LEMMA WhoRecords ==
    ASSUME TypeInv, NEW r \in Requests, Credit(r) \/ Debit(r)
    PROVE  Records(r)
<1>1. pc[r] = "record" /\ todo[r] # {} /\ todo[r] \subseteq Kinds
  BY DEF Credit, Debit, TypeInv, TypeOK
<1>2. First(todo[r]) \in todo[r]
  BY <1>1 DEF First, Kinds
<1>3. QED
  BY <1>1, <1>2 DEF Credit, Debit, Records

LEMMA WhoAbandons ==
    ASSUME (\E r \in Requests : CallThrows(r)) \/ (\E s \in Servers : Crash(s))
    PROVE  \E rs \in SUBSET Requests : Abandons(rs)
<1>1. CASE \E r \in Requests : CallThrows(r)
  BY <1>1 DEF CallThrows, Abandons, gallery
<1>2. CASE \E s \in Servers : Crash(s)
  BY <1>2 DEF Crash, Abandons
<1>3. QED
  BY <1>1, <1>2

\* What can happen.
LEMMA StepCases ==
    ASSUME TypeInv, [Next]_vars
    PROVE  \/ UNCHANGED vars
           \/ \E r \in Requests, a \in Asks : Begin(r, a)
           \/ \E r \in Requests :
                 \/ Walks(r) \/ Increase(r) \/ Reduce(r) \/ ReduceThrows(r) \/ Records(r)
                 \/ Initialize(r) \/ Count(r) \/ Uncount(r)
                 \/ Insert(r) /\ Picture(r) \notin images
                 \/ Delete(r) /\ Picture(r) \in images
           \/ \E r \in Requests : CallThrows(r)
           \/ \E s \in Servers : Crash(s)
<1>1. CASE \E r \in Requests : Credits(r)
  BY <1>1, WhoWalks, WhoRecords DEF Credits
<1>2. CASE \E r \in Requests : Guard(r) \/ Coinbase(r) \/ ExistsThrows(r)
  BY <1>2, WhoWalks
<1>3. CASE \E r \in Requests : ImageStore(r)
  BY <1>3, WhoWalks DEF ImageStore
<1>4. QED
  BY <1>1, <1>2, <1>3 DEF Next, Step, Failure
-------------------------------------------------------------------------------
LEMMA Asked ==
    ASSUME TypeInv, NEW r \in Requests, ask[r] # None
    PROVE  /\ ask[r] \in Asks /\ Op(r) \in Ops /\ User(r) \in Users /\ Server(r) \in Servers
           /\ Picture(r) \in Users \X Images /\ Picture(r)[1] = User(r)
BY DEF TypeInv, TypeOK, Asks, Op, User, Server, Picture

\* Who gets a row or an account, and what else a step may change.
LEMMA WhoElse ==
    ASSUME [Next]_vars
    PROVE  /\ known' = known \/ \E r \in Requests : pc[r] # "idle" /\ known' = known \cup {User(r)}
           /\ \/ coinbase' = coinbase
              \/ \E r \in Requests : pc[r] # "idle" /\ coinbase' = coinbase \cup {User(r)}
           /\ linked' = linked \/ \E r \in Requests : pc[r] # "idle" /\ linked' = linked \cup {User(r)}
           /\ snap' = snap \/ \E r \in Requests : snap' = [snap EXCEPT ![r] = images]
           /\ faults' = faults \/ faults' = faults + 1
<1>1. CASE UNCHANGED vars \/ \E r \in Requests, a \in Asks : Begin(r, a)
  BY <1>1 DEF Begin, vars, credits, accounts, request
<1>2. CASE \E r \in Requests : Credits(r)
  BY <1>2
  DEF Credits, GetUser, CreateUser, Increase, Reduce, ReduceThrows, Credit, Debit, credits,
      accounts
<1>3. CASE \E r \in Requests : Guard(r) \/ ImageStore(r)
  BY <1>3
  DEF Guard, ImageStore, EnsureInitialized, Preload, Initialize, Look, Insert, Count, Delete,
      Uncount, credits, accounts
<1>4. CASE \E r \in Requests : Coinbase(r)
  BY <1>4
  DEF Coinbase, GetAccount, Exists, CreateOrGetAccount, StoreAccount, credits, accounts
<1>5. CASE Failure
  BY <1>5 DEF Failure, ExistsThrows, CallThrows, Crash, Fault, credits, accounts
<1>6. QED
  BY <1>1, <1>2, <1>3, <1>4, <1>5 DEF Next, Step

LEMMA CountableNext ==
    ASSUME TypeInv, [Next]_vars
    PROVE  Countable'
<1>1. IsFiniteSet(images')
  <2>1. \/ UNCHANGED images
        \/ \E r \in Requests : images' = images \cup {Picture(r)} \/ images' = images \ {Picture(r)}
    BY StepCases
    DEF vars, gallery, Begin, Walks, Increase, Reduce, ReduceThrows, Records, Initialize, Count,
        Uncount, Insert, Delete, CallThrows, Crash
  <2>2. QED
    BY <2>1, FS_AddElement, FS_RemoveElement DEF TypeInv, Countable
<1>2. \A r \in Requests : IsFiniteSet(snap'[r])
  BY WhoElse DEF TypeInv, Countable, TypeOK
<1>3. QED
  BY <1>1, <1>2 DEF Countable

\* What a step does to one request.
LEMMA WhoActs ==
    ASSUME TypeInv, [Next]_vars, NEW q \in Requests
    PROVE  \/ UNCHANGED <<ask[q], pc[q], todo[q]>>
           \/ \E a \in Asks : Begin(q, a)
           \/ Walks(q) \/ Increase(q) \/ Reduce(q) \/ ReduceThrows(q) \/ Records(q)
           \/ Initialize(q) \/ Count(q) \/ Uncount(q)
           \/ Insert(q) /\ Picture(q) \notin images
           \/ Delete(q) /\ Picture(q) \in images
           \/ \E rs \in SUBSET Requests : q \in rs /\ Abandons(rs)
<1>1. pc \in [Requests -> Pcs] /\ ask \in [Requests -> Asks \cup {None}]
      /\ todo \in [Requests -> SUBSET Kinds]
  BY DEF TypeInv, TypeOK
<1>2. ASSUME NEW r \in Requests, r # q,
             \/ \E a \in Asks : Begin(r, a)
             \/ Walks(r) \/ ReduceThrows(r)
             \/ Initialize(r) \/ Count(r) \/ Uncount(r)
             \/ Insert(r) /\ Picture(r) \notin images
             \/ Delete(r) /\ Picture(r) \in images
      PROVE  UNCHANGED <<ask[q], pc[q], todo[q]>>
  <2>1. UNCHANGED todo /\ ask'[q] = ask[q]
    BY <1>1, <1>2 DEF Begin, Walks, ReduceThrows, Initialize, Count, Uncount, Insert, Delete
  <2>2. \E where : GoTo(r, where)
    BY <1>2 DEF Begin, Walks, ReduceThrows, Initialize, Count, Uncount, Insert, Delete
  <2>3. QED
    BY <1>1, <1>2, <2>1, <2>2 DEF GoTo
<1>3. ASSUME NEW r \in Requests, r # q, Increase(r) \/ Reduce(r) \/ Records(r)
      PROVE  UNCHANGED <<ask[q], pc[q], todo[q]>>
  <2>1. ask' = ask /\ \E kinds : Owes(r, kinds)
    BY <1>3 DEF Increase, Reduce, Records
  <2>2. QED
    BY <1>1, <1>3, <2>1 DEF Owes, GoTo
<1>4. ASSUME NEW rs \in SUBSET Requests, Abandons(rs), q \notin rs
      PROVE  UNCHANGED <<ask[q], pc[q], todo[q]>>
  BY <1>1, <1>4 DEF Abandons, Abandon
<1>5. CASE \E rs \in SUBSET Requests : Abandons(rs)
  BY <1>4, <1>5
<1>6. CASE UNCHANGED vars
  BY <1>6 DEF vars, request
<1>7. QED
  BY <1>2, <1>3, <1>5, <1>6, StepCases, WhoAbandons

LEMMA StandingNext ==
    ASSUME TypeInv, [Next]_vars
    PROVE  Standing'
<1>1. SUFFICES ASSUME NEW q \in Requests PROVE Fits(Op(q), pc[q])'
  BY DEF Standing
<1>2. /\ pc \in [Requests -> Pcs] /\ ask \in [Requests -> Asks \cup {None}]
      /\ Fits(Op(q), pc[q])
  BY DEF TypeInv, TypeOK, Standing
<1>3. CASE UNCHANGED <<ask[q], pc[q], todo[q]>>
  BY <1>2, <1>3 DEF Op, Fits
<1>4. CASE \E a \in Asks : Begin(q, a)
  <2>1. PICK a \in Asks : Begin(q, a)
    BY <1>4
  <2>2. Op(q)' = a.op /\ a.op \in Ops
    BY <1>2, <2>1 DEF Begin, Op, Asks
  <2>3. pc'[q] = CASE a.op \in {"grant", "take"} -> "get"
                   [] a.op \in {"store", "open"} -> "guard"
                   [] a.op = "delete" -> "init"
                   [] a.op = "find" -> "find"
                   [] a.op = "run" -> "reduce"
    BY <1>2, <2>1 DEF Begin, GoTo
  <2>4. QED
    BY <2>2, <2>3 DEF Fits, Ops
<1>5. CASE Walks(q)
  BY <1>2, <1>5 DEF Walks, Fits, Op, GoTo
<1>6. CASE Increase(q) \/ Reduce(q) \/ Records(q)
  <2>1. ask' = ask /\ pc'[q] \in {"record", "link", "idle"}
    BY <1>2, <1>6 DEF Increase, Reduce, Records, Owes, AfterCharge, GoTo
  <2>2. QED
    BY <2>1 DEF Fits
<1>7. CASE ReduceThrows(q) \/ Uncount(q)
  BY <1>2, <1>7 DEF ReduceThrows, Uncount, Fits, GoTo
<1>8. CASE Initialize(q)
  BY <1>2, <1>8 DEF Initialize, Use, Fits, Op, GoTo
<1>9. CASE \/ Count(q)
           \/ Insert(q) /\ Picture(q) \notin images
           \/ Delete(q) /\ Picture(q) \in images
  <2>1. /\ ask' = ask
        /\ \/ pc[q] = "count" /\ pc'[q] = "reduce"
           \/ pc[q] = "insert" /\ pc'[q] = "count"
           \/ pc[q] = "remove" /\ pc'[q] = "uncount"
    BY <1>2, <1>9 DEF Count, Insert, Delete, GoTo
  <2>2. QED
    BY <1>2, <2>1 DEF Fits, Op
<1>10. CASE \E rs \in SUBSET Requests : q \in rs /\ Abandons(rs)
  BY <1>10 DEF Abandons, Abandon, Fits
<1>11. QED
  BY <1>3, <1>4, <1>5, <1>6, <1>7, <1>8, <1>9, <1>10, WhoActs

\* Where a request may stand, and what it may have yet to record.
LEMMA PlacesNext ==
    ASSUME TypeInv, [Next]_vars
    PROVE  /\ ask' \in [Requests -> Asks \cup {None}]
           /\ pc' \in [Requests -> Pcs]
           /\ todo' \in [Requests -> SUBSET Kinds]
           /\ \A r \in Requests : pc'[r] # "idle" => ask'[r] # None
           /\ \A r \in Requests : pc'[r] = "record" <=> todo'[r] # {}
<1>1. /\ pc \in [Requests -> Pcs] /\ ask \in [Requests -> Asks \cup {None}]
      /\ todo \in [Requests -> SUBSET Kinds]
      /\ \A r \in Requests : pc[r] # "idle" => ask[r] # None
      /\ \A r \in Requests : pc[r] = "record" <=> todo[r] # {}
  BY DEF TypeInv, TypeOK
<1>2. /\ ask' = ask \/ \E r \in Requests, a \in Asks : ask' = [ask EXCEPT ![r] = a]
      /\ \/ UNCHANGED pc
         \/ \E r \in Requests : \E where : pc' = [pc EXCEPT ![r] = where]
         \/ \E rs : pc' = [r \in Requests |-> IF r \in rs THEN "idle" ELSE pc[r]]
      /\ \/ UNCHANGED todo
         \/ \E r \in Requests : \E kinds : todo' = [todo EXCEPT ![r] = kinds]
         \/ \E rs : todo' = [r \in Requests |-> IF r \in rs THEN {} ELSE todo[r]]
  <2>1. CASE \E rs \in SUBSET Requests : Abandons(rs)
    BY <2>1 DEF Abandons, Abandon
  <2>2. CASE \E r \in Requests, a \in Asks : Begin(r, a)
    BY <2>2 DEF Begin, GoTo
  <2>3. CASE UNCHANGED vars
    BY <2>3 DEF vars, request
  <2>4. ASSUME NEW r \in Requests, Increase(r) \/ Reduce(r) \/ Records(r)
        PROVE  ask' = ask /\ \E kinds : Owes(r, kinds)
    BY <2>4 DEF Increase, Reduce, Records
  <2>5. ASSUME NEW r \in Requests,
               \/ Walks(r) \/ ReduceThrows(r) \/ Initialize(r) \/ Count(r) \/ Uncount(r)
               \/ Insert(r) /\ Picture(r) \notin images
               \/ Delete(r) /\ Picture(r) \in images
        PROVE  ask' = ask /\ todo' = todo /\ \E where : GoTo(r, where)
    BY <2>5 DEF Walks, ReduceThrows, Initialize, Count, Uncount, Insert, Delete
  <2>6. QED
    BY <2>1, <2>2, <2>3, <2>4, <2>5, StepCases, WhoAbandons DEF Owes, GoTo
<1>3. ASSUME NEW q \in Requests
      PROVE  /\ pc'[q] \in Pcs /\ todo'[q] \in SUBSET Kinds
             /\ pc'[q] # "idle" => ask'[q] # None
             /\ pc'[q] = "record" <=> todo'[q] # {}
  <2>1. CASE UNCHANGED <<ask[q], pc[q], todo[q]>>
    BY <1>1, <2>1
  <2>2. CASE \E a \in Asks : Begin(q, a)
    <3>1. PICK a \in Asks : Begin(q, a)
      BY <2>2
    <3>2. /\ ask'[q] = a /\ a # None /\ pc[q] # "record" /\ todo'[q] = todo[q]
          /\ a.op \in Ops
      BY <1>1, <3>1, AccountsAssumption DEF Begin, Asks
    <3>3. pc'[q] = CASE a.op \in {"grant", "take"} -> "get"
                     [] a.op \in {"store", "open"} -> "guard"
                     [] a.op = "delete" -> "init"
                     [] a.op = "find" -> "find"
                     [] a.op = "run" -> "reduce"
      BY <1>1, <3>1 DEF Begin, GoTo
    <3>4. pc'[q] \in Pcs \ {"record"}
      BY <3>2, <3>3 DEF Ops, Pcs
    <3>5. todo'[q] = {}
      BY <1>1, <3>2
    <3>6. QED
      BY <3>2, <3>4, <3>5
  <2>3. CASE Walks(q)
    BY <1>1, <2>3 DEF Walks, GoTo
  <2>4. CASE Increase(q) \/ Reduce(q) \/ Records(q)
    <3>1. /\ ask' = ask /\ pc[q] # "idle"
          /\ \E kinds \in SUBSET Kinds : Owes(q, kinds)
      BY <1>1, <2>4 DEF Increase, Reduce, Records, Moved
    <3>2. QED
      BY <1>1, <3>1 DEF Owes, AfterCharge, GoTo, Pcs
  <2>5. CASE ReduceThrows(q) \/ Initialize(q) \/ Count(q) \/ Uncount(q)
    BY <1>1, <2>5 DEF ReduceThrows, Initialize, Count, Uncount, Use, GoTo, Pcs
  <2>6. CASE \/ Insert(q) /\ Picture(q) \notin images
             \/ Delete(q) /\ Picture(q) \in images
    BY <1>1, <2>6 DEF Insert, Delete, GoTo, Pcs
  <2>7. CASE \E rs \in SUBSET Requests : q \in rs /\ Abandons(rs)
    BY <1>1, <2>7 DEF Abandons, Abandon, Pcs
  <2>8. QED
    BY <2>1, <2>2, <2>3, <2>4, <2>5, <2>6, <2>7, WhoActs
<1>4. /\ DOMAIN pc' = Requests /\ pc' = [r \in Requests |-> pc'[r]]
      /\ DOMAIN todo' = Requests /\ todo' = [r \in Requests |-> todo'[r]]
      /\ ask' \in [Requests -> Asks \cup {None}]
  BY <1>1, <1>2
<1>5. QED
  BY <1>3, <1>4

\* The credits, and who is hit by what.
LEMMA CreditsNext ==
    ASSUME TypeInv, [Next]_vars
    PROVE  /\ balance' \in [Users -> [Kinds -> Nat]]
           /\ ledger' \subseteq [user : Users, credit : BOOLEAN, kind : Kinds,
                                 amount : Nat \ {0}, ref : Requests \cup {"first", "node"}]
           /\ torn' \subseteq Users /\ repeated' \subseteq Users /\ unpaid' \subseteq Requests
<1>1. /\ balance \in [Users -> [Kinds -> Nat]]
      /\ Delta \in [Ops -> [Kinds -> Nat]]
      /\ torn \subseteq Users /\ repeated \subseteq Users /\ unpaid \subseteq Requests
      /\ todo \in [Requests -> SUBSET Kinds]
      /\ \A r \in Requests : pc[r] # "idle" => ask[r] # None
  BY AccountsAssumption DEF TypeInv, TypeOK
<1>2. balance' \in [Users -> [Kinds -> Nat]]
  <2>1. CASE \E r \in Requests : Increase(r)
    <3>1. PICK r \in Requests : Increase(r)
      BY <2>1
    <3>2. User(r) \in Users
      BY <1>1, <3>1, Asked DEF Increase
    <3>3. Plus(balance[User(r)], Delta["grant"]) \in [Kinds -> Nat]
      BY <1>1, <3>2 DEF Plus, Ops
    <3>4. QED
      BY <1>1, <3>1, <3>2, <3>3 DEF Increase
  <2>2. CASE \E r \in Requests : Reduce(r)
    <3>1. PICK r \in Requests : Reduce(r)
      BY <2>2
    <3>2. User(r) \in Users /\ Op(r) \in Ops
      BY <1>1, <3>1, Asked DEF Reduce
    <3>3. [k \in Kinds |-> balance[User(r)][k] - Delta[Op(r)][k]] \in [Kinds -> Nat]
      BY <1>1, <3>1, <3>2 DEF Reduce, Covers
    <3>4. QED
      BY <1>1, <3>1, <3>2, <3>3 DEF Reduce
  <2>3. CASE UNCHANGED balance
    BY <1>1, <2>3
  <2>4. QED
    BY <2>1, <2>2, <2>3, StepCases
    DEF vars, credits, Begin, Walks, ReduceThrows, Records, Initialize, Count, Uncount, Insert,
        Delete, CallThrows, Crash
<1>3. ledger' \subseteq [user : Users, credit : BOOLEAN, kind : Kinds, amount : Nat \ {0},
                         ref : Requests \cup {"first", "node"}]
  <2>1. CASE \E r \in Requests : Records(r)
    <3>0. PICK r \in Requests : Records(r)
      BY <2>1
    <3>1. PICK k \in todo[r] : Records(r) /\ CreateConfirmed(Entry(r, k))
      BY <3>0 DEF Records
    <3>2. k \in Kinds /\ User(r) \in Users /\ Op(r) \in Ops /\ Delta[Op(r)][k] \in Nat
      BY <1>1, <3>1, Asked DEF Records
    <3>3. Entry(r, k).amount = Delta[Op(r)][k] /\ Entry(r, k).amount > 0
      BY <3>1 DEF CreateConfirmed, Valid, Entry
    <3>4. Delta[Op(r)][k] \in Nat \ {0}
      BY <3>2, <3>3
    <3>5. Entry(r, k) \in [user : Users, credit : BOOLEAN, kind : Kinds, amount : Nat \ {0},
                           ref : Requests \cup {"first", "node"}]
      BY <3>2, <3>4 DEF Entry
    <3>6. ledger' \subseteq ledger \cup {Entry(r, k)}
      BY <3>1 DEF CreateConfirmed
    <3>7. QED
      BY <3>5, <3>6 DEF TypeInv, TypeOK
  <2>2. CASE UNCHANGED ledger
    BY <2>2 DEF TypeInv, TypeOK
  <2>3. QED
    BY <2>1, <2>2, StepCases
    DEF vars, credits, Begin, Walks, Increase, Reduce, ReduceThrows, Initialize, Count, Uncount,
        Insert, Delete, CallThrows, Crash
<1>4. torn' \subseteq Users /\ repeated' \subseteq Users /\ unpaid' \subseteq Requests
  <2>1. CASE \E rs \in SUBSET Requests : Abandons(rs)
    <3>1. PICK rs \in SUBSET Requests : Abandons(rs)
      BY <2>1
    <3>2. \A r \in rs : pc[r] = "record" => User(r) \in Users
      BY <1>1, Asked
    <3>3. QED
      BY <1>1, <3>1, <3>2 DEF Abandons, Abandon
  <2>2. CASE \E r \in Requests : Reduce(r)
    <3>1. PICK r \in Requests : Reduce(r)
      BY <2>2
    <3>2. User(r) \in Users
      BY <1>1, <3>1, Asked DEF Reduce
    <3>3. QED
      BY <1>1, <3>1, <3>2 DEF Reduce
  <2>3. CASE \E r \in Requests : ReduceThrows(r)
    BY <1>1, <2>3 DEF ReduceThrows
  <2>4. CASE UNCHANGED <<torn, repeated, unpaid>>
    BY <1>1, <2>4
  <2>5. QED
    BY <2>1, <2>2, <2>3, <2>4, StepCases, WhoAbandons
    DEF vars, history, Begin, Walks, Increase, Records, Initialize, Count, Uncount, Insert, Delete
<1>5. QED
  BY <1>2, <1>3, <1>4

\* The images, and who stored and counts them.
LEMMA GalleryNext ==
    ASSUME TypeInv, [Next]_vars
    PROVE  /\ images' \subseteq Users \X Images /\ ready' \subseteq Servers
           /\ gone' \subseteq Users \X Images
           /\ count' \in [Servers -> [Users -> Nat]]
           /\ maker' \in [images' -> Requests] /\ stale' \subseteq Servers
<1>1. /\ images \subseteq Users \X Images /\ ready \subseteq Servers
      /\ gone \subseteq Users \X Images
      /\ count \in [Servers -> [Users -> Nat]]
      /\ maker \in [images -> Requests] /\ stale \subseteq Servers
      /\ \A r \in Requests : pc[r] # "idle" => ask[r] # None
  BY DEF TypeInv, TypeOK
<1>2. CASE \E r \in Requests : Initialize(r)
  <2>1. PICK r \in Requests : Initialize(r)
    BY <1>2
  <2>2. Server(r) \in Servers
    BY <1>1, <2>1, Asked DEF Initialize
  <2>3. \A u \in Users : Cardinality(Of(u, snap[r])) \in Nat
    BY FS_Subset, FS_CardinalityType DEF TypeInv, Countable, Of
  <2>4. [u \in Users |-> Cardinality(Of(u, snap[r]))] \in [Users -> Nat]
    BY <2>3
  <2>5. count' \in [Servers -> [Users -> Nat]]
    BY <1>1, <2>1, <2>4 DEF Initialize
  <2>6. QED
    BY <1>1, <2>1, <2>2, <2>5 DEF Initialize, past
<1>3. CASE \E r \in Requests : Count(r) \/ Uncount(r)
  <2>1. PICK r \in Requests : Count(r) \/ Uncount(r)
    BY <1>3
  <2>2. Server(r) \in Servers /\ User(r) \in Users
    BY <1>1, <2>1, Asked DEF Count, Uncount
  <2>3. \E n \in Nat : count' = [count EXCEPT ![Server(r)][User(r)] = n]
    <3>1. count[Server(r)][User(r)] \in Nat
      BY <1>1, <2>2
    <3>2. CASE Count(r)
      <4>1. count' = [count EXCEPT ![Server(r)][User(r)] = count[Server(r)][User(r)] + 1]
        BY <1>1, <2>2, <3>2 DEF Count
      <4>2. count[Server(r)][User(r)] + 1 \in Nat
        BY <3>1
      <4>3. QED
        BY <4>1, <4>2
    <3>3. CASE Uncount(r)
      <4> DEFINE n == count[Server(r)][User(r)]
      <4>1. count' = [count EXCEPT ![Server(r)][User(r)] = IF n = 0 THEN 0 ELSE n - 1]
        BY <3>3 DEF Uncount
      <4>2. (IF n = 0 THEN 0 ELSE n - 1) \in Nat
        BY <3>1
      <4>3. QED
        BY <4>1, <4>2
    <3>4. QED
      BY <2>1, <3>2, <3>3
  <2>4. count' \in [Servers -> [Users -> Nat]]
    BY <1>1, <2>2, <2>3
  <2>5. QED
    BY <1>1, <2>1, <2>2, <2>4 DEF Count, Uncount, history, past
<1>4. CASE \E r \in Requests : Insert(r) /\ Picture(r) \notin images
  <2>1. PICK r \in Requests : Insert(r) /\ Picture(r) \notin images
    BY <1>4
  <2>2. Picture(r) \in Users \X Images
    BY <1>1, <2>1, Asked DEF Insert
  <2>3. maker' \in [images' -> Requests]
    BY <1>1, <2>1 DEF Insert
  <2>4. QED
    BY <1>1, <2>1, <2>2, <2>3 DEF Insert, Overtake
<1>5. CASE \E r \in Requests : Delete(r) /\ Picture(r) \in images
  BY <1>1, <1>5 DEF Delete, Overtake
<1>6. CASE \E r \in Requests : CallThrows(r)
  BY <1>1, <1>6, Asked DEF CallThrows, gallery, past
<1>7. CASE \E s \in Servers : Crash(s)
  BY <1>1, <1>7 DEF Crash, past
<1>8. CASE UNCHANGED <<images, ready, count, maker, gone, stale>>
  BY <1>1, <1>8
<1>9. QED
  BY <1>2, <1>3, <1>4, <1>5, <1>6, <1>7, <1>8, StepCases
  DEF vars, gallery, history, past, Begin, Walks, Increase, Reduce, ReduceThrows, Records

LEMMA TypeNext ==
    ASSUME TypeInv, [Next]_vars
    PROVE  TypeInv'
<1>1. /\ known \subseteq Users /\ coinbase \subseteq Users /\ linked \subseteq Users
      /\ faults \in Nat /\ snap \in [Requests -> SUBSET (Users \X Images)]
      /\ images \subseteq Users \X Images
      /\ \A r \in Requests : pc[r] # "idle" => ask[r] # None
  BY DEF TypeInv, TypeOK
<1>2. \A r \in Requests : pc[r] # "idle" => User(r) \in Users
  BY <1>1, Asked
<1>3. /\ known' \subseteq Users /\ coinbase' \subseteq Users /\ linked' \subseteq Users
      /\ faults' \in Nat /\ snap' \in [Requests -> SUBSET (Users \X Images)]
  BY <1>1, <1>2, WhoElse
<1>4. TypeOK'
  BY <1>3, PlacesNext, CreditsNext, GalleryNext DEF TypeOK
<1>5. QED
  BY <1>4, StandingNext, CountableNext DEF TypeInv

LEMMA TypeInit ==
    ASSUME Init
    PROVE  TypeInv
<1>1. balance \in [Users -> [Kinds -> Nat]]
  <2>1. Initial \in [Kinds -> Nat] /\ Nothing \in [Kinds -> Nat]
    BY AccountsAssumption DEF Nothing
  <2>2. QED
    BY <2>1 DEF Init
<1>2. ledger \subseteq [user : Users, credit : BOOLEAN, kind : Kinds, amount : Nat \ {0},
                        ref : Requests \cup {"first", "node"}]
  <2>1. SUFFICES ASSUME NEW e \in ledger
                 PROVE  e \in [user : Users, credit : BOOLEAN, kind : Kinds, amount : Nat \ {0},
                               ref : Requests \cup {"first", "node"}]
    OBVIOUS
  <2>2. PICK u \in Users, k \in Kinds :
           /\ Initial[k] > 0
           /\ e = [user |-> u, credit |-> TRUE, kind |-> k, amount |-> Initial[k],
                   ref |-> "first"]
    <3>1. known \subseteq Users /\ ledger = Opening(known)
      BY DEF Init
    <3>2. QED
      BY <2>1, <3>1 DEF Opening
  <2>3. Initial[k] \in Nat \ {0}
    BY <2>2, AccountsAssumption
  <2>4. QED
    BY <2>2, <2>3
<1>3. TypeOK
  BY <1>1, <1>2 DEF Init, TypeOK, Pcs
<1>4. Standing
  BY DEF Init, Standing, Fits
<1>5. Countable
  BY FS_EmptySet DEF Init, Countable
<1>6. QED
  BY <1>3, <1>4, <1>5 DEF TypeInv

\* Every state has the types that the code and the database schema give it, and a request
\* that owes transactions is one that is about to write them.
THEOREM TypeCorrect == Spec => []TypeOK
<1>1. Spec => []TypeInv
  BY TypeInit, TypeNext, PTL DEF Spec
<1>2. TypeInv => TypeOK
  BY DEF TypeInv
<1>3. QED
  BY <1>1, <1>2, PTL
-------------------------------------------------------------------------------
\* The requests that have changed the images of a user, and not yet the count of a server.
Waiting(where, s, u) == {r \in Requests : pc[r] = where /\ Server(r) = s /\ User(r) = u}

Right(s, u) ==
    count[s][u] + Cardinality(Waiting("count", s, u)) - Cardinality(Waiting("uncount", s, u))
        = Cardinality(Of(u, images))

LEMMA RightCounts == CountIsRows <=> \A s \in ready \ stale, u \in Users : Right(s, u)
BY DEF CountIsRows, Right, Waiting

LEMMA WaitingFinite ==
    ASSUME NEW where, NEW s, NEW u
    PROVE  IsFiniteSet(Waiting(where, s, u)) /\ Cardinality(Waiting(where, s, u)) \in Nat
<1>1. Waiting(where, s, u) \subseteq Requests
  BY DEF Waiting
<1>2. QED
  BY <1>1, FS_Subset, FS_CardinalityType, AccountsAssumption

LEMMA ImagesFinite ==
    ASSUME TypeInv, NEW u
    PROVE  IsFiniteSet(Of(u, images)) /\ Cardinality(Of(u, images)) \in Nat
<1>1. Of(u, images) \subseteq images /\ IsFiniteSet(images)
  BY DEF Of, TypeInv, Countable
<1>2. QED
  BY <1>1, FS_Subset, FS_CardinalityType

\* A count stays right if nobody waits for it who did not, and nothing else changes.
LEMMA SameCount ==
    ASSUME NEW s, NEW u, Right(s, u), UNCHANGED images, count'[s][u] = count[s][u],
           \A q \in Requests, where \in {"count", "uncount"} :
              pc'[q] = where /\ ask'[q].server = s <=> pc[q] = where /\ Server(q) = s,
           \A q \in Requests : pc[q] \in {"count", "uncount"} => ask'[q] = ask[q]
    PROVE  Right(s, u)'
<1>1. ASSUME NEW where \in {"count", "uncount"}
      PROVE  Waiting(where, s, u)' = Waiting(where, s, u)
  BY DEF Waiting, Server, User
<1>2. QED
  BY <1>1 DEF Right, Of

\* A request that does something else does not wait before, nor after.
LEMMA NotWaiting ==
    ASSUME TypeInv, NEW r \in Requests,
           \/ \E a \in Asks : Begin(r, a)
           \/ Walks(r) \/ Increase(r) \/ Reduce(r) \/ ReduceThrows(r) \/ Records(r)
           \/ Initialize(r)
    PROVE  /\ pc[r] \notin {"count", "uncount"} /\ pc'[r] \notin {"count", "uncount"}
           /\ \A q \in Requests \ {r} : pc'[q] = pc[q] /\ ask'[q] = ask[q]
<1>1. /\ pc \in [Requests -> Pcs] /\ ask \in [Requests -> Asks \cup {None}]
      /\ todo \in [Requests -> SUBSET Kinds]
      /\ \A q \in Requests : pc[q] # "idle" => ask[q] # None
  BY DEF TypeInv, TypeOK
<1>2. CASE \E a \in Asks : Begin(r, a)
  <2>1. PICK a \in Asks : Begin(r, a)
    BY <1>2
  <2>2. pc'[r] = CASE a.op \in {"grant", "take"} -> "get"
                   [] a.op \in {"store", "open"} -> "guard"
                   [] a.op = "delete" -> "init"
                   [] a.op = "find" -> "find"
                   [] a.op = "run" -> "reduce"
    BY <1>1, <2>1 DEF Begin, GoTo
  <2>3. a.op \in Ops
    BY DEF Asks
  <2>4. pc'[r] \notin {"count", "uncount"}
    BY <2>2, <2>3 DEF Ops
  <2>5. QED
    BY <1>1, <2>1, <2>4 DEF Begin, GoTo
<1>3. CASE Walks(r)
  BY <1>1, <1>3 DEF Walks, GoTo
<1>4. CASE Increase(r) \/ Reduce(r) \/ Records(r)
  <2>1. /\ ask' = ask /\ pc[r] \notin {"count", "uncount"}
        /\ \E kinds \in SUBSET Kinds : Owes(r, kinds)
    BY <1>1, <1>4 DEF Increase, Reduce, Records, Moved
  <2>2. QED
    BY <1>1, <2>1 DEF Owes, AfterCharge, GoTo
<1>5. CASE ReduceThrows(r) \/ Initialize(r)
  BY <1>1, <1>5 DEF ReduceThrows, Initialize, Use, GoTo
<1>6. QED
  BY <1>2, <1>3, <1>4, <1>5

\* One request moves on, of those that wait for a count or those about to.
LEMMA OneMoves ==
    ASSUME TypeInv, NEW r \in Requests, ask' = ask, NEW to, GoTo(r, to), NEW where, NEW s, NEW u
    PROVE  LET one == IF Server(r) = s /\ User(r) = u THEN 1 ELSE 0
           IN  /\ to = where /\ pc[r] # where =>
                     Cardinality(Waiting(where, s, u)') = Cardinality(Waiting(where, s, u)) + one
               /\ to # where /\ pc[r] = where =>
                     Cardinality(Waiting(where, s, u)') = Cardinality(Waiting(where, s, u)) - one
               /\ to # where /\ pc[r] # where =>
                     Cardinality(Waiting(where, s, u)') = Cardinality(Waiting(where, s, u))
<1> DEFINE W == Waiting(where, s, u)
           V == Waiting(where, s, u)'
           Is(q) == Server(q) = s /\ User(q) = u
<1>1. pc' = [pc EXCEPT ![r] = to] /\ pc \in [Requests -> Pcs]
  BY DEF GoTo, TypeInv, TypeOK
<1>2. V = {q \in Requests : pc'[q] = where /\ Is(q)} /\ W = {q \in Requests : pc[q] = where /\ Is(q)}
  BY DEF Waiting, Server, User
<1>3. IsFiniteSet(W) /\ Cardinality(W) \in Nat
  BY WaitingFinite
<1> HIDE DEF W, V, Is
<1>4. /\ to = where /\ pc[r] # where /\ Is(r) => V = W \cup {r} /\ r \notin W
      /\ to # where /\ pc[r] = where /\ Is(r) => V = W \ {r} /\ r \in W
      /\ ~Is(r) => V = W
      /\ to # where /\ pc[r] # where => V = W
  BY <1>1, <1>2
<1>5. /\ to = where /\ pc[r] # where /\ Is(r) => Cardinality(V) = Cardinality(W) + 1
      /\ to # where /\ pc[r] = where /\ Is(r) => Cardinality(V) = Cardinality(W) - 1
      /\ ~Is(r) => Cardinality(V) = Cardinality(W)
      /\ to # where /\ pc[r] # where => Cardinality(V) = Cardinality(W)
  BY <1>3, <1>4, FS_AddElement, FS_RemoveElement
<1>6. QED
  BY <1>3, <1>5 DEF Is, V, W

LEMMA RightStays ==
    ASSUME TypeInv, [Next]_vars, NEW s \in ready \ stale, NEW u \in Users, Right(s, u),
           s \in ready', s \notin stale'
    PROVE  Right(s, u)' \/ \E r \in Requests : Initialize(r)
<1>1. /\ pc \in [Requests -> Pcs] /\ ask \in [Requests -> Asks \cup {None}]
      /\ count \in [Servers -> [Users -> Nat]] /\ s \in Servers
      /\ \A q \in Requests : pc[q] # "idle" => ask[q] # None
  BY DEF TypeInv, TypeOK
<1>2. /\ count[s][u] \in Nat /\ Cardinality(Of(u, images)) \in Nat
      /\ Cardinality(Waiting("count", s, u)) \in Nat
      /\ Cardinality(Waiting("uncount", s, u)) \in Nat
  BY <1>1, WaitingFinite, ImagesFinite
<1>3. CASE UNCHANGED vars
  BY <1>3 DEF vars, request, gallery, Right, Waiting, Server, User, Of
<1>4. ASSUME NEW r \in Requests,
             \/ \E a \in Asks : Begin(r, a)
             \/ Walks(r) \/ Increase(r) \/ Reduce(r) \/ ReduceThrows(r) \/ Records(r)
      PROVE  Right(s, u)'
  <2>1. /\ pc[r] \notin {"count", "uncount"} /\ pc'[r] \notin {"count", "uncount"}
        /\ \A q \in Requests \ {r} : pc'[q] = pc[q] /\ ask'[q] = ask[q]
    BY <1>4, NotWaiting
  <2>2. UNCHANGED <<images, count>>
    BY <1>4 DEF Begin, Walks, Increase, Reduce, ReduceThrows, Records, gallery
  <2>3. QED
    BY <2>1, <2>2, SameCount DEF Server
<1>5. ASSUME NEW r \in Requests, Insert(r), Picture(r) \notin images PROVE Right(s, u)'
  <2>1. /\ pc[r] = "insert" /\ ask' = ask /\ GoTo(r, "count") /\ count' = count
        /\ images' = images \cup {Picture(r)} /\ stale' = stale \cup (Servers \ {Server(r)})
    BY <1>5 DEF Insert, Overtake
  <2>2. Server(r) = s /\ Picture(r)[1] = User(r)
    BY <1>1, <2>1, Asked
  <2>3. Of(u, images') = IF User(r) = u THEN Of(u, images) \cup {Picture(r)} ELSE Of(u, images)
    BY <2>1, <2>2 DEF Of
  <2>4. Cardinality(Of(u, images')) =
            IF User(r) = u THEN Cardinality(Of(u, images)) + 1 ELSE Cardinality(Of(u, images))
    <3>1. Picture(r) \notin Of(u, images)
      BY <1>5 DEF Of
    <3>2. QED
      BY <2>3, <3>1, ImagesFinite, FS_AddElement
  <2>5. /\ Cardinality(Waiting("count", s, u)') =
              Cardinality(Waiting("count", s, u)) + (IF User(r) = u THEN 1 ELSE 0)
        /\ Cardinality(Waiting("uncount", s, u)') = Cardinality(Waiting("uncount", s, u))
    BY <2>1, <2>2, OneMoves
  <2>6. QED
    BY <1>2, <2>1, <2>4, <2>5 DEF Right, Of
<1>6. ASSUME NEW r \in Requests, Delete(r), Picture(r) \in images PROVE Right(s, u)'
  <2>1. /\ pc[r] = "remove" /\ ask' = ask /\ GoTo(r, "uncount") /\ count' = count
        /\ images' = images \ {Picture(r)} /\ stale' = stale \cup (Servers \ {Server(r)})
    BY <1>6 DEF Delete, Overtake
  <2>2. Server(r) = s /\ Picture(r)[1] = User(r)
    BY <1>1, <2>1, Asked
  <2>3. Of(u, images') = IF User(r) = u THEN Of(u, images) \ {Picture(r)} ELSE Of(u, images)
    BY <2>1, <2>2 DEF Of
  <2>4. Cardinality(Of(u, images')) =
            IF User(r) = u THEN Cardinality(Of(u, images)) - 1 ELSE Cardinality(Of(u, images))
    <3>1. User(r) = u => Picture(r) \in Of(u, images)
      BY <1>6, <2>2 DEF Of
    <3>2. QED
      BY <2>3, <3>1, ImagesFinite, FS_RemoveElement
  <2>5. /\ Cardinality(Waiting("uncount", s, u)') =
              Cardinality(Waiting("uncount", s, u)) + (IF User(r) = u THEN 1 ELSE 0)
        /\ Cardinality(Waiting("count", s, u)') = Cardinality(Waiting("count", s, u))
    BY <2>1, <2>2, OneMoves
  <2>6. QED
    BY <1>2, <2>1, <2>4, <2>5 DEF Right, Of
<1>7. ASSUME NEW r \in Requests, Count(r) PROVE Right(s, u)'
  <2> DEFINE one == IF Server(r) = s /\ User(r) = u THEN 1 ELSE 0
  <2>1. /\ pc[r] = "count" /\ ask' = ask /\ GoTo(r, "reduce") /\ images' = images
        /\ count' = [count EXCEPT ![Server(r)][User(r)] = @ + 1]
    BY <1>7 DEF Count
  <2>2. Server(r) \in Servers /\ User(r) \in Users
    BY <1>1, <2>1, Asked
  <2>3. count'[s][u] = count[s][u] + one
    BY <1>1, <1>2, <2>1, <2>2
  <2>4. /\ Cardinality(Waiting("count", s, u)') = Cardinality(Waiting("count", s, u)) - one
        /\ Cardinality(Waiting("uncount", s, u)') = Cardinality(Waiting("uncount", s, u))
    BY <2>1, OneMoves
  <2>5. QED
    BY <1>2, <2>1, <2>3, <2>4 DEF Right, Of
<1>8. ASSUME NEW r \in Requests, Uncount(r) PROVE Right(s, u)'
  <2> DEFINE one == IF Server(r) = s /\ User(r) = u THEN 1 ELSE 0
             n == count[Server(r)][User(r)]
  <2>1. /\ pc[r] = "uncount" /\ ask' = ask /\ GoTo(r, "idle") /\ images' = images
        /\ count' = [count EXCEPT ![Server(r)][User(r)] = IF n = 0 THEN 0 ELSE n - 1]
        /\ stale' = IF n = 0 THEN stale \cup {Server(r)} ELSE stale
    BY <1>8 DEF Uncount
  <2>2. Server(r) \in Servers /\ User(r) \in Users
    BY <1>1, <2>1, Asked
  <2>3. count'[s][u] = count[s][u] - one
    <3>1. CASE Server(r) = s
      <4>1. n # 0
        BY <2>1, <3>1
      <4>2. QED
        BY <1>1, <1>2, <2>1, <2>2, <3>1, <4>1
    <3>2. CASE Server(r) # s
      BY <1>1, <1>2, <2>1, <2>2, <3>2
    <3>3. QED
      BY <3>1, <3>2
  <2>4. /\ Cardinality(Waiting("uncount", s, u)') = Cardinality(Waiting("uncount", s, u)) - one
        /\ Cardinality(Waiting("count", s, u)') = Cardinality(Waiting("count", s, u))
    BY <2>1, OneMoves
  <2>5. QED
    BY <1>2, <2>1, <2>3, <2>4 DEF Right, Of
<1>9. ASSUME NEW r \in Requests, CallThrows(r) PROVE Right(s, u)'
  <2>1. /\ UNCHANGED <<images, count, ask>>
        /\ pc' = [q \in Requests |-> IF q \in {r} THEN "idle" ELSE pc[q]]
        /\ pc[r] \in {"count", "uncount"} => Server(r) # s
    BY <1>9 DEF CallThrows, Abandon, gallery
  <2>2. QED
    BY <2>1, SameCount DEF Server
<1>10. ASSUME NEW t \in Servers, Crash(t) PROVE Right(s, u)'
  <2>1. /\ UNCHANGED <<images, count, ask>> /\ s # t
        /\ pc' = [q \in Requests |-> IF q \in {r \in Requests : pc[r] # "idle" /\ Server(r) = t}
                                     THEN "idle" ELSE pc[q]]
    BY <1>10 DEF Crash, Abandon
  <2>2. QED
    BY <2>1, SameCount DEF Server
<1>11. QED
  BY <1>3, <1>4, <1>5, <1>6, <1>7, <1>8, <1>9, <1>10, StepCases

\* A server that initialises its store counts what it read; if that is what is stored and
\* nobody waits to be counted, it counts right.
LEMMA InitializedRight ==
    ASSUME TypeInv, NEW r \in Requests, Initialize(r), NEW s \in ready' \ stale', NEW u \in Users,
           s \in ready \ stale => Right(s, u)
    PROVE  Right(s, u)'
<1>1. /\ count \in [Servers -> [Users -> Nat]] /\ s \in Servers /\ pc \in [Requests -> Pcs]
      /\ \A q \in Requests : pc[q] # "idle" => ask[q] # None
      /\ ready \subseteq Servers
  <2>1. ready' \subseteq ready \cup {Server(r)} /\ Server(r) \in Servers
    BY Asked DEF Initialize, TypeInv, TypeOK
  <2>2. QED
    BY <2>1 DEF TypeInv, TypeOK
<1>2. /\ images' = images /\ ask' = ask
      /\ count' = [count EXCEPT ![Server(r)] = [v \in Users |-> Cardinality(Of(v, snap[r]))]]
      /\ ready' = ready \cup {Server(r)}
      /\ stale' = IF snap[r] = images /\ Counting(Server(r)) = {} THEN stale \ {Server(r)}
                  ELSE stale \cup {Server(r)}
  BY DEF Initialize
<1>3. /\ pc[r] \notin {"count", "uncount"} /\ pc'[r] \notin {"count", "uncount"}
      /\ \A q \in Requests \ {r} : pc'[q] = pc[q] /\ ask'[q] = ask[q]
  BY NotWaiting
<1>4. CASE s # Server(r)
  <2>1. Right(s, u) /\ count'[s][u] = count[s][u]
    BY <1>1, <1>2, <1>4
  <2>2. QED
    BY <1>2, <1>3, <2>1, SameCount DEF Server
<1>5. CASE s = Server(r)
  <2>1. snap[r] = images /\ Counting(s) = {}
    BY <1>2, <1>5
  <2>2. count'[s][u] = Cardinality(Of(u, images))
    BY <1>1, <1>2, <1>5, <2>1
  <2>3. ASSUME NEW where \in {"count", "uncount"} PROVE Waiting(where, s, u)' = {}
    BY <1>2, <1>3, <2>1 DEF Waiting, Counting, Server, User
  <2>4. QED
    <3>1. Cardinality(Of(u, images)) \in Nat
      BY ImagesFinite
    <3>2. Cardinality(Waiting("count", s, u)') = 0 /\ Cardinality(Waiting("uncount", s, u)') = 0
      BY <2>3, FS_EmptySet
    <3>3. QED
      BY <1>2, <2>2, <3>1, <3>2 DEF Right, Of
<1>6. QED
  BY <1>4, <1>5

LEMMA CountNext ==
    ASSUME TypeInv, CountIsRows, [Next]_vars
    PROVE  CountIsRows'
<1>1. SUFFICES ASSUME NEW s \in ready' \ stale', NEW u \in Users PROVE Right(s, u)'
  BY DEF CountIsRows, Right, Waiting
<1>2. s \in ready \ stale => Right(s, u)
  BY RightCounts
<1>3. CASE \E r \in Requests : Initialize(r)
  BY <1>2, <1>3, InitializedRight
<1>4. CASE ~\E r \in Requests : Initialize(r)
  <2>1. ready' \subseteq ready /\ stale \cap ready' \subseteq stale'
    BY <1>4, StepCases
    DEF vars, gallery, history, past, Begin, Walks, Increase, Reduce, ReduceThrows, Records, Count,
        Uncount, Insert, Delete, Overtake, CallThrows, Crash
  <2>2. QED
    BY <1>2, <1>4, <2>1, RightStays
<1>5. QED
  BY <1>3, <1>4

\* The counts that a server keeps of the images of its users are right, whatever requests are
\* under way, but for those that the invariant names.
THEOREM CountsImages == Spec => []CountIsRows
<1>1. Init => TypeInv /\ CountIsRows
  BY TypeInit DEF Init, CountIsRows
<1>2. TypeInv /\ CountIsRows /\ [Next]_vars => (TypeInv /\ CountIsRows)'
  BY TypeNext, CountNext
<1>3. QED
  BY <1>1, <1>2, PTL DEF Spec
-------------------------------------------------------------------------------
\* The history grows when a request records.
LEMMA LedgerGrows ==
    ASSUME TypeInv, [Next]_vars
    PROVE  \/ ledger' = ledger
           \/ \E r \in Requests : \E k \in todo[r] :
                 /\ Records(r) /\ ledger' = ledger \cup {Entry(r, k)}
                 /\ todo'[r] = todo[r] \ {k}
<1>1. todo \in [Requests -> SUBSET Kinds]
  BY DEF TypeInv, TypeOK
<1>2. ASSUME NEW r \in Requests, Records(r)
      PROVE  \/ ledger' = ledger
             \/ \E k \in todo[r] : /\ ledger' = ledger \cup {Entry(r, k)}
                                   /\ todo'[r] = todo[r] \ {k}
  BY <1>1, <1>2 DEF Records, CreateConfirmed, Owes
<1>3. QED
  BY <1>2, StepCases
  DEF vars, credits, Begin, Walks, Increase, Reduce, ReduceThrows, Initialize, Count, Uncount,
      Insert, Delete, CallThrows, Crash

LEMMA RecordedNext ==
    ASSUME TypeInv, Recorded, [Next]_vars
    PROVE  Recorded'
<1>1. SUFFICES ASSUME NEW q \in Requests, NEW e \in ledger', e.ref = q
               PROVE  /\ ask'[q] # None /\ pc'[q] \in {"record", "link", "idle"}
                      /\ e.kind \notin todo'[q]
  BY DEF Recorded
<1>2. /\ pc \in [Requests -> Pcs] /\ todo \in [Requests -> SUBSET Kinds]
      /\ \A r \in Requests : pc[r] # "idle" => ask[r] # None
  BY DEF TypeInv, TypeOK
<1>3. CASE e \notin ledger
  <2>1. PICK r \in Requests, k \in Kinds :
           Records(r) /\ e = Entry(r, k) /\ todo'[r] = todo[r] \ {k}
    BY <1>1, <1>2, <1>3, LedgerGrows
  <2>2. r = q /\ e.kind = k
    BY <1>1, <2>1, AccountsAssumption DEF Entry
  <2>3. ask' = ask /\ pc[q] = "record" /\ pc'[q] \in {"record", "link", "idle"}
    BY <1>2, <2>1, <2>2 DEF Records, Owes, AfterCharge, GoTo
  <2>4. QED
    BY <1>2, <2>1, <2>2, <2>3
<1>4. CASE e \in ledger
  <2>1. ask[q] # None /\ pc[q] \in {"record", "link", "idle"} /\ e.kind \notin todo[q]
    BY <1>1, <1>4 DEF Recorded
  <2>2. CASE Walks(q)
    BY <1>2, <2>1, <2>2 DEF Walks, GoTo
  <2>3. CASE Records(q)
    <3>1. ask' = ask /\ \E k \in todo[q] : Owes(q, todo[q] \ {k})
      BY <2>3 DEF Records
    <3>2. QED
      BY <1>2, <2>1, <3>1 DEF Owes, AfterCharge, GoTo
  <2>4. CASE \E rs \in SUBSET Requests : q \in rs /\ Abandons(rs)
    BY <2>1, <2>4 DEF Abandons, Abandon
  <2>5. ~ \/ \E a \in Asks : Begin(q, a)
          \/ Increase(q) \/ Reduce(q) \/ ReduceThrows(q) \/ Initialize(q) \/ Count(q)
          \/ Uncount(q) \/ Insert(q) \/ Delete(q)
    BY <2>1
    DEF Begin, Increase, Reduce, ReduceThrows, Initialize, Count, Uncount, Insert, Delete
  <2>6. CASE UNCHANGED <<ask[q], pc[q], todo[q]>>
    BY <2>1, <2>6
  <2>7. QED
    BY <2>2, <2>3, <2>4, <2>5, <2>6, WhoActs
<1>5. QED
  BY <1>3, <1>4

\* A request is charging for the node if it was before, or has just taken the credits.
LEMMA WhoCharges ==
    ASSUME TypeInv, [Next]_vars, NEW q \in Requests, Charging(q)'
    PROVE  /\ ask'[q] = ask[q]
           /\ \/ Charging(q) /\ todo'[q] \subseteq todo[q]
              \/ Reduce(q) /\ Op(q) = "run" /\ ask' = ask
<1>1. /\ pc \in [Requests -> Pcs] /\ todo \in [Requests -> SUBSET Kinds]
      /\ ask \in [Requests -> Asks \cup {None}]
      /\ pc'[q] = "record" /\ ask'[q].op = "run"
  BY DEF TypeInv, TypeOK, Charging, Op
<1>2. CASE UNCHANGED <<ask[q], pc[q], todo[q]>>
  BY <1>1, <1>2 DEF Charging, Op
<1>3. CASE \E a \in Asks : Begin(q, a)
  BY <1>1, <1>3, NotWaiting, PlacesNext DEF Begin, TypeInv, TypeOK
<1>4. CASE Increase(q)
  BY <1>1, <1>4 DEF Increase, TypeInv, Standing, Fits, Op
<1>5. CASE Reduce(q)
  BY <1>1, <1>5 DEF Reduce, Op
<1>6. CASE Records(q)
  <2>1. ask' = ask /\ pc[q] = "record" /\ \E k \in todo[q] : Owes(q, todo[q] \ {k})
    BY <1>6 DEF Records
  <2>2. QED
    BY <1>1, <2>1 DEF Owes, Charging, Op
<1>7. \/ UNCHANGED <<ask[q], pc[q], todo[q]>>
      \/ \E a \in Asks : Begin(q, a)
      \/ Increase(q) \/ Reduce(q) \/ Records(q)
  BY <1>1, WhoActs
  DEF Walks, ReduceThrows, Initialize, Use, Count, Uncount, Insert, Delete, Abandons, Abandon, GoTo
<1>8. QED
  BY <1>1, <1>2, <1>3, <1>4, <1>5, <1>6, <1>7

LEMMA ChargedOnceNext ==
    ASSUME TypeInv, ChargedOnce, [Next]_vars
    PROVE  ChargedOnce'
<1>1. SUFFICES ASSUME NEW r \in Requests, Charging(r)', User(r)' \notin repeated'
               PROVE  /\ \A q \in Requests : Charging(q)' /\ User(q)' = User(r)' => q = r
                      /\ \A e \in ledger' :
                            e.user = User(r)' /\ e.ref = "node" => e.kind \notin todo'[r]
  BY DEF ChargedOnce
<1>2. /\ todo \in [Requests -> SUBSET Kinds]
      /\ \A q \in Requests : Charging(q)' => User(q)' = User(q)
  BY WhoCharges DEF TypeInv, TypeOK, User
<1>3. repeated \subseteq repeated'
  BY StepCases
  DEF vars, history, Begin, Walks, Increase, Reduce, ReduceThrows, Records, Initialize, Count,
      Uncount, Insert, Delete, CallThrows, Crash
<1>4. User(r) \notin repeated /\ User(r)' = User(r)
  BY <1>1, <1>2, <1>3
\* Who takes credits for the node after somebody else is among the repeated.
<1>5. ASSUME NEW q \in Requests, Reduce(q), Op(q) = "run", User(q) = User(r)
      PROVE  /\ \A p \in Requests \ {q} : ~(Charging(p) /\ User(p) = User(r))
             /\ \A e \in ledger : ~(e.user = User(r) /\ e.ref = "node")
  <2>1. repeated' = repeated \cup
            {u \in {User(q)} : \/ \E e \in ledger : e.user = u /\ e.ref = "node"
                               \/ \E p \in Requests \ {q} :
                                      pc[p] = "record" /\ Op(p) = "run" /\ User(p) = u}
    BY <1>5 DEF Reduce
  <2>2. User(q) \notin repeated'
    BY <1>1, <1>4, <1>5
  <2>3. QED
    BY <1>5, <2>1, <2>2 DEF Charging
<1>6. ASSUME NEW q \in Requests, Charging(q)', User(q)' = User(r)', q # r
      PROVE  FALSE
  <2>1. User(q) = User(r)
    BY <1>2, <1>4, <1>6
  <2>2. ~(Charging(q) /\ Charging(r))
    BY <1>4, <1>6, <2>1 DEF ChargedOnce
  <2>3. \A p \in Requests : Charging(p)' => Charging(p) \/ (Reduce(p) /\ Op(p) = "run")
    BY WhoCharges
  <2>4. ~(Reduce(q) /\ Reduce(r))
    <3>1. ASSUME Reduce(q), Reduce(r) PROVE FALSE
      <4>1. pc \in [Requests -> Pcs] /\ pc[r] = "reduce"
        BY <3>1 DEF Reduce, TypeInv, TypeOK
      <4>2. pc'[r] = "reduce"
        BY <1>6, <3>1, <4>1 DEF Reduce, Owes, GoTo
      <4>3. QED
        BY <1>1, <4>2 DEF Charging
    <3>2. QED
      BY <3>1
  <2>5. QED
    BY <1>1, <1>5, <1>6, <2>1, <2>2, <2>3, <2>4
<1>7. ASSUME NEW e \in ledger', e.user = User(r), e.ref = "node"
      PROVE  e.kind \notin todo'[r]
  <2>1. CASE e \in ledger
    <3>1. CASE Reduce(r) /\ Op(r) = "run"
      BY <1>5, <1>7, <2>1, <3>1
    <3>2. CASE Charging(r) /\ todo'[r] \subseteq todo[r]
      BY <1>4, <1>7, <2>1, <3>2 DEF ChargedOnce
    <3>3. QED
      BY <1>1, <3>1, <3>2, WhoCharges
  <2>2. CASE e \notin ledger
    <3>1. PICK q \in Requests, k \in Kinds :
             Records(q) /\ e = Entry(q, k) /\ todo'[q] = todo[q] \ {k}
      BY <1>2, <1>7, <2>2, LedgerGrows
    <3>2. e.kind = k /\ User(q) = User(r) /\ Charging(q)
      BY <1>7, <3>1, AccountsAssumption DEF Entry, Records, Charging
    <3>3. ~Reduce(r)
      <4>1. ASSUME Reduce(r) PROVE FALSE
        <5>1. ledger' = ledger
          BY <4>1 DEF Reduce
        <5>2. QED
          BY <1>7, <2>2, <5>1
      <4>2. QED
        BY <4>1
    <3>4. Charging(r)
      BY <1>1, <3>3, WhoCharges
    <3>5. q = r
      BY <1>4, <3>2, <3>4 DEF ChargedOnce
    <3>6. QED
      BY <3>1, <3>2, <3>5
  <2>3. QED
    BY <2>1, <2>2
<1>8. QED
  BY <1>4, <1>6, <1>7
-------------------------------------------------------------------------------
\* What is said is a number of credits.
LEMMA SaidType ==
    ASSUME TypeInv, NEW e \in ledger \cup Pending
    PROVE  Signed(e) \in Int
<1>1. CASE e \in ledger
  BY <1>1 DEF Signed, TypeInv, TypeOK
<1>2. CASE e \in Pending
  <2>1. PICK r \in Requests, k \in Kinds : e = Entry(r, k) /\ pc[r] = "record"
    BY <1>2 DEF Pending, TypeInv, TypeOK
  <2>2. Op(r) \in Ops
    BY <2>1, Asked DEF TypeInv, TypeOK
  <2>3. Delta[Op(r)][k] \in Nat
    BY <2>2, AccountsAssumption
  <2>4. e.amount \in Nat
    BY <2>1, <2>3 DEF Entry
  <2>5. QED
    BY <2>4 DEF Signed
<1>3. QED
  BY <1>1, <1>2

\* Nothing new is said if no request owes another transaction than before.
LEMMA SamePending ==
    ASSUME TypeInv, TypeInv',
           \A r \in Requests : todo'[r] = todo[r] /\ (todo[r] # {} => ask'[r] = ask[r])
    PROVE  Pending' = Pending
<1>1. \A r \in Requests : /\ pc[r] = "record" <=> todo[r] # {}
                          /\ pc'[r] = "record" <=> todo'[r] # {}
  BY DEF TypeInv, TypeOK
<1>2. \A r \in Requests, k \in Kinds : todo[r] # {} => Entry(r, k)' = Entry(r, k)
  BY DEF Entry, Op, User
<1>3. \A r \in Requests : todo[r] \subseteq Kinds
  BY DEF TypeInv, TypeOK
<1>4. ASSUME NEW e PROVE e \in Pending' <=> e \in Pending
  BY <1>1, <1>2, <1>3 DEF Pending
<1>5. QED
  BY <1>4

\* A request that has moved credits is about to say so.
LEMMA NewSaid ==
    ASSUME TypeInv, TypeInv', NEW r \in Requests, pc[r] \in {"increase", "reduce"},
           ask' = ask, ledger' = ledger, Owes(r, Moved(Op(r)))
    PROVE  (ledger \cup Pending)' = (ledger \cup Pending) \cup {Entry(r, k) : k \in Moved(Op(r))}
<1>1. \A q \in Requests : /\ pc[q] = "record" <=> todo[q] # {}
                          /\ pc'[q] = "record" <=> todo'[q] # {}
                          /\ todo[q] \subseteq Kinds
  BY DEF TypeInv, TypeOK
<1>2. \A q \in Requests, k \in Kinds : Entry(q, k)' = Entry(q, k)
  BY DEF Entry, Op, User
<1>3. /\ todo[r] = {} /\ todo'[r] = Moved(Op(r))
      /\ \A q \in Requests \ {r} : todo'[q] = todo[q]
  BY <1>1 DEF Owes, TypeInv, TypeOK
<1>4. Moved(Op(r)) \subseteq Kinds
  BY DEF Moved
<1>5. ASSUME NEW e
      PROVE  e \in Pending' <=> e \in Pending \/ \E k \in Moved(Op(r)) : e = Entry(r, k)
  <2>1. e \in Pending <=> \E q \in Requests : \E k \in todo[q] : e = Entry(q, k)
    BY <1>1 DEF Pending
  <2>2. e \in Pending' <=> \E q \in Requests : \E k \in todo'[q] : e = Entry(q, k)
    BY <1>1, <1>2, <1>3, <1>4 DEF Pending
  <2>3. QED
    BY <1>3, <2>1, <2>2
<1>6. QED
  BY <1>5

\* ... and has not said it yet, unless it is the second to charge for the node.
LEMMA NotYetSaid ==
    ASSUME TypeInv, Recorded, NEW r \in Requests, pc[r] \in {"increase", "reduce"}, NEW k \in Kinds,
           Op(r) = "run" =>
              /\ \A q \in Requests \ {r} : ~(Charging(q) /\ User(q) = User(r))
              /\ \A e \in ledger : ~(e.user = User(r) /\ e.ref = "node")
    PROVE  Entry(r, k) \notin ledger \cup Pending
<1>1. Entry(r, k).user = User(r) /\ Entry(r, k).ref = IF Op(r) = "run" THEN "node" ELSE r
  BY DEF Entry
<1>2. Entry(r, k) \notin ledger
  <2>1. CASE Op(r) = "run"
    BY <1>1, <2>1
  <2>2. CASE Op(r) # "run"
    BY <1>1, <2>2 DEF Recorded
  <2>3. QED
    BY <2>1, <2>2
<1>3. ASSUME Entry(r, k) \in Pending PROVE FALSE
  <2>1. PICK q \in Requests, j \in Kinds : pc[q] = "record" /\ Entry(r, k) = Entry(q, j)
    BY <1>3 DEF Pending, TypeInv, TypeOK
  <2>2. Entry(q, j).user = User(q) /\ Entry(q, j).ref = IF Op(q) = "run" THEN "node" ELSE q
    BY DEF Entry
  <2>3. q # r
    BY <2>1
  <2>4. Op(r) = "run" /\ Op(q) = "run" /\ User(q) = User(r)
    BY <1>1, <2>1, <2>2, <2>3, AccountsAssumption
  <2>5. QED
    BY <2>1, <2>3, <2>4 DEF Charging
<1>4. QED
  BY <1>2, <1>3

\* The balance moves by what is about to be said.
LEMMA MovedIsSaid ==
    ASSUME TypeInv, TypeInv', Recorded, [Next]_vars, NEW r \in Requests, Increase(r) \/ Reduce(r),
           NEW u \in Users, u \notin repeated', NEW k \in Kinds,
           IsFiniteSet(Said(u, k)), balance[u][k] = Sum(Said(u, k))
    PROVE  IsFiniteSet(Said(u, k)') /\ balance'[u][k] = Sum(Said(u, k)')
<1>1. /\ pc[r] \in {"increase", "reduce"} /\ ask' = ask /\ ledger' = ledger
      /\ Owes(r, Moved(Op(r)))
  BY DEF Increase, Reduce, TypeInv, Standing, Fits
<1>2. User(r) \in Users /\ Op(r) \in Ops
  BY <1>1, Asked DEF TypeInv, TypeOK
<1>3. Delta[Op(r)][k] \in Nat /\ balance \in [Users -> [Kinds -> Nat]] /\ balance[u][k] \in Nat
  BY <1>2, AccountsAssumption DEF TypeInv, TypeOK
<1> DEFINE new == {Entry(r, j) : j \in Moved(Op(r))}
<1>4. (ledger \cup Pending)' = (ledger \cup Pending) \cup new
  BY <1>1, NewSaid
<1>5. \A j \in Kinds : Entry(r, j).user = User(r) /\ Entry(r, j).kind = j
  BY DEF Entry
<1>6. Said(u, k)' = IF u = User(r) /\ k \in Moved(Op(r)) THEN Said(u, k) \cup {Entry(r, k)}
                    ELSE Said(u, k)
  <2>1. \A j \in Moved(Op(r)) : j \in Kinds
    BY DEF Moved
  <2>2. Said(u, k)' = {e \in (ledger \cup Pending) \cup new : e.user = u /\ e.kind = k}
    BY <1>4 DEF Said
  <2>3. QED
    BY <1>5, <2>1, <2>2 DEF Said
<1>7. balance'[u][k] = IF u # User(r) THEN balance[u][k]
                       ELSE balance[u][k] + Signed(Entry(r, k))
  <2>1. CASE Increase(r)
    <3>1. Op(r) = "grant"
      BY <2>1 DEF Increase, TypeInv, Standing, Fits
    <3>2. balance' = [balance EXCEPT ![User(r)] = Plus(balance[User(r)], Delta["grant"])]
      BY <2>1 DEF Increase
    <3>3. Signed(Entry(r, k)) = Delta["grant"][k]
      BY <3>1 DEF Signed, Entry
    <3>4. QED
      BY <1>2, <1>3, <3>2, <3>3 DEF Plus
  <2>2. CASE Reduce(r)
    <3>1. Op(r) # "grant"
      BY <2>2 DEF Reduce, TypeInv, Standing, Fits
    <3>2. balance' = [balance EXCEPT ![User(r)] =
                         [j \in Kinds |-> balance[User(r)][j] - Delta[Op(r)][j]]]
      BY <2>2 DEF Reduce
    <3>3. Signed(Entry(r, k)) = -Delta[Op(r)][k]
      BY <3>1 DEF Signed, Entry
    <3>4. QED
      BY <1>2, <1>3, <3>2, <3>3
  <2>3. QED
    BY <2>1, <2>2
<1>8. CASE u = User(r) /\ k \in Moved(Op(r))
  <2>1. Op(r) = "run" =>
           /\ \A q \in Requests \ {r} : ~(Charging(q) /\ User(q) = User(r))
           /\ \A e \in ledger : ~(e.user = User(r) /\ e.ref = "node")
    <3>1. SUFFICES ASSUME Op(r) = "run"
                   PROVE  /\ \A q \in Requests \ {r} : ~(Charging(q) /\ User(q) = User(r))
                          /\ \A e \in ledger : ~(e.user = User(r) /\ e.ref = "node")
      OBVIOUS
    <3>2. Reduce(r)
      BY <3>1 DEF Increase, TypeInv, Standing, Fits
    <3>3. repeated' = repeated \cup
              {v \in {User(r)} : \/ \E e \in ledger : e.user = v /\ e.ref = "node"
                                 \/ \E p \in Requests \ {r} :
                                        pc[p] = "record" /\ Op(p) = "run" /\ User(p) = v}
      BY <3>1, <3>2 DEF Reduce
    <3>4. QED
      BY <1>8, <3>3 DEF Charging
  <2>2. Entry(r, k) \notin Said(u, k)
    BY <1>1, <2>1, NotYetSaid DEF Said
  <2>3. Signed(Entry(r, k)) \in Int
    <3>1. Entry(r, k).amount \in Nat
      BY <1>3 DEF Entry
    <3>2. QED
      BY <3>1 DEF Signed
  <2>4. \A e \in Said(u, k) : Signed(e) \in Int
    BY SaidType DEF Said
  <2>5. /\ IsFiniteSet(Said(u, k) \cup {Entry(r, k)})
        /\ Sum(Said(u, k) \cup {Entry(r, k)}) = Sum(Said(u, k)) + Signed(Entry(r, k))
    BY <2>2, <2>3, <2>4, SumAdds, FS_AddElement
  <2>6. QED
    BY <1>6, <1>7, <1>8, <2>5
<1>9. CASE u # User(r)
  BY <1>6, <1>7, <1>9
<1>10. CASE u = User(r) /\ k \notin Moved(Op(r))
  <2>1. Entry(r, k).amount = 0
    BY <1>3, <1>10 DEF Moved, Entry
  <2>2. Signed(Entry(r, k)) = 0
    <3>1. \A n \in Int : -n = 0 <=> n = 0
      OBVIOUS
    <3>2. 0 \in Int
      OBVIOUS
    <3>3. QED
      BY <2>1, <3>1, <3>2, Zenon DEF Signed
  <2>3. balance'[u][k] = balance[u][k]
    BY <1>3, <1>7, <1>10, <2>2
  <2>4. QED
    BY <1>6, <1>10, <2>3
<1>11. QED
  BY <1>8, <1>9, <1>10

\* Who gets no further owes nothing, and its user is among the torn.
LEMMA LostIsTorn ==
    ASSUME TypeInv, TypeInv', NEW rs \in SUBSET Requests, Abandons(rs),
           NEW u \in Users, u \notin torn', NEW k \in Kinds
    PROVE  Said(u, k)' = Said(u, k)
<1>1. \A r \in Requests : /\ pc[r] = "record" <=> todo[r] # {}
                          /\ pc'[r] = "record" <=> todo'[r] # {}
                          /\ todo[r] \subseteq Kinds
  BY DEF TypeInv, TypeOK
<1>2. /\ ask' = ask /\ ledger' = ledger
      /\ todo' = [r \in Requests |-> IF r \in rs THEN {} ELSE todo[r]]
      /\ torn' = torn \cup {User(r) : r \in {q \in rs : pc[q] = "record"}}
  BY DEF Abandons, Abandon, credits
<1>3. \A r \in Requests, j \in Kinds :
         Entry(r, j)' = Entry(r, j) /\ Entry(r, j).user = User(r)
  BY <1>2 DEF Entry, Op, User
<1>4. ASSUME NEW e, e.user = u
      PROVE  e \in Pending' <=> e \in Pending
  <2>1. e \in Pending <=> \E q \in Requests : \E j \in todo[q] : e = Entry(q, j)
    BY <1>1 DEF Pending
  <2>2. e \in Pending' <=> \E q \in Requests : \E j \in todo'[q] : e = Entry(q, j)
    <3>1. \A q \in Requests : todo'[q] \subseteq Kinds
      BY <1>1, <1>2
    <3>2. QED
      BY <1>1, <1>3, <3>1 DEF Pending
  <2>3. \A q \in rs : todo[q] # {} => User(q) # u
    BY <1>1, <1>2
  <2>4. \A q \in Requests : User(q) = u => todo'[q] = todo[q]
    BY <1>2, <2>3
  <2>5. \A q \in Requests, j \in Kinds : e = Entry(q, j) => User(q) = u
    BY <1>3, <1>4
  <2>6. \A q \in Requests : todo[q] \subseteq Kinds /\ todo'[q] \subseteq Kinds
    BY <1>1, <1>2
  <2>7. QED
    BY <2>1, <2>2, <2>4, <2>5, <2>6
<1>5. QED
  BY <1>2, <1>4 DEF Said

\* What is recorded was pending, and is written, unless the user was charged twice.
LEMMA RecordedIsSaid ==
    ASSUME TypeInv, TypeInv', Recorded, ChargedOnce, NEW r \in Requests, Records(r),
           NEW u \in Users, u \notin repeated, NEW k \in Kinds
    PROVE  Said(u, k)' = Said(u, k)
<1>1. \A q \in Requests : /\ pc[q] = "record" <=> todo[q] # {}
                          /\ pc'[q] = "record" <=> todo'[q] # {}
                          /\ todo[q] \subseteq Kinds
  BY DEF TypeInv, TypeOK
<1>2. PICK j \in todo[r] : CreateConfirmed(Entry(r, j)) /\ Owes(r, todo[r] \ {j})
  BY DEF Records
<1>3. /\ ask' = ask /\ pc[r] = "record" /\ j \in Kinds
      /\ todo'[r] = todo[r] \ {j} /\ \A q \in Requests \ {r} : todo'[q] = todo[q]
  BY <1>1, <1>2 DEF Records, Owes, TypeInv, TypeOK
<1>4. \A q \in Requests, i \in Kinds : Entry(q, i)' = Entry(q, i)
  BY <1>3 DEF Entry, Op, User
<1> DEFINE e0 == Entry(r, j)
<1>5. e0.user = User(r) /\ e0.kind = j /\ e0.ref = IF Op(r) = "run" THEN "node" ELSE r
  BY DEF Entry
<1>6. e0.user \notin repeated => ledger' = ledger \cup {e0}
  <2>1. ASSUME User(r) \notin repeated, NEW d \in ledger, Key(d) = Key(e0) PROVE FALSE
    <3>1. d.user = User(r) /\ d.kind = j /\ d.ref = IF Op(r) = "run" THEN "node" ELSE r
      BY <1>5, <2>1 DEF Key
    <3>2. CASE Op(r) = "run"
      BY <1>3, <2>1, <3>1, <3>2 DEF ChargedOnce, Charging
    <3>3. CASE Op(r) # "run"
      BY <2>1, <3>1, <3>3 DEF Recorded
    <3>4. QED
      BY <3>2, <3>3
  <2>2. QED
    BY <1>2, <1>5, <2>1 DEF CreateConfirmed
<1>7. ledger \subseteq ledger' /\ ledger' \subseteq ledger \cup {e0}
  BY <1>2 DEF CreateConfirmed
<1>8. e0 \in Pending /\ Pending' \subseteq Pending /\ Pending \subseteq Pending' \cup {e0}
  <2>1. \A e : e \in Pending <=> \E q \in Requests : \E i \in todo[q] : e = Entry(q, i)
    BY <1>1 DEF Pending
  <2>2. \A e : e \in Pending' <=> \E q \in Requests : \E i \in todo'[q] : e = Entry(q, i)
    <3>1. \A q \in Requests : todo'[q] \subseteq Kinds
      BY <1>1, <1>3
    <3>2. QED
      BY <1>1, <1>4, <3>1 DEF Pending
  <2>3. ASSUME NEW e \in Pending, e # e0 PROVE e \in Pending'
    <3>1. PICK q \in Requests : \E i \in todo[q] : e = Entry(q, i)
      BY <2>1, <2>3
    <3>2. PICK i \in todo[q] : e = Entry(q, i)
      BY <3>1
    <3>3. i \in todo'[q]
      BY <1>3, <2>3, <3>2
    <3>4. QED
      BY <2>2, <3>2, <3>3
  <2>4. \A q \in Requests : todo'[q] \subseteq todo[q]
    BY <1>3
  <2>5. QED
    BY <2>1, <2>2, <2>3, <2>4
<1>9. QED
  <2> HIDE DEF e0
  <2>1. ASSUME NEW e, e.user = u
        PROVE  e \in (ledger \cup Pending)' <=> e \in ledger \cup Pending
    <3>1. CASE e = e0
      BY <1>6, <1>8, <2>1, <3>1
    <3>2. CASE e # e0
      BY <1>7, <1>8, <3>2
    <3>3. QED
      BY <3>1, <3>2
  <2>2. QED
    BY <2>1 DEF Said

LEMMA BalancedNext ==
    ASSUME TypeInv, Recorded, ChargedOnce, Balanced, [Next]_vars
    PROVE  Balanced'
<1>1. TypeInv'
  BY TypeNext
<1>2. torn \subseteq torn' /\ repeated \subseteq repeated'
  BY StepCases
  DEF vars, history, Begin, Walks, Increase, Reduce, ReduceThrows, Records, Initialize, Count,
      Uncount, Insert, Delete, CallThrows, Crash, Abandon
<1>3. SUFFICES ASSUME NEW u \in Users, u \notin torn', u \notin repeated', NEW k \in Kinds
               PROVE  IsFiniteSet(Said(u, k)') /\ balance'[u][k] = Sum(Said(u, k)')
  BY DEF Balanced
<1>4. IsFiniteSet(Said(u, k)) /\ balance[u][k] = Sum(Said(u, k)) /\ u \notin repeated
  BY <1>2, <1>3 DEF Balanced
<1>5. CASE \E r \in Requests : Increase(r) \/ Reduce(r)
  BY <1>1, <1>3, <1>4, <1>5, MovedIsSaid
<1>6. CASE \E r \in Requests : Records(r)
  <2>1. PICK r \in Requests : Records(r)
    BY <1>6
  <2>2. Said(u, k)' = Said(u, k) /\ balance' = balance
    BY <1>1, <1>4, <2>1, RecordedIsSaid DEF Records
  <2>3. QED
    BY <1>4, <2>2
<1>7. CASE \E rs \in SUBSET Requests : Abandons(rs)
  <2>1. PICK rs \in SUBSET Requests : Abandons(rs)
    BY <1>7
  <2>2. Said(u, k)' = Said(u, k) /\ balance' = balance
    BY <1>1, <1>3, <2>1, LostIsTorn DEF Abandons, credits
  <2>3. QED
    BY <1>4, <2>2
<1>8. CASE \/ UNCHANGED vars
           \/ \E r \in Requests, a \in Asks : Begin(r, a)
           \/ \E r \in Requests :
                 \/ Walks(r) \/ ReduceThrows(r) \/ Initialize(r) \/ Count(r) \/ Uncount(r)
                 \/ Insert(r) /\ Picture(r) \notin images
                 \/ Delete(r) /\ Picture(r) \in images
  <2>1. UNCHANGED <<ledger, balance, todo>>
    BY <1>8
    DEF vars, credits, request, Begin, Walks, ReduceThrows, Initialize, Count, Uncount, Insert,
        Delete
  <2>2. \A r \in Requests : todo[r] # {} => ask'[r] = ask[r]
    <3>1. ask' = ask \/ \E r \in Requests, a \in Asks : Begin(r, a)
      BY <1>8 DEF vars, request, Walks, ReduceThrows, Initialize, Count, Uncount, Insert, Delete
    <3>2. ASSUME NEW r \in Requests, NEW a \in Asks, Begin(r, a)
          PROVE  todo[r] = {} /\ \A q \in Requests \ {r} : ask'[q] = ask[q]
      BY <3>2 DEF Begin, TypeInv, TypeOK
    <3>3. QED
      BY <3>1, <3>2
  <2>3. Pending' = Pending
    BY <1>1, <2>1, <2>2, SamePending
  <2>4. QED
    BY <1>4, <2>1, <2>3 DEF Said
<1>9. QED
  BY <1>5, <1>6, <1>7, <1>8, StepCases, WhoAbandons

LEMMA BalancedInit ==
    ASSUME Init
    PROVE  Recorded /\ ChargedOnce /\ Balanced
<1>1. TypeInv
  BY TypeInit
<1>2. Recorded
  BY AccountsAssumption DEF Init, Opening, Recorded
<1>3. ChargedOnce
  BY DEF Init, ChargedOnce, Charging
<1>4. Pending = {}
  BY DEF Init, Pending
<1>5. ASSUME NEW u \in Users, NEW k \in Kinds
      PROVE  IsFiniteSet(Said(u, k)) /\ balance[u][k] = Sum(Said(u, k))
  <2>1. balance[u][k] = (IF u \in known THEN Initial[k] ELSE 0) /\ Initial[k] \in Nat
    BY AccountsAssumption DEF Init, Nothing
  <2> DEFINE e0 == [user |-> u, credit |-> TRUE, kind |-> k, amount |-> Initial[k],
                    ref |-> "first"]
  <2>2. Said(u, k) = IF u \in known /\ Initial[k] > 0 THEN {e0} ELSE {}
    <3>1. ledger = Opening(known)
      BY DEF Init
    <3>2. QED
      BY <1>4, <1>5, <3>1 DEF Said, Opening
  <2>3. Signed(e0) = Initial[k]
    BY DEF Signed
  <2>4. CASE u \in known /\ Initial[k] > 0
    <3>1. Some({e0}) = e0 /\ {e0} \ {e0} = {}
      BY SomeIsIn
    <3>2. IsFiniteSet({e0})
      BY FS_Singleton
    <3>3. Sum({e0}) = Signed(e0) + Sum({})
      <4> HIDE DEF e0
      <4>1. {e0} # {}
        OBVIOUS
      <4>2. QED
        BY <3>1, <3>2, <4>1, SumStep, Zenon
    <3>4. Initial[k] + 0 = Initial[k]
      BY <2>1
    <3>5. Sum({e0}) = Initial[k]
      BY <2>3, <3>3, <3>4, SumOfNone, Zenon
    <3>6. QED
      BY <2>1, <2>2, <2>4, <3>2, <3>5
  <2>5. CASE ~(u \in known /\ Initial[k] > 0)
    BY <2>1, <2>2, <2>5, SumOfNone, FS_EmptySet
  <2>6. QED
    BY <2>4, <2>5
<1>6. QED
  BY <1>2, <1>3, <1>5 DEF Balanced

\* The balances and the history that is written after them say the same, as long as no fault
\* falls between the two and nobody is charged twice for the node.
THEOREM BalancesMatch == Spec => []BalanceIsHistory
<1>1. Init => TypeInv /\ Recorded /\ ChargedOnce /\ Balanced
  BY TypeInit, BalancedInit
<1>2. TypeInv /\ Recorded /\ ChargedOnce /\ Balanced /\ [Next]_vars
         => (TypeInv /\ Recorded /\ ChargedOnce /\ Balanced)'
  BY TypeNext, RecordedNext, ChargedOnceNext, BalancedNext
<1>3. Balanced => BalanceIsHistory
  BY DEF Balanced, BalanceIsHistory, Total, Said, Sum
<1>4. QED
  BY <1>1, <1>2, <1>3, PTL DEF Spec
-------------------------------------------------------------------------------
\* Who stores and deletes what.
LEMMA ImagesChange ==
    ASSUME TypeInv, [Next]_vars
    PROVE  \/ UNCHANGED <<images, maker>>
           \/ \E r \in Requests : Insert(r) /\ Picture(r) \notin images
           \/ \E r \in Requests : Delete(r) /\ Picture(r) \in images
BY StepCases
DEF vars, gallery, history, past, Begin, Walks, Increase, Reduce, ReduceThrows, Records, Initialize,
    Count, Uncount, CallThrows, Crash

\* What a request has been asked stays.
LEMMA AskedStays ==
    ASSUME TypeInv, [Next]_vars, NEW r \in Requests, ask[r] # None
    PROVE  ask'[r] = ask[r]
<1>1. ask \in [Requests -> Asks \cup {None}]
  BY DEF TypeInv, TypeOK
<1>2. ask' = ask \/ \E q \in Requests, a \in Asks : Begin(q, a)
  BY StepCases
  DEF vars, request, Walks, Increase, Reduce, ReduceThrows, Records, Initialize, Count, Uncount,
      Insert, Delete, CallThrows, Crash
<1>3. QED
  BY <1>1, <1>2 DEF Begin

LEMMA MadeNext ==
    ASSUME TypeInv, Made, [Next]_vars
    PROVE  Made'
<1>1. SUFFICES ASSUME NEW p \in images'
               PROVE  /\ ask'[maker'[p]] # None /\ ask'[maker'[p]].op = "store"
                      /\ <<ask'[maker'[p]].user, ask'[maker'[p]].image>> = p
  BY DEF Made, Op, Picture
<1>2. /\ maker \in [images -> Requests]
      /\ \A r \in Requests : pc[r] # "idle" => ask[r] # None
  BY DEF TypeInv, TypeOK
<1>3. \/ p \in images /\ maker'[p] = maker[p]
      \/ \E r \in Requests : Insert(r) /\ p = Picture(r) /\ maker'[p] = r
  BY <1>1, <1>2, ImagesChange DEF Insert, Delete
<1>4. CASE p \in images /\ maker'[p] = maker[p]
  <2>1. ask[maker[p]] # None /\ Op(maker[p]) = "store" /\ Picture(maker[p]) = p
    BY <1>4 DEF Made
  <2>2. ask'[maker[p]] = ask[maker[p]]
    BY <1>2, <1>4, <2>1, AskedStays
  <2>3. QED
    BY <1>4, <2>1, <2>2 DEF Op, Picture
<1>5. CASE \E r \in Requests : Insert(r) /\ p = Picture(r) /\ maker'[p] = r
  <2>1. PICK r \in Requests : Insert(r) /\ p = Picture(r) /\ maker'[p] = r
    BY <1>5
  <2>2. pc[r] = "insert" /\ Op(r) = "store" /\ ask' = ask
    BY <2>1 DEF Insert, TypeInv, Standing, Fits
  <2>3. QED
    BY <1>2, <2>1, <2>2 DEF Op, Picture
<1>6. QED
  BY <1>3, <1>4, <1>5

\* Each image is paid for.
Paid == \A p \in images : Pays(maker[p]) \/ maker[p] \in unpaid \/ p[1] \in torn

LEMMA PaidNext ==
    ASSUME TypeInv, TypeInv', Made, Paid, [Next]_vars
    PROVE  Paid'
<1>1. SUFFICES ASSUME NEW p \in images'
               PROVE  (Pays(maker[p]) \/ maker[p] \in unpaid \/ p[1] \in torn)'
  BY DEF Paid
<1>2. /\ maker \in [images -> Requests] /\ maker' \in [images' -> Requests]
      /\ pc \in [Requests -> Pcs] /\ todo \in [Requests -> SUBSET Kinds]
      /\ \A r \in Requests : pc[r] # "idle" => ask[r] # None
  BY DEF TypeInv, TypeOK
<1>3. \/ p \in images /\ maker'[p] = maker[p]
      \/ \E r \in Requests : Insert(r) /\ p = Picture(r) /\ maker'[p] = r /\ GoTo(r, "count")
  BY <1>1, <1>2, ImagesChange DEF Insert, Delete
<1>4. torn \subseteq torn' /\ unpaid \subseteq unpaid' /\ ledger \subseteq ledger'
  <2>1. torn \subseteq torn' /\ unpaid \subseteq unpaid'
    BY StepCases
    DEF vars, history, Begin, Walks, Increase, Reduce, ReduceThrows, Records, Initialize, Count,
        Uncount, Insert, Delete, CallThrows, Crash, Abandon
  <2>2. QED
    BY <2>1, LedgerGrows
<1>5. CASE \E r \in Requests : Insert(r) /\ p = Picture(r) /\ maker'[p] = r /\ GoTo(r, "count")
  BY <1>2, <1>5 DEF GoTo, Pays
<1>6. CASE p \in images /\ maker'[p] = maker[p]
  <2>0. PICK m : m = maker[p]
    OBVIOUS
  <2>1. m \in Requests /\ ask[m] # None /\ Op(m) = "store" /\ Picture(m) = p
    BY <1>2, <1>6, <2>0 DEF Made
  <2>2. User(m) = p[1]
    BY <2>1, Asked
  <2>3. Pays(m) \/ m \in unpaid \/ p[1] \in torn
    BY <1>6, <2>0 DEF Paid
  <2>4. SUFFICES ASSUME pc[m] \in {"count", "reduce", "record"}, Moved("store") # {}
                 PROVE  \/ pc'[m] \in {"count", "reduce", "record"}
                        \/ \E e \in ledger' : e.ref = m
                        \/ m \in unpaid' \/ p[1] \in torn'
    BY <1>4, <1>6, <2>0, <2>3 DEF Pays
  <2>5. CASE UNCHANGED <<ask[m], pc[m], todo[m]>>
    BY <2>4, <2>5
  <2>6. CASE Count(m)
    BY <1>2, <2>1, <2>6 DEF Count, GoTo
  <2>7. CASE Reduce(m)
    BY <1>2, <2>1, <2>4, <2>7 DEF Reduce, Owes, GoTo
  <2>8. CASE ReduceThrows(m)
    BY <2>1, <2>8 DEF ReduceThrows
  <2>9. CASE Records(m)
    <3>1. PICK k \in todo[m] : CreateConfirmed(Entry(m, k))
      BY <2>9 DEF Records
    <3>2. \E e \in ledger' : Key(e) = Key(Entry(m, k))
      BY <3>1 DEF CreateConfirmed
    <3>3. Entry(m, k).ref = m
      BY <2>1 DEF Entry
    <3>4. QED
      BY <3>2, <3>3 DEF Key
  <2>10. CASE \E rs \in SUBSET Requests : m \in rs /\ Abandons(rs)
    BY <2>1, <2>2, <2>4, <2>10 DEF Abandons, Abandon
  <2>11. ~ \/ \E a \in Asks : Begin(m, a)
           \/ Walks(m) \/ Increase(m) \/ Initialize(m) \/ Uncount(m) \/ Insert(m) \/ Delete(m)
    BY <2>1, <2>4 DEF Begin, Walks, Increase, Initialize, Uncount, Insert, Delete
  <2>12. QED
    BY <2>1, <2>5, <2>6, <2>7, <2>8, <2>9, <2>10, <2>11, WhoActs
<1>7. QED
  BY <1>3, <1>5, <1>6

\* What was deleted stays so.
LEMMA GoneStays == ASSUME TypeInv, [Next]_vars PROVE gone \subseteq gone'
BY StepCases
DEF vars, history, past, Begin, Walks, Increase, Reduce, ReduceThrows, Records, Initialize,
    Count, Uncount, Insert, Delete, CallThrows, Crash, Abandon, Abandons

LEMMA KeptNext ==
    ASSUME TypeInv, Recorded, Kept, [Next]_vars
    PROVE  Kept'
<1>1. SUFFICES ASSUME NEW r \in Requests, ask'[r] # None, ask'[r].op = "store",
                      \/ pc'[r] \in {"count", "reduce", "record"}
                      \/ \E e \in ledger' : e.ref = r,
                      <<ask'[r].user, ask'[r].image>> \notin gone'
               PROVE  <<ask'[r].user, ask'[r].image>> \in images'
                      /\ maker'[<<ask'[r].user, ask'[r].image>>] = r
  BY DEF Kept, Op, Picture
<1>2. /\ pc \in [Requests -> Pcs] /\ todo \in [Requests -> SUBSET Kinds]
      /\ ask \in [Requests -> Asks \cup {None}] /\ maker \in [images -> Requests]
      /\ \A d \in Requests : pc[d] # "idle" => ask[d] # None
  BY DEF TypeInv, TypeOK
<1>3. gone \subseteq gone'
  BY GoneStays
<1>5. \A p \in images \ gone' : p \in images' /\ maker'[p] = maker[p]
  BY <1>2, ImagesChange DEF Insert, Delete
<1>6. CASE /\ ask[r] # None
           /\ pc[r] \in {"count", "reduce", "record"} \/ \E e \in ledger : e.ref = r
  <2>1. ask'[r] = ask[r]
    BY <1>6, AskedStays
  <2>2. Picture(r) \in images /\ maker[Picture(r)] = r
    BY <1>1, <1>3, <1>6, <2>1 DEF Kept, Op, Picture
  <2>3. QED
    BY <1>1, <1>5, <2>1, <2>2 DEF Picture
<1>7. CASE /\ pc[r] \notin {"count", "reduce", "record"}
           /\ \A e \in ledger : e.ref # r
  <2>1. ASSUME NEW e \in ledger', e.ref = r PROVE FALSE
    <3>1. PICK q \in Requests, k \in Kinds : Records(q) /\ e = Entry(q, k)
      BY <1>2, <1>7, <2>1, LedgerGrows
    <3>2. q = r
      BY <2>1, <3>1, AccountsAssumption DEF Entry
    <3>3. QED
      BY <1>7, <3>1, <3>2 DEF Records
  <2>2. pc'[r] \in {"count", "reduce", "record"} /\ pc'[r] # pc[r]
    BY <1>1, <1>7, <2>1
  <2>3. CASE Insert(r) /\ Picture(r) \notin images
    BY <2>3 DEF Insert, Picture
  <2>4. ~\E a \in Asks : Begin(r, a)
    <3>1. ASSUME NEW a \in Asks, Begin(r, a) PROVE FALSE
      <4>1. a.op = "store" /\ pc'[r] = CASE a.op \in {"grant", "take"} -> "get"
                                         [] a.op \in {"store", "open"} -> "guard"
                                         [] a.op = "delete" -> "init"
                                         [] a.op = "find" -> "find"
                                         [] a.op = "run" -> "reduce"
        BY <1>1, <1>2, <3>1 DEF Begin, GoTo
      <4>2. QED
        BY <2>2, <4>1
    <3>2. QED
      BY <3>1
  <2>5. ~Walks(r)
    <3>1. ASSUME Walks(r) PROVE FALSE
      <4>1. ask' = ask
        BY <3>1 DEF Walks
      <4>2. PICK where \in Pcs \ {"record", "count", "uncount"} :
               GoTo(r, where) /\ (where = "reduce" => Op(r) # "store")
        BY <3>1 DEF Walks
      <4>3. QED
        BY <1>1, <1>2, <2>2, <4>1, <4>2 DEF GoTo, Op
    <3>2. QED
      BY <3>1
  <2>6. ~Increase(r)
    BY <1>1 DEF Increase, TypeInv, Standing, Fits, Op
  <2>7. ~(Reduce(r) \/ ReduceThrows(r) \/ Records(r) \/ Count(r))
    BY <1>7 DEF Reduce, ReduceThrows, Records, Count
  <2>8. ~(Initialize(r) \/ Uncount(r) \/ \E rs \in SUBSET Requests : r \in rs /\ Abandons(rs))
    BY <1>2, <2>2 DEF Initialize, Use, Uncount, Abandons, Abandon, GoTo
  <2>9. ~Delete(r)
    BY <1>2, <2>2 DEF Delete, GoTo
  <2>10. QED
    BY <2>2, <2>3, <2>4, <2>5, <2>6, <2>7, <2>8, <2>9, WhoActs
<1>8. (\E e \in ledger : e.ref = r) => ask[r] # None
  BY DEF Recorded
<1>9. QED
  BY <1>2, <1>6, <1>7, <1>8

\* An image is paid for by the request that stored it, and by no other that stores the same,
\* on whatever server.
THEOREM ImagesArePaidFor == Spec => []PaidFor
<1> DEFINE IInv == TypeInv /\ Recorded /\ Made /\ Paid /\ Kept
<1>1. Init => IInv
  BY TypeInit, BalancedInit DEF Init, Made, Paid, Kept
<1>2. IInv /\ [Next]_vars => IInv'
  BY TypeNext, RecordedNext, MadeNext, PaidNext, KeptNext
<1>3. IInv => PaidFor
  <2>1. ASSUME Made, Kept, NEW p \in (Users \X Images) \ gone, NEW q \in Payers(p),
               NEW r \in Payers(p)
        PROVE  q = r
    <3>1. maker[Picture(q)] = q /\ maker[Picture(r)] = r
      BY <2>1 DEF Kept, Payers
    <3>2. Picture(q) = p /\ Picture(r) = p
      BY DEF Payers
    <3>3. QED
      BY <3>1, <3>2
  <2>2. QED
    BY <2>1 DEF PaidFor, Paid
<1>4. QED
  BY <1>1, <1>2, <1>3, PTL DEF Spec
===============================================================================
