----------------------- MODULE PaymentsAndListingProofs -----------------------
(***************************************************************************)
(* Theorems about Payments, for any chain, any users, any number of        *)
(* handlers and of faults, and about Listing, for any store, any rows and  *)
(* any size of pages.                                                      *)
(***************************************************************************)
EXTENDS Payments, Listing, FiniteSetTheorems, WellFoundedInduction, TLAPS

LEMMA LeastFact ==
    ASSUME NEW S, S \subseteq Nat, S # {}
    PROVE  Least(S) \in S /\ \A q \in S : Least(S) <= q
<1> DEFINE Before == {ss \in Nat \X Nat : ss[1] < ss[2]}
<1>1. IsWellFoundedOn(Before, Nat)
  BY NatLessThanWellFounded DEF OpToRel
<1>2. PICK x \in S : \A y \in S : <<y, x>> \notin Before
  <2> HIDE DEF Before
  <2> QED  BY <1>1, WFMin
<1>3. ASSUME NEW y \in S PROVE x <= y
  <2>1. x \in Nat /\ y \in Nat /\ <<y, x>> \in Nat \X Nat
    OBVIOUS
  <2>2. ~ (y < x)
    BY <1>2, <2>1
  <2>3. QED
    BY <2>1, <2>2
<1>4. QED
  BY <1>3 DEF Least

LEMMA CreditsFact == \A p \in Payments : Credits(p) \in Nat
<1> SUFFICES ASSUME NEW p \in Payments PROVE Credits(p) \in Nat
  OBVIOUS
<1>1. /\ Log[p].raw \in Nat /\ Log[p].scale \in Nat \ {0} /\ CREDITS_PER_USDC \in Nat
  BY PaymentsAssumption
<1>2. Log[p].raw * CREDITS_PER_USDC \in Nat
  BY <1>1
<1>3. QED
  BY <1>1, <1>2 DEF Credits

LEMMA MinFact ==
    \A a, b \in Int : Min({a, b}) \in {a, b} /\ Min({a, b}) <= a /\ Min({a, b}) <= b
BY DEF Min
-------------------------------------------------------------------------------
LEMMA InitType == Init => TypeOK
BY PaymentsAssumption DEF Init, TypeOK, Pcs, Windows

\* What is sent leaves a task of payable logs behind, or none.
LEMMA PublishedType ==
    ASSUME TypeOK, NEW t \in tasks
    PROVE  /\ Least(t.rest) \in t.rest /\ Least(t.rest) \in Payments
           /\ Published(t) \subseteq [scan : Nat, rest : (SUBSET Payable) \ {{}}]
<1>1. t \in [scan : Nat, rest : (SUBSET Payable) \ {{}}]
  BY DEF TypeOK
<1>2. t.rest \subseteq Payments /\ t.rest \subseteq Nat /\ t.rest # {}
  BY <1>1, PaymentsAssumption DEF Payable
<1>3. Least(t.rest) \in t.rest
  BY <1>2, LeastFact
<1>4. ASSUME t.rest # {Least(t.rest)}
      PROVE  [t EXCEPT !.rest = @ \ {Least(t.rest)}]
                \in [scan : Nat, rest : (SUBSET Payable) \ {{}}]
  <2>1. t.rest \ {Least(t.rest)} \in (SUBSET Payable) \ {{}}
    BY <1>1, <1>3, <1>4
  <2>2. QED
    BY <1>1, <2>1
<1>5. QED
  BY <1>2, <1>3, <1>4 DEF Published, TypeOK

LEMMA ListenerType ==
    ASSUME TypeOK, Listener \/ ListenerCrash \/ SaveThrows \/ NewBlock
    PROVE  TypeOK'
<1>1. CASE Scan
  <2> DEFINE full == start + BLOCK_BATCH_SIZE - 1
             last == Min({full, tip - Confirmation})
  <2>1. last \in Nat
    <3>1. /\ full \in Nat /\ full \in Int
          /\ tip - Confirmation \in Int /\ start <= tip - Confirmation /\ start \in Nat
      BY <1>1, PaymentsAssumption DEF TypeOK, Scan
    <3> HIDE DEF full
    <3>2. last \in {full, tip - Confirmation}
      BY <3>1, MinFact, Zenon
    <3>3. QED
      BY <3>1, <3>2
  <2>2. TasksFor(start, last) \subseteq [scan : Nat, rest : (SUBSET Payable) \ {{}}]
    <3>1. ASSUME NEW p \in Payable, Log[p].block \in start..last
          PROVE  {q \in Payable : Log[q].payee = Log[p].payee /\ Log[q].block \in start..last}
                    \in (SUBSET Payable) \ {{}}
      BY <3>1
    <3> HIDE DEF last
    <3>2. QED
      BY <3>1 DEF TasksFor, TypeOK
  <2>3. to' = last /\ tasks' = tasks \cup TasksFor(start, last)
    BY <1>1 DEF Scan
  <2> HIDE DEF last
  <2>4. QED
    BY <1>1, <2>1, <2>2, <2>3
    DEF Scan, TypeOK, chain, handlers, books
<1>2. ASSUME NEW t \in tasks, Publish(t) PROVE TypeOK'
  <2>1. queue' \in [Payments -> Nat]
    BY <1>2, PublishedType DEF Publish, TypeOK
  <2>2. QED
    BY <1>2, <2>1, PublishedType DEF Publish, TypeOK, chain, handlers, books
<1>3. CASE Advance
  BY <1>3 DEF Advance, TypeOK, chain, handlers, books
<1>4. CASE Save
  BY <1>4 DEF Save, TypeOK, chain, handlers, books
<1>5. CASE SaveThrows
  BY <1>5 DEF SaveThrows, Fault, TypeOK, chain, handlers, books
<1>6. CASE ListenerCrash
  BY <1>6 DEF ListenerCrash, Fault, TypeOK, chain, handlers, books
<1>7. CASE NewBlock
  BY <1>7 DEF NewBlock, TypeOK, listener, handlers, books
<1>8. QED
  BY <1>1, <1>2, <1>3, <1>4, <1>5, <1>6, <1>7 DEF Listener

LEMMA PublishFailsType ==
    ASSUME TypeOK, NEW t \in tasks, PublishDropped(t) \/ PublishThrows(t)
    PROVE  TypeOK'
<1>1. CASE PublishDropped(t)
  <2>1. gone' \in [Windows -> SUBSET Payments]
    BY <1>1, PublishedType DEF PublishDropped, Hit, TypeOK
  <2>2. QED
    BY <1>1, <2>1, PublishedType DEF PublishDropped, Fault, TypeOK, chain, handlers, books
<1>2. CASE PublishThrows(t)
  BY <1>2 DEF PublishThrows, Fault, TypeOK, chain, handlers, books
<1>3. QED
  BY <1>1, <1>2

LEMMA HandlerType ==
    ASSUME TypeOK, NEW h \in Handlers, Handler(h) \/ CallThrows(h) \/ HandlerCrash(h)
    PROVE  TypeOK'
<1> USE DEF TypeOK, Pcs, Windows, chain, listener, books, GoTo, Return
<1>1. ASSUME NEW p \in Payments, Deliver(h, p) PROVE TypeOK'
  BY <1>1, PaymentsAssumption DEF Deliver
<1>2. CASE Guard(h)
  BY <1>2 DEF Guard, Hit
<1>3. CASE Credit(h)
  <2> DEFINE p == msg[h]
             u == Log[p].payee
  <2>1. p \in Payments /\ Credits(p) \in Nat /\ MaxBalance \in Nat
    BY <1>3, CreditsFact, PaymentsAssumption DEF Credit
  <2>2. CASE balance[u] > MaxBalance - Credits(p)
    BY <1>3, <2>2 DEF Credit
  <2>3. CASE ~ (balance[u] > MaxBalance - Credits(p))
    <3>1. balance' = [balance EXCEPT ![u] = @ + Credits(p)]
      BY <1>3, <2>3 DEF Credit
    <3>2. u \in Users => balance[u] + Credits(p) \in 0..MaxBalance
      BY <2>1, <2>3
    <3> HIDE DEF u
    <3>3. balance' \in [Users -> 0..MaxBalance]
      BY <3>1, <3>2
    <3>4. credited' = [credited EXCEPT ![p] = @ + 1] /\ UNCHANGED ledger /\ GoTo(h, "record")
      BY <1>3, <2>3 DEF Credit, u
    <3>5. credited' \in [Payments -> Nat]
      BY <2>1, <3>4
    <3>6. QED
      BY <1>3, <3>3, <3>4, <3>5 DEF Credit
  <2>4. QED
    BY <2>2, <2>3
<1>4. CASE Record(h)
  <2>1. msg[h] \in Payments /\ Log[msg[h]].chain \in Nat
    BY <1>4, PaymentsAssumption DEF Record
  <2>2. QED
    BY <1>4, <2>1 DEF Record
<1>5. CASE Ack(h)
  BY <1>5 DEF Ack
<1>6. CASE AckDuplicate(h)
  BY <1>6 DEF AckDuplicate
<1>7. CASE Announce(h)
  BY <1>7 DEF Announce
<1>8. CASE Nack(h)
  BY <1>8 DEF Nack
<1>9. ASSUME pc[h] # "idle", Interrupted(h) PROVE gone' \in [Windows -> SUBSET Payments]
  BY <1>9 DEF Interrupted, Hit
<1>10. CASE CallThrows(h)
  BY <1>9, <1>10 DEF CallThrows, Fault
<1>11. CASE HandlerCrash(h)
  BY <1>9, <1>11 DEF HandlerCrash, Fault
<1>12. QED
  BY <1>1, <1>2, <1>3, <1>4, <1>5, <1>6, <1>7, <1>8, <1>10, <1>11 DEF Handler

LEMMA NextType == TypeOK /\ [Next]_vars => TypeOK'
<1>1. TypeOK /\ UNCHANGED vars => TypeOK'
  BY DEF TypeOK, vars, chain, listener, handlers, books
<1>2. QED
  BY <1>1, ListenerType, PublishFailsType, HandlerType DEF Next, Failure

\* The state keeps its type: balances never leave the column, and every task, message
\* and entry of the history is about a payment.
THEOREM TypeCorrect == Spec => []TypeOK
<1>1. QED
  BY InitType, NextType, PTL DEF Spec
-------------------------------------------------------------------------------
Safe(p) == Underway(p) \/ credited[p] > 0

Left == Payable \ gone["dropped"]

\* The blocks the listener has left, and the block it would restart from.
BehindIsSafe ==
    /\ saved <= start
    /\ \A p \in Left : Log[p].block \in DefaultStart..(start - 1) => Safe(p)

\* The blocks of a scan that publishes: what is not safe yet is in one of its tasks.
ScanCovers ==
    lpc = "publish" =>
        /\ start <= to
        /\ \A p \in Left : Log[p].block \in start..to =>
              Safe(p) \/ \E t \in tasks : t.scan = scan /\ p \in t.rest

\* A handler that is past the credit, or was refused by the guard, has a payment that
\* was credited, and so has each entry of the history.
PastCredit ==
    /\ \A h \in Handlers : pc[h] \in {"record", "ack", "drop", "announce"} => credited[msg[h]] > 0
    /\ \A entry \in ledger : credited[entry[2]] > 0

SkipInv == TypeOK /\ BehindIsSafe /\ ScanCovers /\ PastCredit

LEMMA InitSkip == Init => SkipInv
<1> SUFFICES ASSUME Init PROVE SkipInv
  OBVIOUS
<1>1. TypeOK
  BY InitType
<1>2. BehindIsSafe
  BY PaymentsAssumption DEF Init, BehindIsSafe, Left, Payable
<1>3. ScanCovers /\ PastCredit
  BY DEF Init, ScanCovers, PastCredit
<1>4. QED
  BY <1>1, <1>2, <1>3 DEF SkipInv

\* A step that keeps what is safe safe, and the listener out of it, keeps the invariant.
LEMMA SafeKept ==
    ASSUME SkipInv, TypeOK', \A p \in Payments : Safe(p) => Safe(p)',
           UNCHANGED listener, gone["dropped"] \subseteq gone'["dropped"], PastCredit'
    PROVE  SkipInv'
<1>1. Left' \subseteq Left /\ Left \subseteq Payments
  BY DEF Left, Payable
<1>2. BehindIsSafe'
  BY <1>1 DEF SkipInv, BehindIsSafe, listener
<1>3. ScanCovers'
  BY <1>1 DEF SkipInv, ScanCovers, listener
<1>4. QED
  BY <1>2, <1>3 DEF SkipInv

LEMMA HandlerSafe ==
    ASSUME SkipInv, TypeOK', NEW h \in Handlers,
           Handler(h) \/ CallThrows(h) \/ HandlerCrash(h)
    PROVE  SkipInv'
<1> USE DEF SkipInv, TypeOK, PastCredit, Safe, Underway, Windows, GoTo, Return
<1>1. ASSUME NEW p \in Payments, Deliver(h, p) PROVE SkipInv'
  <2>1. Safe(p)'
    BY <1>1 DEF Deliver
  <2>2. ASSUME NEW q \in Payments, q # p, Safe(q) PROVE Safe(q)'
    <3>1. queue'[q] = queue[q] /\ credited'[q] = credited[q]
      BY <1>1, <2>2 DEF Deliver, books
    <3>2. ASSUME NEW g \in Handlers, msg[g] = q
          PROVE  msg'[g] = q /\ pc'[g] = pc[g]
      <4>1. g # h
        BY <1>1, <3>2, PaymentsAssumption DEF Deliver
      <4>2. QED
        BY <1>1, <3>2, <4>1 DEF Deliver
    <3>3. QED
      BY <2>2, <3>1, <3>2
  <2>3. PastCredit'
    BY <1>1 DEF Deliver, books
  <2>4. QED
    BY <1>1, <2>1, <2>2, <2>3, SafeKept DEF Deliver
<1>2. CASE Guard(h)
  <2>1. PastCredit'
    BY <1>2 DEF Guard, books
  <2>2. \A q \in Payments : Safe(q) => Safe(q)'
    BY <1>2 DEF Guard, books
  <2>3. gone["dropped"] \subseteq gone'["dropped"]
    BY <1>2 DEF Guard, Hit
  <2>4. QED
    BY <1>2, <2>1, <2>2, <2>3, SafeKept DEF Guard
<1>3. CASE Credit(h)
  <2>1. PastCredit' /\ \A q \in Payments : Safe(q) => Safe(q)'
    BY <1>3 DEF Credit, books
  <2>2. QED
    BY <1>3, <2>1, SafeKept DEF Credit
<1>4. CASE Record(h)
  <2>1. PastCredit' /\ \A q \in Payments : Safe(q) => Safe(q)'
    BY <1>4 DEF Record
  <2>2. QED
    BY <1>4, <2>1, SafeKept DEF Record
<1>5. CASE Ack(h)
  <2>1. PastCredit' /\ \A q \in Payments : Safe(q) => Safe(q)'
    BY <1>5 DEF Ack, books
  <2>2. QED
    BY <1>5, <2>1, SafeKept DEF Ack
<1>6. CASE AckDuplicate(h)
  <2>1. PastCredit' /\ \A q \in Payments : Safe(q) => Safe(q)'
    BY <1>6 DEF AckDuplicate, books
  <2>2. QED
    BY <1>6, <2>1, SafeKept DEF AckDuplicate
<1>7. CASE Announce(h)
  <2>1. PastCredit' /\ \A q \in Payments : Safe(q) => Safe(q)'
    BY <1>7 DEF Announce, books
  <2>2. QED
    BY <1>7, <2>1, SafeKept DEF Announce
<1>8. CASE Nack(h)
  <2>1. PastCredit' /\ \A q \in Payments : Safe(q) => Safe(q)'
    BY <1>8 DEF Nack, books
  <2>2. QED
    BY <1>8, <2>1, SafeKept DEF Nack
<1>9. ASSUME Interrupted(h), pc[h] # "idle" PROVE gone["dropped"] \subseteq gone'["dropped"]
  BY <1>9 DEF Interrupted, Hit
<1>10. CASE CallThrows(h)
  <2>1. PastCredit' /\ \A q \in Payments : Safe(q) => Safe(q)'
    BY <1>10 DEF CallThrows, books
  <2>2. QED
    BY <1>9, <1>10, <2>1, SafeKept DEF CallThrows
<1>11. CASE HandlerCrash(h)
  <2>1. PastCredit' /\ \A q \in Payments : Safe(q) => Safe(q)'
    BY <1>11 DEF HandlerCrash, books
  <2>2. QED
    BY <1>9, <1>11, <2>1, SafeKept DEF HandlerCrash
<1>12. QED
  BY <1>1, <1>2, <1>3, <1>4, <1>5, <1>6, <1>7, <1>8, <1>10, <1>11 DEF Handler

\* A task that sends a message, or loses it, still has all the rest.
LEMMA PublishedCovers ==
    ASSUME NEW t \in tasks, NEW p, NEW s \in tasks, p \in s.rest, p # Least(t.rest),
           TypeOK
    PROVE  \E r \in Published(t) : r.scan = s.scan /\ p \in r.rest
<1>1. t \in [scan : Nat, rest : (SUBSET Payable) \ {{}}]
  BY DEF TypeOK
<1>2. CASE s # t
  BY <1>2 DEF Published
<1>3. CASE s = t
  <2>1. t.rest # {Least(t.rest)}
    BY <1>3
  <2> DEFINE r == [t EXCEPT !.rest = @ \ {Least(t.rest)}]
  <2>2. r \in Published(t)
    BY <2>1 DEF Published
  <2>3. r.scan = s.scan /\ p \in r.rest
    BY <1>1, <1>3
  <2>4. QED
    BY <2>2, <2>3
<1>4. QED
  BY <1>2, <1>3

LEMMA ListenerSafe ==
    ASSUME SkipInv, TypeOK', Listener \/ ListenerCrash \/ SaveThrows \/ NewBlock
    PROVE  SkipInv'
<1> USE DEF SkipInv, PastCredit
<1>1. CASE Scan
  <2> DEFINE full == start + BLOCK_BATCH_SIZE - 1
             last == Min({full, tip - Confirmation})
  <2>1. start <= last
    <3>1. /\ full \in Int /\ tip - Confirmation \in Int /\ start \in Nat
          /\ start <= full /\ start <= tip - Confirmation
      BY <1>1, PaymentsAssumption DEF TypeOK, Scan
    <3> HIDE DEF full
    <3>2. last \in {full, tip - Confirmation}
      BY <3>1, MinFact, Zenon
    <3>3. QED
      BY <3>1, <3>2
  <2>2. to' = last /\ tasks' = tasks \cup TasksFor(start, last) /\ scan' = scan
    BY <1>1 DEF Scan
  <2> HIDE DEF last
  <2>3. ASSUME NEW p \in Payable, Log[p].block \in start..last
        PROVE  \E t \in TasksFor(start, last) : t.scan = scan /\ p \in t.rest
    <3> DEFINE t == [scan |-> scan,
                     rest |-> {q \in Payable : Log[q].payee = Log[p].payee
                                               /\ Log[q].block \in start..last}]
    <3>1. t \in TasksFor(start, last)
      BY <2>3 DEF TasksFor
    <3>2. t.scan = scan /\ p \in t.rest
      BY <2>3
    <3>3. QED
      BY <3>1, <3>2
  <2>4. ScanCovers'
    BY <1>1, <2>1, <2>2, <2>3 DEF Scan, ScanCovers, Left
  <2>5. BehindIsSafe' /\ PastCredit'
    BY <1>1 DEF Scan, BehindIsSafe, Left, Safe, Underway, handlers, books
  <2>6. QED
    BY <2>4, <2>5
<1>2. ASSUME NEW t \in tasks, Publish(t) PROVE SkipInv'
  <2>1. Least(t.rest) \in Payments /\ queue'[Least(t.rest)] > 0
    BY <1>2, PublishedType DEF Publish, TypeOK
  <2>2. \A p \in Payments : Safe(p) => Safe(p)'
    BY <1>2, <2>1 DEF Publish, Safe, Underway, handlers, books, TypeOK
  <2>3. Safe(Least(t.rest))'
    BY <2>1 DEF Safe, Underway
  <2>4. BehindIsSafe' /\ PastCredit'
    BY <1>2, <2>2 DEF Publish, BehindIsSafe, Left, Payable, handlers, books
  <2>5. ScanCovers'
    <3>1. SUFFICES ASSUME lpc = "publish", NEW p \in Left, Log[p].block \in start..to,
                          p # Least(t.rest)
                   PROVE  Safe(p)' \/ \E r \in tasks' : r.scan = scan /\ p \in r.rest
      BY <1>2, <2>3 DEF Publish, ScanCovers, Left
    <3>2. p \in Payments
      BY <3>1 DEF Left, Payable
    <3>3. Safe(p) \/ \E s \in tasks : s.scan = scan /\ p \in s.rest
      BY <3>1 DEF ScanCovers
    <3>4. tasks' = Published(t)
      BY <1>2 DEF Publish
    <3>5. QED
      BY <2>2, <3>1, <3>2, <3>3, <3>4, PublishedCovers
  <2>6. QED
    BY <2>4, <2>5
<1>3. CASE Advance
  <2>1. \A p \in Left : Log[p].block \in start..to => Safe(p)
    BY <1>3 DEF Advance, ScanCovers
  <2>2. \A p \in Left : Log[p].block \in DefaultStart..to => Safe(p)
    <3>1. \A p \in Left : Log[p].block \in Nat
      BY PaymentsAssumption DEF Left, Payable
    <3>2. QED
      BY <2>1, <3>1, PaymentsAssumption DEF BehindIsSafe, TypeOK
  <2>3. start' = to + 1 /\ to + 1 >= start /\ saved' = saved
    BY <1>3 DEF Advance, ScanCovers, TypeOK
  <2>4. BehindIsSafe'
    <3>1. Left' = Left /\ \A p \in Left : Safe(p)' = Safe(p)
      BY <1>3 DEF Advance, Left, Safe, Underway, handlers, books
    <3>2. saved <= to + 1
      BY <2>3 DEF BehindIsSafe, TypeOK
    <3>3. (to + 1) - 1 = to
      BY DEF TypeOK
    <3>4. QED
      BY <2>2, <2>3, <3>1, <3>2, <3>3 DEF BehindIsSafe
  <2>5. ScanCovers' /\ PastCredit'
    BY <1>3 DEF Advance, ScanCovers, handlers, books
  <2>6. QED
    BY <2>4, <2>5
<1>4. CASE Save
  <2>1. ScanCovers' /\ PastCredit'
    BY <1>4 DEF Save, ScanCovers, handlers, books
  <2>2. BehindIsSafe'
    BY <1>4 DEF Save, BehindIsSafe, Left, Safe, Underway, TypeOK, handlers, books
  <2>3. QED
    BY <2>1, <2>2
<1>5. CASE SaveThrows
  BY <1>5 DEF SaveThrows, BehindIsSafe, ScanCovers, Left, Safe, Underway, handlers, books
<1>6. CASE ListenerCrash
  <2>1. ScanCovers' /\ PastCredit'
    BY <1>6 DEF ListenerCrash, ScanCovers, handlers, books
  <2>2. BehindIsSafe'
    <3>1. Left' = Left /\ \A p \in Left : Safe(p)' = Safe(p)
      BY <1>6 DEF ListenerCrash, Left, Safe, Underway, handlers, books
    <3>2. \A p \in Left : Log[p].block \in Nat
      BY PaymentsAssumption DEF Left, Payable
    <3>3. start' = saved /\ saved' = saved /\ saved <= start
      BY <1>6 DEF ListenerCrash, BehindIsSafe
    <3>4. \A p \in Left : Log[p].block \in DefaultStart..(saved - 1) => Safe(p)
      BY <3>2, <3>3, PaymentsAssumption DEF BehindIsSafe, TypeOK
    <3>5. QED
      BY <3>1, <3>3, <3>4 DEF BehindIsSafe, TypeOK
  <2>3. QED
    BY <2>1, <2>2
<1>7. CASE NewBlock
  BY <1>7 DEF NewBlock, listener, BehindIsSafe, ScanCovers, Left, Safe, Underway, handlers,
              books
<1>8. QED
  BY <1>1, <1>2, <1>3, <1>4, <1>5, <1>6, <1>7 DEF Listener

LEMMA PublishFailsSafe ==
    ASSUME SkipInv, TypeOK', NEW t \in tasks, PublishDropped(t) \/ PublishThrows(t)
    PROVE  SkipInv'
<1> USE DEF SkipInv, PastCredit
<1>1. CASE PublishDropped(t)
  <2>1. /\ Left' \subseteq Left /\ Least(t.rest) \notin Left'
        /\ \A p \in Left : Safe(p)' = Safe(p)
    BY <1>1 DEF PublishDropped, Hit, Left, Safe, Underway, handlers, books, TypeOK, Windows
  <2>2. BehindIsSafe' /\ PastCredit'
    BY <1>1, <2>1 DEF PublishDropped, BehindIsSafe, handlers, books
  <2>3. ScanCovers'
    <3>1. SUFFICES ASSUME lpc = "publish", NEW p \in Left, Log[p].block \in start..to,
                          p # Least(t.rest)
                   PROVE  Safe(p)' \/ \E r \in tasks' : r.scan = scan /\ p \in r.rest
      BY <1>1, <2>1 DEF PublishDropped, ScanCovers
    <3>2. Safe(p) \/ \E s \in tasks : s.scan = scan /\ p \in s.rest
      BY <3>1 DEF ScanCovers
    <3>3. tasks' = Published(t)
      BY <1>1 DEF PublishDropped
    <3>4. QED
      BY <2>1, <3>1, <3>2, <3>3, PublishedCovers
  <2>4. QED
    BY <2>2, <2>3
<1>2. CASE PublishThrows(t)
  <2>1. BehindIsSafe' /\ PastCredit'
    BY <1>2 DEF PublishThrows, BehindIsSafe, Left, Safe, Underway, handlers, books
  <2>2. ScanCovers'
    BY <1>2 DEF PublishThrows, ScanCovers, Left, Safe, Underway, handlers, books
  <2>3. QED
    BY <2>1, <2>2
<1>3. QED
  BY <1>1, <1>2

LEMMA NextSkip == SkipInv /\ [Next]_vars => SkipInv'
<1>1. SkipInv /\ UNCHANGED vars => SkipInv'
  BY DEF SkipInv, TypeOK, BehindIsSafe, ScanCovers, PastCredit, Left, Safe, Underway, vars,
         chain, listener, handlers, books
<1>2. SkipInv /\ Next => TypeOK'
  BY NextType DEF SkipInv
<1>3. QED
  BY <1>1, <1>2, ListenerSafe, PublishFailsSafe, HandlerSafe DEF Next, Failure

LEMMA SkipInvariant == Spec => []SkipInv
BY InitSkip, NextSkip, PTL DEF Spec

\* No payment is skipped, whatever failed and however often the listener restarted: see
\* NothingSkipped.
THEOREM NoneSkipped == Spec => []NothingSkipped
<1>1. SkipInv => NothingSkipped
  BY DEF SkipInv, BehindIsSafe, Left, Safe, NothingSkipped
<1>2. QED
  BY <1>1, SkipInvariant, PTL
-------------------------------------------------------------------------------
Clean == {p \in Payable : /\ Log[p].chain = 1
                          /\ p \notin gone["torn"] \cup gone["raced"]}

Crediting(h, p) == msg[h] = p /\ pc[h] \in {"credit", "record"}

\* One handler at most is between the guard and the record; before it credits, nothing
\* was credited; what was credited is recorded, or about to be.
Once(p) ==
    /\ credited[p] <= 1
    /\ \A g, h \in Handlers : Crediting(g, p) /\ Crediting(h, p) => g = h
    /\ \A h \in Handlers : Crediting(h, p) /\ pc[h] = "credit" => credited[p] = 0
    /\ credited[p] > 0 =>
          <<1, p>> \in ledger \/ \E h \in Handlers : msg[h] = p /\ pc[h] = "record"

GuardHolds == \A p \in Clean : Once(p)

OnceInv == TypeOK /\ GuardHolds

LEMMA InitOnce == Init => OnceInv
<1>1. Init => GuardHolds
  BY DEF Init, GuardHolds, Once, Clean, Payable, Crediting
<1>2. QED
  BY <1>1, InitType DEF OnceInv

\* A step that does not credit p and lets no handler past the guard with it; a handler
\* that leaves "record" has recorded it.
LEMMA OnceSame ==
    ASSUME NEW p, Once(p), credited'[p] = credited[p], ledger \subseteq ledger',
           \A h \in Handlers :
               /\ Crediting(h, p)' => Crediting(h, p) /\ pc'[h] = pc[h]
               /\ msg[h] = p /\ pc[h] = "record" =>
                     (msg'[h] = p /\ pc'[h] = "record") \/ <<1, p>> \in ledger'
    PROVE  Once(p)'
BY DEF Once, Crediting

\* Steps that leave the books alone and let no handler past the guard.
LEMMA OnceKept ==
    ASSUME OnceInv, UNCHANGED books, Clean' \subseteq Clean,
           \A h \in Handlers, p \in Clean :
               /\ Crediting(h, p)' => Crediting(h, p) /\ pc'[h] = pc[h]
               /\ p \in Clean' /\ msg[h] = p /\ pc[h] = "record" =>
                     msg'[h] = p /\ pc'[h] = "record"
    PROVE  GuardHolds'
<1> SUFFICES ASSUME NEW p \in Clean' PROVE Once(p)'
  BY DEF GuardHolds
<1>1. p \in Clean /\ Once(p)
  BY DEF OnceInv, GuardHolds
<1>2. QED
  BY <1>1, OnceSame DEF books

LEMMA HandlerOnce ==
    ASSUME OnceInv, NEW h \in Handlers, Handler(h) \/ CallThrows(h) \/ HandlerCrash(h)
    PROVE  GuardHolds'
<1> USE DEF OnceInv, TypeOK, Windows, GoTo, Return
<1>1. ASSUME NEW p \in Payments, Deliver(h, p) PROVE GuardHolds'
  BY <1>1, OnceKept DEF Deliver, Clean, Crediting
<1>2. CASE Guard(h)
  <2>1. CASE <<1, msg[h]>> \in ledger
    BY <1>2, <2>1, OnceKept DEF Guard, Clean, Crediting
  <2>2. CASE <<1, msg[h]>> \notin ledger
    <3> DEFINE m == msg[h]
    <3>1. /\ Clean' \subseteq Clean /\ UNCHANGED books /\ pc' = [pc EXCEPT ![h] = "credit"]
          /\ UNCHANGED msg /\ pc[h] = "guard"
      BY <1>2, <2>2 DEF Guard, Hit, Clean
    <3>2. m \in Clean' => ~ Racing(h)
      BY <1>2, <2>2 DEF Guard, Hit, Clean
    <3>3. ASSUME m \in Clean' PROVE credited[m] = 0 /\ \A g \in Handlers : ~ Crediting(g, m)
      <4>1. \A g \in Handlers : ~ Crediting(g, m)
        BY <3>1, <3>2, <3>3 DEF Racing, Crediting
      <4>2. m \in Clean /\ <<1, m>> \notin ledger
        BY <2>2, <3>1, <3>3
      <4>3. ~ (credited[m] > 0)
        BY <4>1, <4>2 DEF GuardHolds, Once, Crediting
      <4>4. credited[m] \in Nat
        BY <4>2 DEF Clean, Payable
      <4>5. QED
        BY <4>1, <4>3, <4>4
    <3>4. ASSUME NEW p \in Clean', p # m PROVE Once(p)'
      <4>1. Once(p)
        BY <3>1, <3>4 DEF GuardHolds
      <4>2. ASSUME NEW g \in Handlers, msg[g] = p PROVE pc'[g] = pc[g]
        BY <3>1, <3>4, <4>2
      <4>3. QED
        BY <3>1, <4>1, <4>2, OnceSame DEF books, Crediting
    <3>5. ASSUME NEW p \in Clean', p = m PROVE Once(p)'
      <4>1. credited[p] = 0 /\ \A g \in Handlers : ~ Crediting(g, p)
        BY <3>3, <3>5
      <4>2. \A g \in Handlers : Crediting(g, p)' => g = h
        BY <3>1, <4>1 DEF Crediting
      <4>3. credited'[p] = 0
        BY <3>1, <4>1 DEF books
      <4>4. QED
        BY <4>2, <4>3 DEF Once
    <3>6. QED
      BY <3>4, <3>5 DEF GuardHolds
  <2>3. QED
    BY <2>1, <2>2
<1>3. CASE Credit(h)
  <2> DEFINE m == msg[h]
  <2>1. CASE UNCHANGED books /\ pc' = [pc EXCEPT ![h] = "nack"]
    BY <1>3, <2>1, OnceKept DEF Credit, Clean, Crediting
  <2>2. CASE /\ credited' = [credited EXCEPT ![m] = @ + 1]
             /\ pc' = [pc EXCEPT ![h] = "record"] /\ UNCHANGED ledger
    <3>1. Clean' = Clean /\ UNCHANGED msg /\ pc[h] = "credit" /\ m \in Payments
      BY <1>3 DEF Credit, Clean
    <3>2. ASSUME NEW p \in Clean, p # m PROVE Once(p)'
      <4>1. Once(p) /\ credited'[p] = credited[p]
        BY <2>2, <3>1, <3>2 DEF GuardHolds, Clean, Payable
      <4>2. ASSUME NEW g \in Handlers, msg[g] = p PROVE pc'[g] = pc[g]
        BY <2>2, <3>1, <3>2, <4>2
      <4>3. QED
        BY <2>2, <3>1, <4>1, <4>2, OnceSame DEF Crediting
    <3>3. ASSUME NEW p \in Clean, p = m PROVE Once(p)'
      <4>1. Once(p) /\ Crediting(h, p) /\ p \in Payments
        BY <3>1, <3>3 DEF GuardHolds, Crediting
      <4>2. credited[p] = 0 /\ \A g \in Handlers : Crediting(g, p) => g = h
        BY <3>1, <4>1 DEF Once
      <4>3. credited'[p] = 1 /\ msg'[h] = p /\ pc'[h] = "record"
        BY <2>2, <3>1, <3>3, <4>1, <4>2
      <4>4. \A g \in Handlers : Crediting(g, p)' => g = h
        BY <2>2, <3>1, <4>2 DEF Crediting
      <4>5. QED
        BY <4>3, <4>4 DEF Once
    <3>4. QED
      BY <3>1, <3>2, <3>3 DEF GuardHolds
  <2>3. QED
    BY <1>3, <2>1, <2>2 DEF Credit
<1>4. CASE Record(h)
  <2>1. Clean' = Clean /\ UNCHANGED <<msg, credited>> /\ pc[h] = "record"
    BY <1>4 DEF Record, Clean
  <2>2. pc' = [pc EXCEPT ![h] = "ack"] /\ ledger \subseteq ledger'
    BY <1>4 DEF Record
  <2>3. msg[h] \in Clean => <<1, msg[h]>> \in ledger'
    BY <1>4 DEF Record, Clean
  <2>4. ASSUME NEW p \in Clean PROVE Once(p)'
    <3>1. Once(p) /\ credited'[p] = credited[p]
      BY <2>1 DEF GuardHolds
    <3>2. ASSUME NEW g \in Handlers, g # h PROVE pc'[g] = pc[g]
      BY <2>2, <3>2
    <3>3. \A g \in Handlers : Crediting(g, p)' => Crediting(g, p) /\ pc'[g] = pc[g]
      BY <2>1, <2>2, <3>2 DEF Crediting
    <3>4. QED
      BY <2>1, <2>2, <2>3, <3>1, <3>2, <3>3, OnceSame
  <2>5. QED
    BY <2>1, <2>4 DEF GuardHolds
<1>5. CASE Ack(h)
  BY <1>5, OnceKept DEF Ack, Clean, Crediting
<1>6. CASE AckDuplicate(h)
  BY <1>6, OnceKept DEF AckDuplicate, Clean, Crediting
<1>7. CASE Announce(h)
  BY <1>7, OnceKept DEF Announce, Clean, Crediting
<1>8. CASE Nack(h)
  BY <1>8, OnceKept DEF Nack, Clean, Crediting
<1>9. ASSUME Interrupted(h), pc[h] # "idle"
      PROVE  Clean' \subseteq Clean /\ (pc[h] = "record" => msg[h] \notin Clean')
  BY <1>9 DEF Interrupted, Hit, Clean
<1>10. CASE CallThrows(h)
  BY <1>9, <1>10, OnceKept, PaymentsAssumption DEF CallThrows, Crediting, Clean, Payable
<1>11. CASE HandlerCrash(h)
  BY <1>9, <1>11, OnceKept, PaymentsAssumption DEF HandlerCrash, Crediting, Clean, Payable
<1>12. QED
  BY <1>1, <1>2, <1>3, <1>4, <1>5, <1>6, <1>7, <1>8, <1>10, <1>11 DEF Handler

LEMMA NextOnce == OnceInv /\ [Next]_vars => OnceInv'
<1>1. OnceInv /\ UNCHANGED vars => GuardHolds'
  BY OnceKept DEF vars, handlers, Clean, Crediting
<1>2. OnceInv /\ (Listener \/ ListenerCrash \/ SaveThrows \/ NewBlock) => GuardHolds'
  BY OnceKept DEF Listener, Scan, Publish, Advance, Save, ListenerCrash, SaveThrows, NewBlock,
                  handlers, Clean, Crediting
<1>3. ASSUME OnceInv, NEW t \in tasks, PublishDropped(t) \/ PublishThrows(t)
      PROVE  GuardHolds'
  BY <1>3, OnceKept DEF PublishDropped, PublishThrows, Hit, OnceInv, TypeOK, Windows,
                        handlers, Clean, Crediting
<1>4. OnceInv /\ [Next]_vars => TypeOK'
  BY NextType DEF OnceInv
<1>5. QED
  BY <1>1, <1>2, <1>3, <1>4, HandlerOnce DEF Next, Failure, OnceInv

\* A payment on chain 1 is credited once, unless a fault fell between the balance and the
\* history or two handlers raced: see CreditedOnce.
THEOREM PaymentsCreditedOnce == Spec => []CreditedOnce
<1>1. OnceInv => CreditedOnce
  BY DEF OnceInv, GuardHolds, Once, Clean, CreditedOnce
<1>2. QED
  BY <1>1, InitOnce, NextOnce, PTL DEF Spec
-------------------------------------------------------------------------------
\* Reconciled, of one payment.
Told(p) ==
    \/ p \in announced \cup gone["unannounced"]
    \/ \E h \in Handlers : msg[h] = p /\ pc[h] \in {"ack", "announce"}

LEMMA HandlerTold ==
    ASSUME TypeOK, NEW h \in Handlers, Handler(h) \/ CallThrows(h) \/ HandlerCrash(h),
           NEW p \in Payments, Told(p)
    PROVE  Told(p)'
<1> USE DEF Told, TypeOK, Windows, GoTo, Return
<1>1. CASE msg[h] = p /\ pc[h] \in {"ack", "announce"}
  <2>1. CASE Ack(h) \/ Announce(h)
    BY <1>1, <2>1 DEF Ack, Announce
  <2>2. CASE CallThrows(h) \/ HandlerCrash(h)
    BY <1>1, <2>2 DEF CallThrows, HandlerCrash, Interrupted, Hit
  <2>3. QED
    BY <1>1, <2>1, <2>2
    DEF Handler, Deliver, Guard, Credit, Record, AckDuplicate, Nack
<1>2. CASE ~ (msg[h] = p /\ pc[h] \in {"ack", "announce"})
  <2>1. announced \subseteq announced'
    BY DEF Handler, Deliver, Guard, Credit, Record, Ack, AckDuplicate, Announce, Nack,
           CallThrows, HandlerCrash
  <2>2. gone["unannounced"] \subseteq gone'["unannounced"]
    BY DEF Handler, Deliver, Guard, Credit, Record, Ack, AckDuplicate, Announce, Nack,
           CallThrows, HandlerCrash, Interrupted, Hit
  <2>3. ASSUME NEW g \in Handlers, g # h PROVE msg'[g] = msg[g] /\ pc'[g] = pc[g]
    BY <2>3 DEF Handler, Deliver, Guard, Credit, Record, Ack, AckDuplicate, Announce, Nack,
           CallThrows, HandlerCrash
  <2>4. QED
    BY <1>2, <2>1, <2>2, <2>3
<1>3. QED
  BY <1>1, <1>2

LEMMA NextReconciled == TypeOK /\ Reconciled /\ [Next]_vars => Reconciled'
<1> SUFFICES ASSUME TypeOK, Reconciled, [Next]_vars PROVE Reconciled'
  OBVIOUS
<1>1. Reconciled <=> \A entry \in ledger : Told(entry[2])
  BY DEF Reconciled, Told
<1>2. Reconciled' <=> \A entry \in ledger' : Told(entry[2])'
  BY DEF Reconciled, Told
<1>3. ASSUME NEW h \in Handlers, Handler(h) \/ CallThrows(h) \/ HandlerCrash(h)
      PROVE  Reconciled'
  <2>1. \A entry \in ledger : Told(entry[2])'
    BY <1>1, <1>3, HandlerTold DEF TypeOK
  <2>2. CASE Record(h)
    <3>1. Told(msg[h])'
      BY <2>2 DEF Record, Told, GoTo, TypeOK
    <3>2. QED
      BY <1>2, <2>1, <2>2, <3>1 DEF Record
  <2>3. CASE ~ Record(h)
    <3>1. ledger' = ledger
      BY <1>3, <2>3 DEF Handler, Deliver, Guard, Credit, Ack, AckDuplicate, Announce, Nack,
             CallThrows, HandlerCrash, books
    <3>2. QED
      BY <1>2, <2>1, <3>1
  <2>4. QED
    BY <2>2, <2>3
<1>4. ASSUME NEW t \in tasks, PublishDropped(t) \/ PublishThrows(t) PROVE Reconciled'
  BY <1>4 DEF PublishDropped, PublishThrows, Hit, Reconciled, TypeOK, Windows, handlers, books
<1>5. CASE Listener \/ ListenerCrash \/ SaveThrows \/ NewBlock
  BY <1>5 DEF Listener, Scan, Publish, Advance, Save, ListenerCrash, SaveThrows, NewBlock,
              Reconciled, handlers, books
<1>6. CASE UNCHANGED vars
  BY <1>6 DEF vars, Reconciled, handlers, books
<1>7. QED
  BY <1>3, <1>4, <1>5, <1>6 DEF Next, Failure

\* What is recorded is announced, unless a fault came in between: see Reconciled.
THEOREM PaymentsReconciled == Spec => []Reconciled
<1>1. Init => Reconciled
  BY DEF Init, Reconciled
<1>2. QED
  BY <1>1, NextReconciled, TypeCorrect, PTL DEF Spec
-------------------------------------------------------------------------------
(***************************************************************************)
(* Listing: the sequences its rows are.                                    *)
(***************************************************************************)

\* What is left of s without its i-th element.
LEMMA RemovedAt ==
    ASSUME NEW S, NEW s \in Seq(S), NEW i \in DOMAIN s, NEW t, t = RemoveAt(s, i)
    PROVE  /\ t \in Seq(S) /\ Len(t) = Len(s) - 1
           /\ \A j \in DOMAIN t : t[j] = IF j < i THEN s[j] ELSE s[j + 1]
<1> DEFINE a == SubSeq(s, 1, i - 1)
           b == SubSeq(s, i + 1, Len(s))
<1>1. Len(s) \in Nat /\ i \in 1..Len(s) /\ DOMAIN s = 1..Len(s)
  OBVIOUS
<1>2. /\ a \in Seq(S) /\ Len(a) = i - 1
      /\ \A j \in 1..(i - 1) : a[j] = s[j]
  BY <1>1
<1>3. /\ b \in Seq(S) /\ Len(b) = Len(s) - i
      /\ \A j \in 1..(Len(s) - i) : b[j] = s[i + j]
  BY <1>1
<1>4. t = a \o b
  BY DEF RemoveAt
<1> HIDE DEF a, b
<1>5. t \in Seq(S) /\ Len(t) = Len(s) - 1
  <2>1. t \in Seq(S) /\ Len(t) = Len(a) + Len(b)
    BY <1>2, <1>3, <1>4
  <2>2. (i - 1) + (Len(s) - i) = Len(s) - 1
    BY <1>1
  <2>3. QED
    BY <1>2, <1>3, <2>1, <2>2
<1>6. ASSUME NEW j \in DOMAIN t PROVE t[j] = IF j < i THEN s[j] ELSE s[j + 1]
  <2>1. j \in 1..(Len(s) - 1)
    BY <1>1, <1>5, <1>6
  <2>2. CASE j < i
    BY <1>1, <1>2, <1>3, <1>4, <2>1, <2>2
  <2>3. CASE j >= i
    <3>1. t[j] = b[j - (i - 1)]
      BY <1>1, <1>2, <1>3, <1>4, <2>1, <2>3
    <3>2. b[j - (i - 1)] = s[i + (j - (i - 1))]
      BY <1>1, <1>3, <2>1, <2>3
    <3>3. i + (j - (i - 1)) = j + 1
      BY <1>1, <2>1
    <3>4. QED
      BY <1>1, <2>1, <2>3, <3>1, <3>2, <3>3
  <2>4. QED
    BY <1>1, <2>1, <2>2, <2>3
<1>7. QED
  BY <1>5, <1>6

\* s with one element more, at the place p.
LEMMA InsertedAt ==
    ASSUME NEW S, NEW s \in Seq(S), NEW p \in 1..(Len(s) + 1), NEW e \in S,
           NEW t, t = InsertAt(s, p, e)
    PROVE  /\ t \in Seq(S) /\ Len(t) = Len(s) + 1
           /\ \A j \in DOMAIN t :
                 t[j] = IF j < p THEN s[j] ELSE IF j = p THEN e ELSE s[j - 1]
<1> DEFINE a == SubSeq(s, 1, p - 1)
           b == SubSeq(s, p, Len(s))
           c == a \o <<e>>
<1>1. Len(s) \in Nat /\ DOMAIN s = 1..Len(s)
  OBVIOUS
<1>2. /\ a \in Seq(S) /\ Len(a) = p - 1
      /\ \A j \in 1..(p - 1) : a[j] = s[j]
  BY <1>1
<1>3. /\ b \in Seq(S) /\ Len(b) = Len(s) - p + 1
      /\ \A j \in 1..(Len(s) - p + 1) : b[j] = s[p + j - 1]
  BY <1>1
<1>4. t = c \o b
  BY DEF InsertAt
<1> HIDE DEF a, b
<1>5. /\ c \in Seq(S) /\ Len(c) = p
      /\ \A j \in 1..(p - 1) : c[j] = s[j]
      /\ c[p] = e
  BY <1>1, <1>2
<1> HIDE DEF c
<1>6. t \in Seq(S) /\ Len(t) = Len(s) + 1
  <2>1. \A u, v \in Seq(S) : u \o v \in Seq(S) /\ Len(u \o v) = Len(u) + Len(v)
    OBVIOUS
  <2>2. t \in Seq(S) /\ Len(t) = Len(c) + Len(b)
    <3>1. c \in Seq(S) /\ b \in Seq(S)
      BY <1>3, <1>5
    <3>2. c \o b \in Seq(S) /\ Len(c \o b) = Len(c) + Len(b)
      BY <2>1, <3>1, Zenon
    <3>3. QED
      BY <1>4, <3>2, Zenon
  <2>3. p + (Len(s) - p + 1) = Len(s) + 1
    BY <1>1
  <2>4. QED
    BY <1>3, <1>5, <2>2, <2>3
<1>7. ASSUME NEW j \in DOMAIN t
      PROVE  t[j] = IF j < p THEN s[j] ELSE IF j = p THEN e ELSE s[j - 1]
  <2>1. j \in 1..(Len(s) + 1)
    BY <1>1, <1>6, <1>7
  <2>2. CASE j <= p
    <3>1. t[j] = c[j]
      BY <1>1, <1>3, <1>4, <1>5, <2>1, <2>2
    <3>2. QED
      BY <1>1, <1>5, <2>1, <2>2, <3>1
  <2>3. CASE j > p
    <3>1. t[j] = b[j - p]
      BY <1>1, <1>3, <1>4, <1>5, <2>1, <2>3
    <3>2. b[j - p] = s[p + (j - p) - 1]
      BY <1>1, <1>3, <2>1, <2>3
    <3>3. p + (j - p) - 1 = j - 1
      BY <1>1, <2>1
    <3>4. QED
      BY <1>1, <2>1, <2>3, <3>1, <3>2, <3>3
  <2>4. QED
    BY <1>1, <2>1, <2>2, <2>3
<1>8. QED
  BY <1>6, <1>7

\* Of some numbers, one is the smallest.
LEMMA SmallestNumber ==
    ASSUME NEW Bad \in SUBSET Nat, Bad # {}
    PROVE  \E n \in Bad : \A m \in Bad : n <= m
BY LeastFact

\* A set of numbers up to some number has a greatest.
LEMMA GreatestNumber ==
    ASSUME NEW n \in Nat, NEW T \in SUBSET (1..n), T # {}
    PROVE  Max(T) \in T /\ \A i \in T : i <= Max(T)
<1> DEFINE Rest == {n - i : i \in T}
<1>1. Rest \in SUBSET Nat /\ Rest # {}
  <2>1. \A i \in T : n - i \in Nat
    OBVIOUS
  <2>2. PICK i \in T : TRUE
    OBVIOUS
  <2>3. n - i \in Rest
    OBVIOUS
  <2>4. QED
    BY <2>1, <2>3
<1>2. \E m \in Rest : \A i \in Rest : m <= i
  <2> HIDE DEF Rest
  <2> QED
    BY <1>1, SmallestNumber
<1>3. PICK i \in T : \A j \in T : n - i <= n - j
  BY <1>2
<1>4. \A j \in T : i >= j
  BY <1>3
<1>5. \E x \in T : \A y \in T : x >= y
  BY <1>4
<1>6. Max(T) \in T /\ \A y \in T : Max(T) >= y
  BY <1>5 DEF Max
<1>7. QED
  BY <1>6

\* A set of numbers with all that are less, from 1, is told by its size.
LEMMA Initial ==
    ASSUME NEW n \in Nat, NEW T \in SUBSET (1..n), \A i \in T : \A j \in 1..n : j <= i => j \in T
    PROVE  Cardinality(T) \in 0..n /\ T = 1..Cardinality(T)
<1>1. ASSUME NEW m \in 0..n, T = 1..m PROVE Cardinality(T) = m
  <2>1. 1 \in Int /\ m \in Int /\ (1 > m => m = 0) /\ m - 1 + 1 = m
    OBVIOUS
  <2>2. Cardinality(1..m) = IF 1 > m THEN 0 ELSE m - 1 + 1
    BY <2>1, FS_Interval
  <2>3. QED
    BY <1>1, <2>1, <2>2
<1>2. CASE T = 1..n
  BY <1>1, <1>2
<1>3. CASE T # 1..n
  <2> DEFINE Out == (1..n) \ T
  <2>1. Out \in SUBSET Nat
    OBVIOUS
  <2>2. Out # {}
    BY <1>3
  <2> HIDE DEF Out
  <2>3. PICK m \in Out : \A i \in Out : m <= i
    BY <2>1, <2>2, SmallestNumber
  <2>4. m \in 1..n /\ m \notin T
    BY <2>3 DEF Out
  <2>5. ASSUME NEW i \in 1..n PROVE i \in T <=> i \in 1..(m - 1)
    <3>1. i < m => i \in T
      BY <2>3, <2>4 DEF Out
    <3>2. i \in T => ~(m <= i)
      BY <2>4
    <3>3. QED
      BY <2>4, <3>1, <3>2
  <2>6. T = 1..(m - 1)
    <3>1. 1..(m - 1) \subseteq 1..n
      BY <2>4
    <3>2. QED
      BY <2>5, <3>1
  <2>7. m - 1 \in 0..n
    BY <2>4
  <2>8. Cardinality(T) = m - 1
    BY <1>1, <2>6, <2>7
  <2>9. QED
    BY <2>6, <2>7, <2>8
<1>4. QED
  BY <1>2, <1>3
-------------------------------------------------------------------------------
(***************************************************************************)
(* The invariant of the listing.  What was before the page was seen, and   *)
(* only that; a page told by its place is before or behind, by the place   *)
(* of a row, one told by a key by the row itself.                          *)
(***************************************************************************)

Distinct(s) == \A i, j \in DOMAIN s : s[i] = s[j] => i = j

ListType ==
    /\ store \in Stores /\ code \in [Keys -> Nat]
    /\ rows \in Seq(Keys) /\ Distinct(rows) /\ Ordered(rows)
    /\ cursor \in Nat \cup {Unset}
    /\ page \in Seq(Keys) \cup {Unset}
    /\ more \in BOOLEAN \cup {Unset}
    /\ done \in BOOLEAN
    /\ listed \in [Keys -> 0..2]
    /\ stayed \subseteq ToSet(rows)

ByKey == store.from \in {"key", "row", "code"}

\* A list that goes on has a page, the cursor of a list by key is a key, and what is counted
\* before is known when the page is.
Shape ==
    /\ ByKey => cursor \in Keys \cup {Unset}
    /\ done => page = Unset /\ more = Unset
    /\ store.more = "rows" => /\ page = Unset <=> more = Unset
                              /\ more = TRUE => page # <<>>
    /\ store.more = "before" /\ page # Unset => more # Unset

\* The rows before the page, if it is told by its place.
Off == IF cursor = Unset \/ store.from = "first" THEN 0
       ELSE IF store.from = "second" THEN 1 ELSE cursor

\* What comes behind the page can be told from the cursor.
TellsPlace == store.order # "none" /\ store.from # "first"

\* What was before the page was seen, and what is not in it comes behind it.
PlaceSeen ==
    ~ByKey /\ ~MayMiss =>
        /\ \A i \in DOMAIN rows : rows[i] \in stayed /\ i <= Off => listed[rows[i]] > 0
        /\ page # Unset =>
              \A i \in DOMAIN rows : rows[i] \in stayed =>
                 \/ listed[rows[i]] > 0 \/ Contains(page, rows[i])
                 \/ more # FALSE /\ (TellsPlace => i > Off + Limit)
        /\ more = FALSE /\ page = Unset => Len(rows) <= Off + Limit
        /\ page = <<>> \/ done => \A k \in stayed : listed[k] > 0

KeySeen ==
    ByKey /\ ~MayMiss =>
        /\ cursor # Unset => \A k \in stayed : k <= cursor => listed[k] > 0
        /\ page # Unset =>
              \A k \in stayed :
                 listed[k] > 0 \/ Contains(page, k) \/ (more = TRUE /\ k > Last(page))
        /\ done => \A k \in stayed : listed[k] > 0

\* What was seen, once, is before the page, and nothing in the page was.
PlaceOnce ==
    ~ByKey /\ ~MayRepeat =>
        \A i \in DOMAIN rows : rows[i] \in stayed =>
            /\ \/ listed[rows[i]] = 0
               \/ listed[rows[i]] = 1 /\ (done \/ i <= Off)
            /\ page # Unset /\ Contains(page, rows[i]) =>
                  /\ listed[rows[i]] = 0
                  /\ TellsPlace /\ store.from = "offset" => i <= Off + Limit

KeyOnce ==
    ByKey /\ ~MayRepeat =>
        /\ \A k \in stayed :
              \/ listed[k] = 0
              \/ listed[k] = 1 /\ (done \/ (cursor # Unset /\ k <= cursor))
        /\ page # Unset =>
              \A i \in DOMAIN page :
                 page[i] <= Last(page) /\ (cursor # Unset => page[i] > cursor)
-------------------------------------------------------------------------------
\* What the twelve stores are like.
LEMMA StoreFacts ==
    ASSUME store \in Stores
    PROVE  /\ store.order \in {"key", "updated", "inserted", "owners", "none"}
           /\ store.from \in {"offset", "key", "row", "code", "first", "second"}
           /\ store.more \in {"before", "beside", "rows"}
           /\ store.from # "offset" => store.order = "key" /\ store.more = "rows"
           /\ store.order = "none" => store.more = "before"
BY DEF Stores, ListWorkflows, ListBatches, ListImages, FetchAccountNames, Internal,
       PostgresWorkflows, PostgresRuntimes, PostgresBatches, PostgresUsers, PostgresImages,
       PostgresCdpAccounts, InMemoryWorkflows, InMemoryRuntimes, InMemoryBatches,
       InMemoryUsers, InMemoryImages, InMemoryCdpAccounts

\* A page is a part of what was found.
LEMMA PageFacts ==
    ASSUME ListType, NEW seq \in Seq(Keys), NEW n \in Nat, n = Skipped(seq)
    PROVE  /\ Page(seq) \in Seq(Keys)
           /\ \A i \in DOMAIN Page(seq) :
                 i \in 1..Limit /\ n + i \in DOMAIN seq /\ Page(seq)[i] = seq[n + i]
           /\ \A i \in DOMAIN seq : n < i /\ i <= n + Limit =>
                 i - n \in DOMAIN Page(seq) /\ Page(seq)[i - n] = seq[i]
           /\ HasMore(seq) <=> n + Limit < Len(seq)
           /\ HasMore(seq) => Len(Page(seq)) = Limit
<1> DEFINE last == Min({n + Limit, Len(seq)})
<1>1. Len(seq) \in Nat /\ Limit \in Nat /\ Limit > 0
  BY ListingAssumption
<1>2. last = IF n + Limit <= Len(seq) THEN n + Limit ELSE Len(seq)
  <2>1. n + Limit \in Int /\ Len(seq) \in Int
    BY <1>1
  <2>2. /\ last \in {n + Limit, Len(seq)}
        /\ last <= n + Limit /\ last <= Len(seq)
    BY <2>1, MinFact, Zenon
  <2>3. QED
    BY <2>1, <2>2
<1>3. Page(seq) = SubSeq(seq, n + 1, last)
  BY DEF Page
<1> HIDE DEF last
<1>4. last \in Nat /\ last <= Len(seq) /\ last <= n + Limit
  BY <1>1, <1>2
<1>5. /\ Page(seq) \in Seq(Keys)
      /\ Len(Page(seq)) = IF n + 1 <= last THEN last - n ELSE 0
      /\ \A i \in 1..Len(Page(seq)) : Page(seq)[i] = seq[n + i]
  <2>1. CASE n + 1 <= last
    <3>1. Len(Page(seq)) = last - n
      BY <1>1, <1>3, <1>4, <2>1
    <3>2. Page(seq) \in Seq(Keys)
      BY <1>1, <1>3, <1>4, <2>1
    <3>3. ASSUME NEW i \in 1..(last - n) PROVE Page(seq)[i] = seq[n + i]
      <4>1. Page(seq)[i] = seq[n + 1 + i - 1]
        BY <1>1, <1>3, <1>4, <2>1, <3>3
      <4>2. n + 1 + i - 1 = n + i
        BY <1>4
      <4>3. QED
        BY <4>1, <4>2
    <3>4. QED
      BY <2>1, <3>1, <3>2, <3>3
  <2>2. CASE last < n + 1
    <3>1. Page(seq) = <<>>
      BY <1>1, <1>3, <1>4, <2>2
    <3>2. QED
      BY <1>4, <2>2, <3>1
  <2>3. QED
    BY <1>4, <2>1, <2>2
<1>6. DOMAIN Page(seq) = 1..Len(Page(seq)) /\ DOMAIN seq = 1..Len(seq)
  BY <1>5
<1>7. ASSUME NEW i \in DOMAIN Page(seq)
      PROVE  i \in 1..Limit /\ n + i \in DOMAIN seq /\ Page(seq)[i] = seq[n + i]
  BY <1>1, <1>4, <1>5, <1>6
<1>8. ASSUME NEW i \in DOMAIN seq, n < i, i <= n + Limit
      PROVE  i - n \in DOMAIN Page(seq) /\ Page(seq)[i - n] = seq[i]
  <2>1. i \in Nat /\ i <= Len(seq)
    BY <1>1, <1>6
  <2>2. i <= last
    BY <1>1, <1>2, <1>8, <2>1
  <2>3. i - n \in 1..Len(Page(seq))
    BY <1>4, <1>5, <1>8, <2>1, <2>2
  <2>4. n + (i - n) = i
    BY <2>1
  <2>5. QED
    BY <1>5, <1>6, <2>3, <2>4
<1>9. HasMore(seq) <=> n + Limit < Len(seq)
  BY DEF HasMore
<1>10. HasMore(seq) => Len(Page(seq)) = Limit
  BY <1>1, <1>2, <1>4, <1>5, <1>9
<1>11. QED
  BY <1>5, <1>7, <1>8, <1>9, <1>10

\* Where a page starts that is told by its place.
LEMMA SkippedByPlace ==
    ASSUME ListType, ~ByKey, NEW seq \in Seq(Keys)
    PROVE  /\ Off \in Nat /\ Skipped(seq) \in Nat
           /\ seq # <<>> => Skipped(seq) = Off
<1>1. store.from \in {"offset", "first", "second"}
  BY StoreFacts DEF ListType, ByKey
<1>2. Off \in Nat
  BY <1>1 DEF ListType, Off
<1>3. CASE cursor = Unset \/ seq = <<>>
  BY <1>2, <1>3 DEF Skipped, Off
<1>4. CASE ~(cursor = Unset \/ seq = <<>>)
  <2>1. CASE store.from = "offset"
    BY <1>2, <1>4, <2>1 DEF Skipped, Off
  <2>2. CASE store.from = "first"
    BY <1>2, <1>4, <2>2 DEF Skipped, Off
  <2>3. CASE store.from = "second"
    BY <1>2, <1>4, <2>3 DEF Skipped, Off
  <2>4. QED
    BY <1>1, <2>1, <2>2, <2>3
<1>5. QED
  BY <1>2, <1>3, <1>4

\* Where a page starts that is told by a key.
LEMMA SkippedByKey ==
    ASSUME ListType, Shape, ByKey, ~(store.from = "code" /\ Mixed)
    PROVE  /\ Skipped(rows) \in 0..Len(rows)
           /\ \A i \in DOMAIN rows :
                 /\ i <= Skipped(rows) => cursor # Unset /\ rows[i] <= cursor
                 /\ cursor # Unset /\ i > Skipped(rows) =>
                       rows[i] > cursor \/ (store.from = "row" /\ ~Contains(rows, cursor))
<1> SUFFICES ASSUME NEW n, n = Skipped(rows)
             PROVE  /\ n \in 0..Len(rows)
                    /\ \A i \in DOMAIN rows :
                          /\ i <= n => cursor # Unset /\ rows[i] <= cursor
                          /\ cursor # Unset /\ i > n =>
                                rows[i] > cursor \/ (store.from = "row" /\ ~Contains(rows, cursor))
  OBVIOUS
<1>1. /\ store.from \in {"key", "row", "code"}
      /\ store.order = "key"
  BY StoreFacts DEF ListType, ByKey
<1>2. /\ rows \in Seq(Keys) /\ Len(rows) \in Nat /\ DOMAIN rows = 1..Len(rows)
      /\ Keys \subseteq Nat
      /\ \A i \in DOMAIN rows : rows[i] \in Nat /\ rows[i] \in Keys
      /\ \A i, j \in DOMAIN rows : i < j => rows[i] < rows[j]
  <2>1. rows \in Seq(Keys) /\ Keys \subseteq Nat
    BY ListingAssumption DEF ListType
  <2>2. Len(rows) \in Nat /\ DOMAIN rows = 1..Len(rows) /\ \A i \in DOMAIN rows : rows[i] \in Keys
    BY <2>1
  <2>3. \A i, j \in DOMAIN rows : i < j => rows[i] < rows[j]
    BY <1>1 DEF ListType, Ordered
  <2>4. QED
    BY <2>1, <2>2, <2>3
<1>3. cursor \in Keys \cup {Unset}
  BY DEF Shape
<1>4. CASE cursor = Unset \/ rows = <<>>
  <2>1. n = 0
    BY <1>4 DEF Skipped
  <2>2. cursor # Unset => DOMAIN rows = {}
    BY <1>4
  <2>3. QED
    BY <1>2, <2>1, <2>2
<1>5. CASE ~(cursor = Unset \/ rows = <<>>)
  <2>1. cursor \in Keys /\ cursor \in Nat /\ cursor # Unset
    BY <1>2, <1>3, <1>5
  <2>2. CASE store.from = "key"
    <3> DEFINE T == {i \in DOMAIN rows : rows[i] <= cursor}
    <3>1. n = Cardinality(T)
      BY <1>5, <2>2 DEF Skipped
    <3>2. T \in SUBSET (1..Len(rows)) /\ \A i \in T : \A j \in 1..Len(rows) : j <= i => j \in T
      BY <1>2, <2>1
    <3>3. Cardinality(T) \in 0..Len(rows) /\ T = 1..Cardinality(T)
      <4> HIDE DEF T
      <4> QED
        BY <1>2, <3>2, Initial
    <3>4. \A i \in DOMAIN rows : i <= n <=> i \in T
      BY <1>2, <3>1, <3>3
    <3>5. n \in 0..Len(rows)
      BY <3>1, <3>3
    <3>6. QED
      BY <1>2, <2>1, <3>4, <3>5
  <2>3. CASE store.from = "row"
    <3> DEFINE T == {i \in DOMAIN rows : rows[i] <= cursor /\ Contains(rows, cursor)}
    <3>1. n = Cardinality(T)
      BY <1>5, <2>3 DEF Skipped
    <3>2. T \in SUBSET (1..Len(rows)) /\ \A i \in T : \A j \in 1..Len(rows) : j <= i => j \in T
      BY <1>2, <2>1
    <3>3. Cardinality(T) \in 0..Len(rows) /\ T = 1..Cardinality(T)
      <4> HIDE DEF T
      <4> QED
        BY <1>2, <3>2, Initial
    <3>4. \A i \in DOMAIN rows : i <= n <=> i \in T
      BY <1>2, <3>1, <3>3
    <3>5. n \in 0..Len(rows)
      BY <3>1, <3>3
    <3>6. QED
      BY <1>2, <2>1, <2>3, <3>4, <3>5
  <2>4. CASE store.from = "code"
    <3>1. code \in [Keys -> Nat] /\ \A j, k \in Keys : j < k => code[j] < code[k]
      <4>1. code \in [Keys -> Nat]
        BY DEF ListType
      <4>2. QED
        BY <2>4, <4>1 DEF Mixed
    <3>2. \A i \in DOMAIN rows : code[rows[i]] <= code[cursor] <=> rows[i] <= cursor
      BY <1>2, <2>1, <3>1
    <3>3. CASE \A i \in DOMAIN rows : code[rows[i]] <= code[cursor]
      <4>1. n = Len(rows)
        BY <1>5, <2>4, <3>3 DEF Skipped
      <4>2. QED
        BY <1>2, <2>1, <3>2, <3>3, <4>1
    <3>4. CASE ~ \A i \in DOMAIN rows : code[rows[i]] <= code[cursor]
      <4> DEFINE T == {i \in 1..Len(rows) : code[rows[i]] > code[cursor]}
      <4>1. T # {} /\ T \in SUBSET Nat
        BY <1>2, <2>1, <3>1, <3>4
      <4>2. n = Min(T) - 1
        BY <1>5, <2>4, <3>4, <4>1 DEF Skipped, SelectInSeq
      <4>3. Min(T) \in T /\ \A i \in T : Min(T) <= i
        <5> HIDE DEF T
        <5>1. \E m \in T : \A i \in T : m <= i
          BY <4>1, SmallestNumber
        <5>2. QED
          BY <5>1 DEF Min
      <4>4. \A i \in DOMAIN rows : i < Min(T) => code[rows[i]] <= code[cursor]
        BY <1>2, <2>1, <3>1, <4>3
      <4>5. \A i \in DOMAIN rows : i >= Min(T) => rows[i] > cursor
        <5>1. Min(T) \in DOMAIN rows /\ rows[Min(T)] > cursor
          BY <1>2, <2>1, <3>1, <3>2, <4>3
        <5>2. QED
          BY <1>2, <2>1, <5>1
      <4>6. Min(T) \in 1..Len(rows)
        BY <4>3
      <4> HIDE DEF T
      <4>7. QED
        BY <1>2, <2>1, <3>2, <4>2, <4>4, <4>5, <4>6
    <3>5. QED
      BY <3>3, <3>4
  <2>5. QED
    BY <1>1, <2>2, <2>3, <2>4
<1>6. QED
  BY <1>4, <1>5

\* What a statement may find: the rows, in their order if the list has one.
LEMMA FoundFacts ==
    ASSUME ListType, NEW seq \in Found
    PROVE  /\ seq \in Seq(Keys) /\ Len(seq) = Len(rows)
           /\ \A i \in DOMAIN rows : \E j \in DOMAIN seq : seq[j] = rows[i]
           /\ store.order # "none" => seq = rows
<1>1. CASE store.order # "none"
  BY <1>1 DEF Found, ListType
<1>2. CASE store.order = "none"
  <2> DEFINE S == ToSet(rows)
             D == 1..Len(rows)
  <2>1. /\ rows \in Seq(Keys) /\ Len(rows) \in Nat /\ DOMAIN rows = D
        /\ \A i, j \in D : rows[i] = rows[j] => i = j
        /\ S \subseteq Keys /\ \A i \in D : rows[i] \in S
    BY DEF ListType, Distinct, ToSet
  <2>2. IsFiniteSet(D) /\ Cardinality(D) = Len(rows)
    <3>1. 1 \in Int /\ Len(rows) \in Int /\ (1 > Len(rows) => Len(rows) = 0)
          /\ Len(rows) - 1 + 1 = Len(rows)
      BY <2>1
    <3>2. QED
      BY <3>1, FS_Interval
  <2>3. rows \in Bijection(D, S)
    <3>1. rows \in [D -> S]
      BY <2>1
    <3>2. \A k \in S : \E i \in D : rows[i] = k
      BY <2>1 DEF ToSet
    <3>3. QED
      BY <2>1, <3>1, <3>2 DEF Bijection, Injection, Surjection, IsInjective
  <2>4. IsFiniteSet(S) /\ Cardinality(S) = Len(rows)
    BY <2>2, <2>3, FS_Bijection DEF ExistsBijection
  <2>5. seq \in [D -> S] /\ \A i, j \in D : i # j => seq[i] # seq[j]
    BY <1>2, <2>4 DEF Found, SetToSeqs
  <2>6. seq \in Seq(Keys) /\ Len(seq) = Len(rows) /\ DOMAIN seq = D
    BY <2>1, <2>5
  <2>7. seq \in Injection(D, S)
    BY <2>5 DEF Injection, IsInjective
  <2>8. seq \in Surjection(D, S)
    <3> HIDE DEF D, S
    <3> QED
      BY <2>2, <2>4, <2>7, FS_Injection
  <2>9. \A k \in S : \E j \in D : seq[j] = k
    BY <2>8 DEF Surjection
  <2>10. QED
    BY <1>2, <2>1, <2>6, <2>9
<1>3. QED
  BY <1>1, <1>2

\* A page starts somewhere even where the orders differ.
LEMMA SkippedNat ==
    ASSUME ListType, Shape, ByKey
    PROVE  Skipped(rows) \in Nat
<1>1. CASE ~(store.from = "code" /\ Mixed)
  <2>1. Skipped(rows) \in 0..Len(rows)
    BY <1>1, SkippedByKey
  <2>2. QED
    BY <2>1
<1>2. CASE store.from = "code"
  <2> DEFINE T == {i \in 1..Len(rows) : code[rows[i]] > code[cursor]}
  <2>1. rows \in Seq(Keys) /\ Len(rows) \in Nat
    BY DEF ListType
  <2>2. CASE cursor = Unset \/ rows = <<>>
    BY <2>2 DEF Skipped
  <2>3. CASE ~(cursor = Unset \/ rows = <<>>)
    <3>1. cursor \in Keys /\ code \in [Keys -> Nat] /\ \A i \in DOMAIN rows : rows[i] \in Keys
      BY <2>1, <2>3 DEF ListType, Shape
    <3>2. CASE \A i \in DOMAIN rows : code[rows[i]] <= code[cursor]
      BY <1>2, <2>1, <2>3, <3>2 DEF Skipped
    <3>3. CASE ~ \A i \in DOMAIN rows : code[rows[i]] <= code[cursor]
      <4>1. T # {} /\ T \in SUBSET Nat
        <5>1. PICK i \in DOMAIN rows : ~(code[rows[i]] <= code[cursor])
          BY <3>3
        <5>2. i \in 1..Len(rows) /\ code[rows[i]] > code[cursor]
          BY <2>1, <3>1, <5>1
        <5>3. QED
          BY <2>1, <5>2
      <4>2. Skipped(rows) = Min(T) - 1
        BY <1>2, <2>3, <3>3, <4>1 DEF Skipped, SelectInSeq
      <4>3. Min(T) \in T
        <5> HIDE DEF T
        <5>1. \E m \in T : \A i \in T : m <= i
          BY <4>1, SmallestNumber
        <5>2. QED
          BY <5>1 DEF Min
      <4>4. Min(T) \in 1..Len(rows)
        BY <4>3
      <4>5. QED
        BY <4>2, <4>4
    <3>4. QED
      BY <3>2, <3>3
  <2>4. QED
    BY <2>2, <2>3
<1>3. QED
  BY <1>1, <1>2

\* An insertion leaves the rows in their order, none of them before where it was, and none
\* elsewhere if new rows go to the end.
LEMMA InsertFacts ==
    ASSUME ListType, NEW k \in Keys, ~Contains(rows, k), rows' = InsertAt(rows, Place(k), k),
           store' = store
    PROVE  /\ rows' \in Seq(Keys) /\ Distinct(rows') /\ Ordered(rows)'
           /\ ToSet(rows) \subseteq ToSet(rows')
           /\ \A i \in DOMAIN rows' : rows'[i] # k =>
                 \E j \in DOMAIN rows :
                    /\ rows[j] = rows'[i] /\ j <= i
                    /\ store.order \in {"updated", "inserted"} => j = i
<1> DEFINE AtEnd == store.order \in {"updated", "inserted"}
           Sorted == store.order \in {"key", "none"}
           Blocks == store.order = "owners"
           T == {i \in DOMAIN rows : rows[i] < k}
           p == Place(k)
<1>1. /\ rows \in Seq(Keys) /\ Len(rows) \in Nat /\ DOMAIN rows = 1..Len(rows)
      /\ \A i \in DOMAIN rows : rows[i] \in Keys
  BY DEF ListType
<1>2. Keys \subseteq Nat /\ k \in Nat /\ \A i \in DOMAIN rows : rows[i] \in Nat
  BY <1>1, ListingAssumption
<1>3. /\ \A i \in DOMAIN rows : rows[i] # k
      /\ \A i, j \in DOMAIN rows : rows[i] = rows[j] => i = j
      /\ Sorted => \A i, j \in DOMAIN rows : i < j => rows[i] < rows[j]
      /\ Blocks => \A i, j, m \in DOMAIN rows :
                      i < j /\ j < m /\ OwnerOf[rows[i]] = OwnerOf[rows[m]]
                          => OwnerOf[rows[j]] = OwnerOf[rows[m]]
  BY <1>1 DEF ListType, Distinct, Ordered, Contains
<1>4. /\ p \in 1..(Len(rows) + 1)
      /\ AtEnd => p = Len(rows) + 1
      /\ Sorted => \A i \in DOMAIN rows : i < p <=> rows[i] < k
      /\ Blocks => /\ \A i \in DOMAIN rows : OwnerOf[rows[i]] = OwnerOf[k] => i < p
                   /\ \/ /\ p = Len(rows) + 1
                         /\ \A i \in DOMAIN rows : OwnerOf[rows[i]] # OwnerOf[k]
                      \/ p - 1 \in DOMAIN rows /\ OwnerOf[rows[p - 1]] = OwnerOf[k]
  <2>1. CASE AtEnd
    BY <1>1, <2>1 DEF Place
  <2>2. CASE Sorted
    <3>1. p = 1 + Cardinality(T)
      BY <2>2 DEF Place
    <3>2. T \in SUBSET (1..Len(rows)) /\ \A i \in T : \A j \in 1..Len(rows) : j <= i => j \in T
      <4>1. ASSUME NEW i \in T, NEW j \in 1..Len(rows), j <= i PROVE j \in T
        <5>1. j = i \/ rows[j] < rows[i]
          BY <1>1, <1>3, <2>2, <4>1
        <5>2. QED
          BY <1>1, <1>2, <4>1, <5>1
      <4>2. QED
        BY <1>1, <4>1
    <3>3. Cardinality(T) \in 0..Len(rows) /\ T = 1..Cardinality(T)
      <4> HIDE DEF T
      <4> QED
        BY <1>1, <3>2, Initial
    <3>4. ASSUME NEW i \in DOMAIN rows PROVE i < p <=> rows[i] < k
      <4>1. i \in T <=> i < p
        <5> HIDE DEF T, p
        <5> QED
          BY <1>1, <3>1, <3>3
      <4>2. QED
        BY <4>1
    <3>5. p \in 1..(Len(rows) + 1)
      <4> HIDE DEF T, p
      <4> QED
        BY <1>1, <3>1, <3>3
    <3>6. QED
      BY <2>2, <3>4, <3>5
  <2>3. CASE Blocks
    <3>1. Fellows(k) \subseteq DOMAIN rows
      BY DEF Fellows
    <3>2. CASE Fellows(k) = {}
      <4>1. p = Len(rows) + 1
        BY <1>1, <2>3, <3>2 DEF Place
      <4>2. \A i \in DOMAIN rows : OwnerOf[rows[i]] # OwnerOf[k]
        BY <3>2 DEF Fellows
      <4>3. QED
        BY <1>1, <2>3, <4>1, <4>2
    <3>3. CASE Fellows(k) # {}
      <4>1. p = 1 + Max(Fellows(k))
        BY <2>3, <3>3 DEF Place
      <4>2. Max(Fellows(k)) \in Fellows(k) /\ \A i \in Fellows(k) : i <= Max(Fellows(k))
        BY <1>1, <3>1, <3>3, GreatestNumber
      <4>3. p - 1 \in Fellows(k) /\ \A i \in Fellows(k) : i < p
        BY <1>1, <3>1, <4>1, <4>2
      <4>4. p - 1 \in DOMAIN rows /\ OwnerOf[rows[p - 1]] = OwnerOf[k]
        BY <4>3 DEF Fellows
      <4>5. \A i \in DOMAIN rows : OwnerOf[rows[i]] = OwnerOf[k] => i < p
        BY <4>3 DEF Fellows
      <4>6. p \in 1..(Len(rows) + 1)
        <5>1. Max(Fellows(k)) \in 1..Len(rows)
          BY <1>1, <3>1, <4>2
        <5>2. QED
          BY <1>1, <4>1, <5>1
      <4>7. QED
        BY <2>3, <4>4, <4>5, <4>6
    <3>4. QED
      BY <3>2, <3>3
  <2>4. QED
    BY <2>1, <2>2, <2>3, StoreFacts DEF ListType
<1> HIDE DEF T, p
<1>5. /\ rows' \in Seq(Keys) /\ Len(rows') = Len(rows) + 1
      /\ \A j \in DOMAIN rows' :
            rows'[j] = IF j < p THEN rows[j] ELSE IF j = p THEN k ELSE rows[j - 1]
  <2>1. rows' = InsertAt(rows, p, k)
    BY DEF p
  <2>2. rows \in Seq(Keys) /\ p \in 1..(Len(rows) + 1)
    BY <1>1, <1>4
  <2>3. QED
    BY <2>1, <2>2, InsertedAt
<1>6. DOMAIN rows' = 1..(Len(rows) + 1)
  BY <1>1, <1>5
<1>7. ASSUME NEW i \in DOMAIN rows', NEW j \in DOMAIN rows', rows'[i] = rows'[j] PROVE i = j
  <2>1. /\ i < p => i \in DOMAIN rows
        /\ i > p => i - 1 \in DOMAIN rows
        /\ j < p => j \in DOMAIN rows
        /\ j > p => j - 1 \in DOMAIN rows
    BY <1>1, <1>4, <1>6
  <2>2. QED
    BY <1>1, <1>3, <1>4, <1>5, <1>6, <1>7, <2>1
<1>8. Sorted => \A i, j \in DOMAIN rows' : i < j => rows'[i] < rows'[j]
  <2>1. ASSUME Sorted, NEW i \in DOMAIN rows', NEW j \in DOMAIN rows', i < j
        PROVE  rows'[i] < rows'[j]
    <3>1. /\ i < p => i \in DOMAIN rows
          /\ i > p => i - 1 \in DOMAIN rows
          /\ j < p => j \in DOMAIN rows
          /\ j > p => j - 1 \in DOMAIN rows
          /\ p \in Nat /\ i \in Nat /\ j \in Nat
      BY <1>1, <1>4, <1>6
    <3>2. CASE j < p
      BY <1>3, <1>5, <2>1, <3>1, <3>2
    <3>3. CASE j = p
      BY <1>4, <1>5, <2>1, <3>1, <3>3
    <3>4. CASE j > p /\ i < p
      <4>1. /\ rows'[i] = rows[i] /\ rows[i] < k
            /\ rows'[j] = rows[j - 1] /\ ~(j - 1 < p)
        BY <1>4, <1>5, <2>1, <3>1, <3>4
      <4>2. ~(rows[j - 1] < k) /\ rows[i] \in Nat /\ rows[j - 1] \in Nat
        BY <1>2, <1>4, <2>1, <3>1, <3>4, <4>1
      <4>3. QED
        BY <1>2, <4>1, <4>2
    <3>5. CASE j > p /\ i = p
      <4>1. rows'[i] = k /\ rows'[j] = rows[j - 1] /\ ~(j - 1 < p)
        BY <1>5, <2>1, <3>1, <3>5
      <4>2. QED
        BY <1>2, <1>3, <1>4, <2>1, <3>1, <3>5, <4>1
    <3>6. CASE j > p /\ i > p
      BY <1>3, <1>5, <2>1, <3>1, <3>6
    <3>7. QED
      BY <3>1, <3>2, <3>3, <3>4, <3>5, <3>6
  <2>2. QED
    BY <2>1
<1>13. Blocks => \A i, j, m \in DOMAIN rows' :
                    i < j /\ j < m /\ OwnerOf[rows'[i]] = OwnerOf[rows'[m]]
                        => OwnerOf[rows'[j]] = OwnerOf[rows'[m]]
  <2>1. SUFFICES ASSUME Blocks, NEW i \in DOMAIN rows', NEW j \in DOMAIN rows',
                        NEW m \in DOMAIN rows', i < j, j < m,
                        OwnerOf[rows'[i]] = OwnerOf[rows'[m]]
                 PROVE  OwnerOf[rows'[j]] = OwnerOf[rows'[m]]
    OBVIOUS
  <2>2. /\ \A n \in {i, j, m} : /\ n \in Nat
                                /\ n < p => n \in DOMAIN rows /\ rows'[n] = rows[n]
                                /\ n > p => n - 1 \in DOMAIN rows /\ rows'[n] = rows[n - 1]
                                /\ n = p => rows'[n] = k
        /\ p \in Nat
    BY <1>1, <1>4, <1>5, <1>6
  <2>3. CASE i # p /\ j # p /\ m # p
    <3>1. PICK a, b, c \in DOMAIN rows :
             /\ rows'[i] = rows[a] /\ rows'[j] = rows[b] /\ rows'[m] = rows[c]
             /\ a < b /\ b < c
      <4> DEFINE At(n) == IF n < p THEN n ELSE n - 1
      <4>1. \A n \in {i, j, m} : At(n) \in DOMAIN rows /\ rows'[n] = rows[At(n)]
        BY <2>2, <2>3
      <4>2. At(i) < At(j) /\ At(j) < At(m)
        BY <2>1, <2>2, <2>3
      <4>3. QED
        BY <4>1, <4>2
    <3>2. QED
      BY <1>3, <2>1, <3>1
  <2>4. CASE i = p
    <3>1. m - 1 \in DOMAIN rows /\ OwnerOf[rows[m - 1]] = OwnerOf[k] /\ ~(m - 1 < p)
      BY <2>1, <2>2, <2>4
    <3>2. QED
      BY <1>4, <2>1, <3>1
  <2>5. CASE j = p
    <3>1. i \in DOMAIN rows /\ m - 1 \in DOMAIN rows /\ OwnerOf[rows[i]] = OwnerOf[rows[m - 1]]
          /\ i <= p - 1 /\ p - 1 < m - 1 /\ p # Len(rows) + 1
      BY <1>1, <1>6, <2>1, <2>2, <2>5
    <3>2. p - 1 \in DOMAIN rows /\ OwnerOf[rows[p - 1]] = OwnerOf[k]
      BY <1>4, <2>1, <3>1
    <3>3. i = p - 1 \/ i < p - 1
      BY <2>2, <3>1
    <3>4. OwnerOf[rows[p - 1]] = OwnerOf[rows[m - 1]]
      BY <1>3, <2>1, <3>1, <3>2, <3>3
    <3>5. rows'[j] = k /\ rows'[m] = rows[m - 1]
      BY <2>1, <2>2, <2>5
    <3>6. QED
      BY <3>2, <3>4, <3>5
  <2>6. CASE m = p
    <3>1. i \in DOMAIN rows /\ j \in DOMAIN rows /\ OwnerOf[rows[i]] = OwnerOf[k] /\ j <= p - 1
          /\ rows'[j] = rows[j] /\ rows'[m] = k
      BY <2>1, <2>2, <2>6
    <3>2. p - 1 \in DOMAIN rows /\ OwnerOf[rows[p - 1]] = OwnerOf[k]
      BY <1>4, <2>1, <3>1
    <3>3. j = p - 1 \/ j < p - 1
      BY <2>2, <3>1
    <3>4. OwnerOf[rows[j]] = OwnerOf[k]
      BY <1>3, <2>1, <3>1, <3>2, <3>3
    <3>5. QED
      BY <3>1, <3>4
  <2>7. QED
    BY <2>3, <2>4, <2>5, <2>6
<1>9. Ordered(rows)'
  BY <1>8, <1>13 DEF Ordered
<1>10. ToSet(rows) \subseteq ToSet(rows')
  <2>1. ASSUME NEW i \in DOMAIN rows PROVE \E j \in DOMAIN rows' : rows'[j] = rows[i]
    <3>1. CASE i < p
      BY <1>1, <1>4, <1>5, <1>6, <3>1
    <3>2. CASE i >= p
      <4>1. i + 1 \in DOMAIN rows' /\ ~(i + 1 < p) /\ i + 1 # p /\ i + 1 - 1 = i
        BY <1>1, <1>4, <1>6, <3>2
      <4>2. rows'[i + 1] = rows[i]
        BY <1>5, <4>1
      <4>3. QED
        BY <4>1, <4>2
    <3>3. QED
      BY <1>1, <1>4, <3>1, <3>2
  <2>2. QED
    BY <2>1 DEF ToSet
<1>11. ASSUME NEW i \in DOMAIN rows', rows'[i] # k
       PROVE  \E j \in DOMAIN rows : rows[j] = rows'[i] /\ j <= i /\ (AtEnd => j = i)
  <2>1. CASE i < p
    <3>1. i \in DOMAIN rows /\ rows[i] = rows'[i] /\ i <= i
      BY <1>1, <1>4, <1>5, <1>6, <2>1
    <3>2. QED
      BY <3>1
  <2>2. CASE i > p
    <3>1. i - 1 \in DOMAIN rows /\ rows[i - 1] = rows'[i] /\ i - 1 <= i /\ ~AtEnd
      BY <1>1, <1>4, <1>5, <1>6, <2>2
    <3>2. QED
      BY <3>1
  <2>3. i # p
    BY <1>5, <1>11
  <2>4. QED
    BY <1>4, <1>6, <2>1, <2>2, <2>3
<1>12. QED
  BY <1>5, <1>7, <1>9, <1>10, <1>11 DEF Distinct

\* A deletion leaves the rows in their order, none of them behind where it was.
LEMMA DeleteFacts ==
    ASSUME ListType, NEW i \in DOMAIN rows, NEW t, t = RemoveAt(rows, i)
    PROVE  /\ t \in Seq(Keys) /\ Distinct(t) /\ Ordered(t)
           /\ ToSet(rows) \ {rows[i]} \subseteq ToSet(t)
           /\ \A m \in DOMAIN t :
                 t[m] # rows[i] /\ \E j \in DOMAIN rows : rows[j] = t[m] /\ m <= j
<1>1. /\ rows \in Seq(Keys) /\ Len(rows) \in Nat /\ DOMAIN rows = 1..Len(rows)
      /\ \A j, m \in DOMAIN rows : rows[j] = rows[m] => j = m
      /\ Ordered(rows)
  BY DEF ListType, Distinct
<1>2. /\ t \in Seq(Keys) /\ Len(t) = Len(rows) - 1
      /\ \A j \in DOMAIN t : t[j] = IF j < i THEN rows[j] ELSE rows[j + 1]
  <2>1. rows \in Seq(Keys)
    BY <1>1
  <2>2. QED
    BY <2>1, RemovedAt
<1>3. DOMAIN t = 1..(Len(rows) - 1) /\ \A j \in DOMAIN t : j \in DOMAIN rows /\ j + 1 \in DOMAIN rows
  BY <1>1, <1>2
<1>4. Distinct(t)
  <2>1. ASSUME NEW j \in DOMAIN t, NEW m \in DOMAIN t, t[j] = t[m] PROVE j = m
    BY <1>1, <1>2, <1>3, <2>1
  <2>2. QED
    BY <2>1 DEF Distinct
<1>5. Ordered(t)
  <2> DEFINE At(j) == IF j < i THEN j ELSE j + 1
  <2>1. \A j \in DOMAIN t : At(j) \in DOMAIN rows /\ t[j] = rows[At(j)]
    BY <1>1, <1>2, <1>3
  <2>2. \A j, m \in DOMAIN t : j < m => At(j) < At(m)
    BY <1>1, <1>3
  <2> HIDE DEF At
  <2>3. CASE store.order \in {"key", "none"}
    BY <1>1, <2>1, <2>2, <2>3 DEF Ordered
  <2>4. CASE store.order = "owners"
    BY <1>1, <2>1, <2>2, <2>4 DEF Ordered
  <2>5. QED
    BY <2>3, <2>4 DEF Ordered
<1>6. ToSet(rows) \ {rows[i]} \subseteq ToSet(t)
  <2>1. ASSUME NEW j \in DOMAIN rows, rows[j] # rows[i] PROVE \E m \in DOMAIN t : t[m] = rows[j]
    <3>1. CASE j < i
      BY <1>1, <1>2, <1>3, <3>1
    <3>2. CASE j > i
      <4>1. j - 1 \in DOMAIN t /\ ~(j - 1 < i) /\ j - 1 + 1 = j
        BY <1>1, <1>3, <3>2
      <4>2. t[j - 1] = rows[j]
        BY <1>2, <4>1
      <4>3. QED
        BY <4>1, <4>2
    <3>3. QED
      BY <1>1, <2>1, <3>1, <3>2
  <2>2. QED
    BY <2>1 DEF ToSet
<1>7. ASSUME NEW m \in DOMAIN t
      PROVE  t[m] # rows[i] /\ \E j \in DOMAIN rows : rows[j] = t[m] /\ m <= j
  <2>1. CASE m < i
    <3>1. t[m] = rows[m] /\ m \in DOMAIN rows /\ m # i /\ m <= m
      BY <1>1, <1>2, <1>3, <2>1
    <3>2. QED
      BY <1>1, <3>1
  <2>2. CASE m >= i
    <3>1. t[m] = rows[m + 1] /\ m + 1 \in DOMAIN rows /\ m + 1 # i /\ m <= m + 1
      BY <1>1, <1>2, <1>3, <2>2
    <3>2. QED
      BY <1>1, <3>1
  <2>3. QED
    BY <1>1, <1>3, <2>1, <2>2
<1>8. QED
  BY <1>2, <1>4, <1>5, <1>6, <1>7

\* An update leaves the rows that were there.
LEMMA UpdateFacts ==
    ASSUME ListType, NEW i \in DOMAIN rows, NEW t, t = Append(RemoveAt(rows, i), rows[i])
    PROVE  t \in Seq(Keys) /\ Distinct(t) /\ ToSet(rows) \subseteq ToSet(t)
<1> DEFINE u == RemoveAt(rows, i)
<1>1. /\ u \in Seq(Keys) /\ Distinct(u) /\ ToSet(rows) \ {rows[i]} \subseteq ToSet(u)
      /\ \A m \in DOMAIN u : u[m] # rows[i]
  BY DeleteFacts
<1>2. rows[i] \in Keys
  BY DEF ListType
<1> HIDE DEF u
<1>3. t = Append(u, rows[i])
  BY DEF u
<1>4. /\ t \in Seq(Keys) /\ DOMAIN t = 1..(Len(u) + 1) /\ DOMAIN u = 1..Len(u) /\ Len(u) \in Nat
      /\ t[Len(u) + 1] = rows[i] /\ \A j \in 1..Len(u) : t[j] = u[j]
  BY <1>1, <1>2, <1>3
<1>5. Distinct(t)
  <2>1. ASSUME NEW j \in DOMAIN t, NEW m \in DOMAIN t, t[j] = t[m] PROVE j = m
    BY <1>1, <1>4, <2>1 DEF Distinct
  <2>2. QED
    BY <2>1 DEF Distinct
<1>6. ToSet(rows) \subseteq ToSet(t)
  <2>1. \A k \in ToSet(u) : k \in ToSet(t)
    BY <1>4 DEF ToSet
  <2>2. rows[i] \in ToSet(t)
    <3>1. Len(u) + 1 \in DOMAIN t
      BY <1>4
    <3>2. QED
      BY <1>4, <3>1 DEF ToSet
  <2>3. QED
    BY <1>1, <2>1, <2>2
<1>7. QED
  BY <1>4, <1>5, <1>6
-------------------------------------------------------------------------------
ListInv == ListType /\ Shape /\ PlaceSeen /\ KeySeen /\ PlaceOnce /\ KeyOnce

\* What may have shifted the pages stays.
LEMMA ShiftedStays ==
    ASSUME happened \subseteq happened', UNCHANGED table, cursor # Unset => cursor' # Unset
    PROVE  (MayMiss => MayMiss') /\ (MayRepeat => MayRepeat')
<1>1. store' = store /\ code' = code
  BY DEF table
<1>2. Mixed' <=> Mixed
  BY <1>1 DEF Mixed
<1>3. MayMiss => MayMiss'
  BY <1>1, <1>2 DEF MayMiss
<1>4. MayRepeat => MayRepeat'
  BY <1>1, <1>2 DEF MayRepeat
<1>5. QED
  BY <1>3, <1>4

\* Nothing read is no sequence.
LEMMA UnsetFacts ==
    /\ Unset \notin Nat /\ Unset \notin Keys /\ Unset \notin Seq(Keys)
    /\ Unset # TRUE /\ Unset # FALSE /\ Unset # <<>>
<1>1. <<>> \in Seq(Keys)
  OBVIOUS
<1>2. QED
  BY <1>1, ListingAssumption

LEMMA CountStep ==
    ASSUME ListInv, Count
    PROVE  ListInv'
<1>1. /\ store' = store /\ code' = code /\ rows' = rows /\ cursor' = cursor /\ page' = page
      /\ done' = done /\ listed' = listed /\ stayed' = stayed /\ happened' = happened
      /\ more = Unset /\ more' \in BOOLEAN
      /\ store.more # "rows"
      /\ more' = ((IF cursor = Unset THEN 0 ELSE cursor) + Limit < Len(rows))
      /\ ~done
  BY DEF Count, table
<1>2. store.from = "offset" /\ ~ByKey /\ (store.order = "none" => store.more = "before")
  BY <1>1, StoreFacts DEF ListInv, ListType, ByKey
<1>3. /\ Off' = Off /\ (TellsPlace' <=> TellsPlace) /\ (ByKey' <=> ByKey)
      /\ (MayMiss' <=> MayMiss) /\ (MayRepeat' <=> MayRepeat)
  BY <1>1 DEF Off, TellsPlace, ByKey, MayMiss, MayRepeat, Mixed
<1>4. Off = (IF cursor = Unset THEN 0 ELSE cursor) /\ Off \in Nat
  BY <1>2 DEF Off, ListInv, ListType
<1>5. ListType'
  BY <1>1 DEF ListInv, ListType, Ordered
<1>6. Shape'
  BY <1>1, <1>2, <1>3, UnsetFacts DEF ListInv, Shape
<1>7. PlaceSeen'
  <2> SUFFICES ASSUME ~MayMiss
               PROVE  /\ \A i \in DOMAIN rows : rows[i] \in stayed /\ i <= Off => listed[rows[i]] > 0
                      /\ page # Unset =>
                            \A i \in DOMAIN rows : rows[i] \in stayed =>
                               \/ listed[rows[i]] > 0 \/ Contains(page, rows[i])
                               \/ more' # FALSE /\ (TellsPlace => i > Off + Limit)
                      /\ more' = FALSE /\ page = Unset => Len(rows) <= Off + Limit
                      /\ page = <<>> \/ done => \A k \in stayed : listed[k] > 0
    BY <1>1, <1>3 DEF PlaceSeen
  <2>1. more' = FALSE => Len(rows) <= Off + Limit
    <3>1. Len(rows) \in Nat /\ Limit \in Nat
      BY ListingAssumption DEF ListInv, ListType
    <3>2. more' = FALSE => ~(Off + Limit < Len(rows))
      BY <1>1, <1>4, Zenon
    <3>3. QED
      BY <1>4, <3>1, <3>2
  <2>2. page # Unset => TellsPlace
    BY <1>1, <1>2 DEF ListInv, Shape, TellsPlace
  <2>3. /\ \A i \in DOMAIN rows : rows[i] \in stayed /\ i <= Off => listed[rows[i]] > 0
        /\ page # Unset =>
              \A i \in DOMAIN rows : rows[i] \in stayed =>
                 \/ listed[rows[i]] > 0 \/ Contains(page, rows[i])
                 \/ TellsPlace => i > Off + Limit
        /\ page = <<>> \/ done => \A k \in stayed : listed[k] > 0
    BY <1>2 DEF ListInv, PlaceSeen
  <2>4. \A i \in DOMAIN rows : i > Off + Limit => ~(Len(rows) <= Off + Limit)
    <3>1. Len(rows) \in Nat /\ Limit \in Nat /\ DOMAIN rows = 1..Len(rows)
      BY ListingAssumption DEF ListInv, ListType
    <3>2. QED
      BY <1>4, <3>1
  <2>5. QED
    BY <2>1, <2>2, <2>3, <2>4
<1>8. KeySeen' /\ KeyOnce'
  BY <1>2, <1>3 DEF KeySeen, KeyOnce
<1>9. PlaceOnce'
  BY <1>1, <1>3 DEF ListInv, PlaceOnce
<1>10. QED
  BY <1>5, <1>6, <1>7, <1>8, <1>9 DEF ListInv

\* What Read finds in a list by place ...
LEMMA ReadByPlace ==
    ASSUME ListInv, Read, ~ByKey
    PROVE  PlaceSeen' /\ PlaceOnce'
<1>1. /\ store' = store /\ code' = code /\ rows' = rows /\ cursor' = cursor
      /\ done' = done /\ listed' = listed /\ stayed' = stayed /\ happened \subseteq happened'
      /\ ~done /\ page = Unset
  BY DEF Read, table
<1>2. PICK seq \in Found :
         page' = Page(seq) /\ more' = IF store.more = "rows" THEN HasMore(seq) ELSE more
  BY DEF Read
<1>3. /\ Off' = Off /\ (TellsPlace' <=> TellsPlace) /\ (ByKey' <=> ByKey)
  BY <1>1 DEF Off, TellsPlace, ByKey
<1>4. (MayMiss => MayMiss') /\ (MayRepeat => MayRepeat')
  BY <1>1, ShiftedStays DEF table
<1>5. /\ store.order \in {"key", "updated", "inserted", "owners", "none"}
      /\ store.from \in {"offset", "first", "second"}
      /\ store.more \in {"before", "beside", "rows"}
      /\ store.from # "offset" => store.order = "key" /\ store.more = "rows"
      /\ store.order = "none" => store.more = "before"
  BY StoreFacts DEF ListInv, ListType, ByKey
<1>6. /\ seq \in Seq(Keys) /\ Len(seq) = Len(rows)
      /\ \A i \in DOMAIN rows : \E j \in DOMAIN seq : seq[j] = rows[i]
      /\ store.order # "none" => seq = rows
  BY FoundFacts DEF ListInv
<1>7. /\ Off \in Nat /\ Skipped(seq) \in Nat
      /\ seq # <<>> => Skipped(seq) = Off
  BY <1>6, SkippedByPlace DEF ListInv
<1>8. PICK n \in Nat : n = Skipped(seq)
  BY <1>7
<1>9. /\ Page(seq) \in Seq(Keys)
      /\ \A i \in DOMAIN Page(seq) :
            i \in 1..Limit /\ n + i \in DOMAIN seq /\ Page(seq)[i] = seq[n + i]
      /\ \A i \in DOMAIN seq : n < i /\ i <= n + Limit =>
            i - n \in DOMAIN Page(seq) /\ Page(seq)[i - n] = seq[i]
      /\ HasMore(seq) <=> n + Limit < Len(seq)
  BY <1>6, <1>8, PageFacts DEF ListInv
<1>10. /\ rows \in Seq(Keys) /\ Len(rows) \in Nat /\ DOMAIN rows = 1..Len(rows)
       /\ DOMAIN seq = 1..Len(rows) /\ Limit \in Nat /\ Limit > 0
       /\ \A i, j \in DOMAIN rows : rows[i] = rows[j] => i = j
       /\ \A i \in DOMAIN rows : listed[rows[i]] \in 0..2
       /\ stayed \subseteq ToSet(rows)
  <2>1. rows \in Seq(Keys) /\ Limit \in Nat /\ Limit > 0
    BY ListingAssumption DEF ListInv, ListType
  <2>2. \A i, j \in DOMAIN rows : rows[i] = rows[j] => i = j
    BY DEF ListInv, ListType, Distinct
  <2>3. \A i \in DOMAIN rows : listed[rows[i]] \in 0..2
    BY <2>1 DEF ListInv, ListType
  <2>4. stayed \subseteq ToSet(rows)
    BY DEF ListInv, ListType
  <2>5. QED
    BY <1>6, <2>1, <2>2, <2>3, <2>4
<1>11. DOMAIN rows # {} => n = Off
  BY <1>6, <1>7, <1>8, <1>10
<1>12. store.order = "none" /\ cursor = Unset => Off = 0
  BY DEF Off
<1>13. page' \in Seq(Keys) /\ page' # Unset
  BY <1>2, <1>9, UnsetFacts
\* The row at the place i is in the page, before or behind it.
<1>14. ASSUME NEW i \in DOMAIN rows, Off < i, store.order = "none" => cursor = Unset
       PROVE  \/ Contains(page', rows[i])
              \/ Off + Limit < Len(rows) /\ (TellsPlace => i > Off + Limit)
  <2>1. PICK j \in DOMAIN seq : seq[j] = rows[i] /\ (store.order # "none" => j = i)
    BY <1>6, <1>14
  <2>2. n = Off /\ n < j
    BY <1>10, <1>11, <1>12, <1>14, <2>1
  <2>3. CASE j <= n + Limit
    <3>1. j - n \in DOMAIN Page(seq) /\ Page(seq)[j - n] = rows[i]
      BY <1>9, <2>1, <2>2, <2>3
    <3>2. DOMAIN Page(seq) = 1..Len(Page(seq))
      BY <1>9
    <3>3. QED
      BY <1>2, <3>1, <3>2 DEF Contains
  <2>4. CASE j > n + Limit
    <3>1. Off + Limit < Len(rows)
      BY <1>10, <2>1, <2>2, <2>4
    <3>2. TellsPlace => i > Off + Limit
      BY <2>1, <2>2, <2>4 DEF TellsPlace
    <3>3. QED
      BY <3>1, <3>2
  <2>5. QED
    BY <1>8, <1>10, <2>1, <2>3, <2>4
<1>15. ASSUME NEW i \in DOMAIN rows, Contains(page', rows[i])
       PROVE  store.order # "none" => Off < i /\ i <= Off + Limit
  <2>1. PICK j \in 1..Len(page') : page'[j] = rows[i]
    BY <1>15 DEF Contains
  <2>2. j \in DOMAIN Page(seq)
    BY <1>2, <1>9, <2>1
  <2>3. j \in 1..Limit /\ n + j \in DOMAIN seq /\ rows[i] = seq[n + j] /\ n = Off
    BY <1>2, <1>9, <1>11, <2>1, <2>2
  <2>4. store.order # "none" => n + j = i
    BY <1>6, <1>10, <2>3
  <2>5. QED
    BY <1>8, <1>10, <2>3, <2>4
<1>16. PlaceSeen'
  <2> SUFFICES ASSUME ~MayMiss'
               PROVE  /\ \A i \in DOMAIN rows : rows[i] \in stayed /\ i <= Off => listed[rows[i]] > 0
                      /\ \A i \in DOMAIN rows : rows[i] \in stayed =>
                            \/ listed[rows[i]] > 0 \/ Contains(page', rows[i])
                            \/ more' # FALSE /\ (TellsPlace => i > Off + Limit)
                      /\ page' = <<>> => \A k \in stayed : listed[k] > 0
    BY <1>1, <1>3, <1>13 DEF PlaceSeen
  <2>1. /\ \A i \in DOMAIN rows : rows[i] \in stayed /\ i <= Off => listed[rows[i]] > 0
        /\ more = FALSE => Len(rows) <= Off + Limit
    BY <1>1, <1>4 DEF ListInv, PlaceSeen
  <2>2. store.order = "none" => cursor = Unset
    BY <1>1 DEF MayMiss
  <2>3. Off + Limit < Len(rows) => more' # FALSE
    <3>1. CASE store.more = "rows"
      <4>1. more' = HasMore(seq)
        BY <1>2, <3>1
      <4>2. more' = FALSE => ~HasMore(seq)
        BY <4>1, Zenon
      <4>3. Off + Limit < Len(rows) => n + Limit < Len(seq)
        <5>1. Len(rows) > 0 => DOMAIN rows # {}
          BY <1>10
        <5>2. QED
          BY <1>6, <1>7, <1>8, <1>10, <1>11, <5>1
      <4>4. QED
        BY <1>9, <4>2, <4>3
    <3>2. CASE store.more # "rows"
      <4>1. more' = more
        BY <1>2, <3>2
      <4>2. ~(Off + Limit < Len(rows) /\ Len(rows) <= Off + Limit)
        BY <1>7, <1>10
      <4>3. QED
        BY <2>1, <4>1, <4>2
    <3>3. QED
      BY <3>1, <3>2
  <2>4. ASSUME NEW i \in DOMAIN rows, rows[i] \in stayed
        PROVE  \/ listed[rows[i]] > 0 \/ Contains(page', rows[i])
               \/ more' # FALSE /\ (TellsPlace => i > Off + Limit)
    <3>1. i <= Off \/ Off < i
      BY <1>7, <1>10
    <3>2. QED
      BY <1>14, <2>1, <2>2, <2>3, <2>4, <3>1
  <2>5. ASSUME page' = <<>>, NEW k \in stayed PROVE listed[k] > 0
    <3>1. PICK i \in DOMAIN rows : rows[i] = k
      BY <1>10 DEF ToSet
    <3>2. ~Contains(page', rows[i])
      BY <2>5 DEF Contains
    <3>3. CASE i <= Off
      BY <2>1, <3>1, <3>3
    <3>4. CASE Off < i
      <4>1. PICK j \in DOMAIN seq : j = Off + 1
        <5>1. Off + 1 \in 1..Len(rows)
          BY <1>7, <1>10, <3>4
        <5>2. QED
          BY <1>10, <5>1
      <4>2. n < j /\ j <= n + Limit
        BY <1>7, <1>10, <1>11, <4>1
      <4>3. j - n \in DOMAIN page'
        BY <1>2, <1>9, <4>2
      <4>4. QED
        BY <2>5, <4>3
    <3>5. QED
      BY <1>7, <1>10, <3>3, <3>4
  <2>6. QED
    BY <2>1, <2>4, <2>5
<1>17. PlaceOnce'
  <2> SUFFICES ASSUME ~MayRepeat', NEW i \in DOMAIN rows, rows[i] \in stayed
               PROVE  /\ \/ listed[rows[i]] = 0
                         \/ listed[rows[i]] = 1 /\ (done \/ i <= Off)
                      /\ Contains(page', rows[i]) =>
                            /\ listed[rows[i]] = 0
                            /\ TellsPlace /\ store.from = "offset" => i <= Off + Limit
    BY <1>1, <1>3, <1>13 DEF PlaceOnce
  <2>1. \/ listed[rows[i]] = 0
        \/ listed[rows[i]] = 1 /\ i <= Off
    BY <1>1, <1>4 DEF ListInv, PlaceOnce
  <2>2. store.order = "none" => Off = 0
    BY <1>1, <1>12 DEF MayRepeat
  <2>3. Contains(page', rows[i]) => listed[rows[i]] = 0
    BY <1>7, <1>10, <1>15, <2>1, <2>2
  <2>4. Contains(page', rows[i]) /\ TellsPlace => i <= Off + Limit
    BY <1>15 DEF TellsPlace
  <2>5. QED
    BY <2>1, <2>3, <2>4
<1>18. QED
  BY <1>16, <1>17

\* ... and in a list by key.
LEMMA ReadByKey ==
    ASSUME ListInv, Read, ByKey
    PROVE  KeySeen' /\ KeyOnce'
<1>1. /\ store' = store /\ code' = code /\ rows' = rows /\ cursor' = cursor
      /\ done' = done /\ listed' = listed /\ stayed' = stayed /\ happened \subseteq happened'
      /\ store.from = "row" /\ cursor # Unset /\ ~Contains(rows, cursor) =>
            "restarted" \in happened'
      /\ ~done /\ page = Unset
  BY DEF Read, table
<1>2. /\ store.order = "key" /\ store.more = "rows"
      /\ store.from # "offset"
  BY StoreFacts DEF ListInv, ListType, ByKey
<1>3. page' = Page(rows) /\ more' = HasMore(rows)
  <2>1. PICK seq \in Found :
           page' = Page(seq) /\ more' = IF store.more = "rows" THEN HasMore(seq) ELSE more
    BY DEF Read
  <2>2. seq = rows
    BY <1>2, FoundFacts DEF ListInv
  <2>3. QED
    BY <1>2, <2>1, <2>2
<1>4. ByKey' <=> ByKey
  BY <1>1 DEF ByKey
<1>5. (MayMiss => MayMiss') /\ (MayRepeat => MayRepeat')
  BY <1>1, ShiftedStays DEF table
<1>6. CASE store.from = "code" /\ Mixed
  <2>1. MayMiss' /\ MayRepeat'
    BY <1>5, <1>6 DEF MayMiss, MayRepeat
  <2>2. QED
    BY <2>1 DEF KeySeen, KeyOnce
<1>7. CASE ~(store.from = "code" /\ Mixed)
  <2>1. PICK n \in 0..Len(rows) :
           /\ n = Skipped(rows)
           /\ \A i \in DOMAIN rows :
                 /\ i <= n => cursor # Unset /\ rows[i] <= cursor
                 /\ cursor # Unset /\ i > n =>
                       rows[i] > cursor \/ (store.from = "row" /\ ~Contains(rows, cursor))
    BY <1>7, SkippedByKey DEF ListInv
  <2>2. /\ rows \in Seq(Keys) /\ Len(rows) \in Nat /\ DOMAIN rows = 1..Len(rows) /\ n \in Nat
        /\ Limit \in Nat /\ Limit > 0
        /\ \A i \in DOMAIN rows : rows[i] \in Nat /\ listed[rows[i]] \in 0..2
        /\ stayed \subseteq ToSet(rows)
    <3>1. rows \in Seq(Keys) /\ Limit \in Nat /\ Limit > 0 /\ Keys \subseteq Nat
      BY ListingAssumption DEF ListInv, ListType
    <3>2. \A i \in DOMAIN rows : rows[i] \in Keys
      BY <3>1
    <3>3. \A i \in DOMAIN rows : listed[rows[i]] \in 0..2
      BY <3>2 DEF ListInv, ListType
    <3>4. stayed \subseteq ToSet(rows)
      BY DEF ListInv, ListType
    <3>5. Len(rows) \in Nat /\ DOMAIN rows = 1..Len(rows) /\ n \in Nat
      BY <3>1
    <3>6. QED
      BY <3>1, <3>2, <3>3, <3>4, <3>5
  <2>3. \A i, j \in DOMAIN rows : i < j => rows[i] < rows[j]
    BY <1>2 DEF ListInv, ListType, Ordered
  <2>4. /\ page' \in Seq(Keys) /\ DOMAIN page' = 1..Len(page') /\ page' # Unset
        /\ \A i \in DOMAIN page' :
              i \in 1..Limit /\ n + i \in DOMAIN rows /\ page'[i] = rows[n + i]
        /\ \A i \in DOMAIN rows : n < i /\ i <= n + Limit =>
              i - n \in DOMAIN page' /\ page'[i - n] = rows[i]
        /\ HasMore(rows) <=> n + Limit < Len(rows)
        /\ HasMore(rows) => Len(page') = Limit
    BY <1>3, <2>1, <2>2, PageFacts, UnsetFacts DEF ListInv
  <2>5. KeySeen'
    <3> SUFFICES ASSUME ~MayMiss'
                 PROVE  /\ cursor # Unset => \A k \in stayed : k <= cursor => listed[k] > 0
                        /\ \A k \in stayed :
                              \/ listed[k] > 0 \/ Contains(page', k)
                              \/ more' = TRUE /\ k > Last(page')
      BY <1>1, <1>4 DEF KeySeen
    <3>1. cursor # Unset => \A k \in stayed : k <= cursor => listed[k] > 0
      BY <1>5 DEF ListInv, KeySeen
    <3>2. ASSUME NEW k \in stayed
          PROVE  listed[k] > 0 \/ Contains(page', k) \/ (more' = TRUE /\ k > Last(page'))
      <4>1. PICK i \in DOMAIN rows : rows[i] = k
        BY <2>2 DEF ToSet
      <4>2. CASE i <= n
        BY <2>1, <3>1, <4>1, <4>2
      <4>3. CASE n < i /\ i <= n + Limit
        BY <2>4, <4>1, <4>3 DEF Contains
      <4>4. CASE n + Limit < i
        <5>1. HasMore(rows)
          <6>1. n + Limit < Len(rows)
            BY <2>2, <4>1, <4>4
          <6>2. QED
            BY <2>4, <6>1
        <5>2. more' = TRUE
          BY <1>3, <5>1, Zenon
        <5>3. Limit \in DOMAIN page' /\ Len(page') = Limit
          BY <2>2, <2>4, <5>1
        <5>4. Last(page') = rows[n + Limit] /\ n + Limit \in DOMAIN rows
          BY <2>4, <5>3 DEF Last
        <5>5. rows[n + Limit] < rows[i]
          BY <2>3, <4>4, <5>4
        <5>6. QED
          BY <2>2, <4>1, <5>2, <5>4, <5>5
      <4>5. i <= n \/ (n < i /\ i <= n + Limit) \/ n + Limit < i
        BY <2>2, <4>1
      <4>6. QED
        BY <4>2, <4>3, <4>4, <4>5
    <3>3. QED
      BY <3>1, <3>2
  <2>6. KeyOnce'
    <3> SUFFICES ASSUME ~MayRepeat'
                 PROVE  /\ \A k \in stayed :
                              \/ listed[k] = 0
                              \/ listed[k] = 1 /\ (done \/ (cursor # Unset /\ k <= cursor))
                        /\ \A i \in DOMAIN page' :
                              page'[i] <= Last(page') /\ (cursor # Unset => page'[i] > cursor)
      BY <1>1, <1>4 DEF KeyOnce
    <3>1. \A k \in stayed :
             \/ listed[k] = 0
             \/ listed[k] = 1 /\ (done \/ (cursor # Unset /\ k <= cursor))
      BY <1>5 DEF ListInv, KeyOnce
    <3>2. ~(store.from = "row" /\ cursor # Unset /\ ~Contains(rows, cursor))
      BY <1>1 DEF MayRepeat
    <3>3. ASSUME NEW i \in DOMAIN page'
          PROVE  page'[i] <= Last(page') /\ (cursor # Unset => page'[i] > cursor)
      <4>1. n + i \in DOMAIN rows /\ page'[i] = rows[n + i] /\ i \in Nat /\ i > 0
        BY <2>4, <3>3
      <4>2. cursor # Unset => page'[i] > cursor
        <5>1. n + i > n
          BY <2>2, <4>1
        <5>2. QED
          BY <2>1, <3>2, <4>1, <5>1
      <4>3. Len(page') \in DOMAIN page' /\ i <= Len(page')
        BY <2>4, <3>3
      <4>4. Last(page') = rows[n + Len(page')] /\ n + Len(page') \in DOMAIN rows
        BY <2>4, <4>3 DEF Last
      <4>5. n + i = n + Len(page') \/ n + i < n + Len(page')
        <5>1. Len(page') \in Nat
          BY <2>4
        <5>2. i = Len(page') \/ i < Len(page')
          BY <4>1, <4>3, <5>1
        <5>3. n \in Nat /\ i \in Nat
          BY <2>2, <4>1
        <5>4. QED
          BY <5>1, <5>2, <5>3
      <4>6. page'[i] <= Last(page')
        BY <2>2, <2>3, <4>1, <4>4, <4>5
      <4>7. QED
        BY <4>2, <4>6
    <3>4. QED
      BY <3>1, <3>3
  <2>7. QED
    BY <2>5, <2>6
<1>8. QED
  BY <1>6, <1>7

LEMMA ReadStep ==
    ASSUME ListInv, Read
    PROVE  ListInv'
<1>1. /\ store' = store /\ code' = code /\ rows' = rows /\ cursor' = cursor
      /\ done' = done /\ listed' = listed /\ stayed' = stayed
      /\ ~done /\ page = Unset
  BY DEF Read, table
<1>2. PICK seq \in Found :
         page' = Page(seq) /\ more' = IF store.more = "rows" THEN HasMore(seq) ELSE more
  BY DEF Read
<1>3. PICK n \in Nat : n = Skipped(seq)
  <2>1. CASE ByKey
    <3>1. seq = rows
      BY <2>1, FoundFacts, StoreFacts DEF ListInv, ListType, ByKey
    <3>2. Skipped(rows) \in Nat
      BY <2>1, SkippedNat DEF ListInv
    <3>3. QED
      BY <3>1, <3>2
  <2>2. CASE ~ByKey
    BY <2>2, FoundFacts, SkippedByPlace DEF ListInv
  <2>3. QED
    BY <2>1, <2>2
<1>4. /\ Page(seq) \in Seq(Keys)
      /\ HasMore(seq) => Len(Page(seq)) = Limit
  BY <1>3, FoundFacts, PageFacts DEF ListInv
<1>5. HasMore(seq) \in BOOLEAN
  BY DEF HasMore
<1>6. ListType'
  BY <1>1, <1>2, <1>4, <1>5 DEF ListInv, ListType, Ordered
<1>7. Shape'
  <2>1. (ByKey' <=> ByKey) /\ (ByKey' => cursor' \in Keys \cup {Unset}) /\ ~done'
    BY <1>1 DEF ByKey, ListInv, Shape
  <2>2. page' # Unset
    BY <1>2, <1>4, UnsetFacts
  <2>3. ASSUME store.more = "rows"
        PROVE  more' # Unset /\ (more' = TRUE => page' # <<>>)
    <3>1. more' = HasMore(seq)
      BY <1>2, <2>3
    <3>2. more' # Unset
      BY <1>5, <3>1, ListingAssumption
    <3>3. more' = TRUE => Len(page') = Limit
      BY <1>2, <1>4, <3>1
    <3>4. Limit # 0 /\ Len(<<>>) = 0
      BY ListingAssumption
    <3>5. QED
      BY <3>2, <3>3, <3>4
  <2>4. store.more = "before" => more' # Unset
    BY <1>2 DEF Read
  <2>5. QED
    BY <1>1, <2>1, <2>2, <2>3, <2>4 DEF Shape
<1>8. PlaceSeen' /\ PlaceOnce'
  <2>1. CASE ByKey
    BY <1>1, <2>1 DEF ByKey, PlaceSeen, PlaceOnce
  <2>2. QED
    BY <2>1, ReadByPlace
<1>9. KeySeen' /\ KeyOnce'
  <2>1. CASE ~ByKey
    BY <1>1, <2>1 DEF ByKey, KeySeen, KeyOnce
  <2>2. QED
    BY <2>1, ReadByKey
<1>10. QED
  BY <1>6, <1>7, <1>8, <1>9 DEF ListInv

\* What an answer does: the client has seen the page, and goes on with its cursor or is done.
LEMMA AnswerFacts ==
    ASSUME ListInv, Answer
    PROVE  /\ store' = store /\ code' = code /\ rows' = rows /\ stayed' = stayed
           /\ happened' = happened /\ page' = Unset /\ more' = Unset
           /\ ~done /\ page \in Seq(Keys) /\ more \in BOOLEAN
           /\ listed' \in [Keys -> 0..2]
           /\ \A k \in Keys :
                 /\ listed[k] > 0 \/ Contains(page, k) => listed'[k] > 0
                 /\ Contains(page, k) /\ listed[k] = 0 => listed'[k] = 1
                 /\ ~Contains(page, k) => listed'[k] = listed[k]
           /\ \/ /\ more = TRUE /\ ~Nothing /\ ~done'
                 /\ cursor' = NextCursor /\ cursor' \in Nat
                 /\ ByKey => page # <<>> /\ cursor' = Last(page) /\ cursor' \in Keys
              \/ /\ more = FALSE \/ Nothing
                 /\ done' = TRUE /\ cursor' = cursor
<1>1. /\ store' = store /\ code' = code /\ rows' = rows /\ stayed' = stayed
      /\ happened' = happened /\ page' = Unset /\ more' = Unset
      /\ page # Unset /\ more # Unset
      /\ listed' = [k \in Keys |-> IF Contains(page, k) THEN IF listed[k] = 0 THEN 1 ELSE 2
                                   ELSE listed[k]]
  BY DEF Answer, table
<1>2. ~done /\ page \in Seq(Keys) /\ more \in BOOLEAN /\ done \in BOOLEAN
  BY <1>1 DEF ListInv, ListType, Shape
<1>3. /\ listed' \in [Keys -> 0..2]
      /\ \A k \in Keys :
            /\ listed[k] > 0 \/ Contains(page, k) => listed'[k] > 0
            /\ Contains(page, k) /\ listed[k] = 0 => listed'[k] = 1
            /\ ~Contains(page, k) => listed'[k] = listed[k]
  <2>1. listed \in [Keys -> 0..2]
    BY DEF ListInv, ListType
  <2>2. QED
    BY <1>1, <2>1
<1>4. CASE more /\ ~Nothing
  <2>1. cursor' = NextCursor /\ ~done' /\ more = TRUE
    <3>1. more = TRUE
      BY <1>2, <1>4
    <3>2. cursor' = NextCursor /\ done' = done
      BY <1>4 DEF Answer
    <3>3. QED
      BY <1>2, <3>1, <3>2
  <2>2. Limit \in Nat /\ cursor \in Nat \cup {Unset} /\ Keys \subseteq Nat
    BY ListingAssumption DEF ListInv, ListType
  <2>3. CASE ByKey
    <3>1. page # <<>>
      BY <2>1, <2>3, StoreFacts DEF ListInv, ListType, Shape, ByKey
    <3>2. cursor' = Last(page)
      BY <2>1, <2>3 DEF NextCursor, ByKey
    <3>3. Last(page) \in Keys
      BY <1>2, <3>1 DEF Last
    <3>4. QED
      BY <1>1, <1>2, <1>3, <1>4, <2>1, <2>2, <3>1, <3>2, <3>3
  <2>4. CASE ~ByKey
    <3>1. store.from \in {"offset", "first", "second"}
      BY <2>4, StoreFacts DEF ListInv, ListType, ByKey
    <3>2. NextCursor \in Nat
      BY <2>2, <3>1 DEF NextCursor
    <3>3. QED
      BY <1>1, <1>2, <1>3, <1>4, <2>1, <2>4, <3>2
  <2>5. QED
    BY <2>3, <2>4
<1>5. CASE ~(more /\ ~Nothing)
  <2>1. done' = TRUE /\ cursor' = cursor
    BY <1>5 DEF Answer
  <2>2. more = FALSE \/ Nothing
    BY <1>2, <1>5
  <2>3. QED
    BY <1>1, <1>2, <1>3, <2>1, <2>2
<1>6. QED
  BY <1>4, <1>5

LEMMA AnswerStep ==
    ASSUME ListInv, Answer
    PROVE  ListInv'
<1> DEFINE Goes == more = TRUE /\ ~Nothing /\ ~done'
           Stops == (more = FALSE \/ Nothing) /\ done' = TRUE
<1>1. /\ store' = store /\ code' = code /\ rows' = rows /\ stayed' = stayed
      /\ happened' = happened /\ page' = Unset /\ more' = Unset
      /\ ~done /\ page \in Seq(Keys) /\ more \in BOOLEAN
      /\ listed' \in [Keys -> 0..2]
      /\ \A k \in Keys :
            /\ listed[k] > 0 \/ Contains(page, k) => listed'[k] > 0
            /\ Contains(page, k) /\ listed[k] = 0 => listed'[k] = 1
            /\ ~Contains(page, k) => listed'[k] = listed[k]
  BY AnswerFacts
<1>2. \/ /\ more = TRUE /\ ~Nothing /\ ~done'
         /\ cursor' = NextCursor /\ cursor' \in Nat
         /\ ByKey => page # <<>> /\ cursor' = Last(page) /\ cursor' \in Keys
      \/ /\ more = FALSE \/ Nothing
         /\ done' = TRUE /\ cursor' = cursor
  BY AnswerFacts
<1>3. /\ page # Unset /\ done' \in BOOLEAN
      /\ cursor # Unset => cursor' # Unset
      /\ (ByKey' <=> ByKey) /\ (TellsPlace' <=> TellsPlace)
  <2>1. done' \in BOOLEAN
    BY DEF Answer, ListInv, ListType
  <2>2. page # Unset /\ (cursor # Unset => cursor' # Unset)
    BY <1>1, <1>2, UnsetFacts
  <2>3. (ByKey' <=> ByKey) /\ (TellsPlace' <=> TellsPlace)
    BY <1>1 DEF ByKey, TellsPlace
  <2>4. QED
    BY <2>1, <2>2, <2>3
<1>4. (MayMiss => MayMiss') /\ (MayRepeat => MayRepeat')
  BY <1>1, <1>3, ShiftedStays DEF table
<1>5. /\ rows \in Seq(Keys) /\ \A i \in DOMAIN rows : rows[i] \in Keys /\ i \in Nat
      /\ stayed \subseteq ToSet(rows) /\ stayed \subseteq Keys
      /\ listed \in [Keys -> 0..2] /\ Limit \in Nat /\ Keys \subseteq Nat
  <2>1. rows \in Seq(Keys) /\ stayed \subseteq ToSet(rows)
    BY DEF ListInv, ListType
  <2>2. \A i \in DOMAIN rows : rows[i] \in Keys /\ i \in Nat
    BY <2>1
  <2>3. stayed \subseteq Keys
    BY <2>1, <2>2 DEF ToSet
  <2>4. QED
    BY <2>1, <2>2, <2>3, ListingAssumption DEF ListInv, ListType
<1>6. ListType'
  <2>1. cursor' \in Nat \cup {Unset}
    BY <1>2 DEF ListInv, ListType
  <2>2. QED
    BY <1>1, <1>3, <2>1 DEF ListInv, ListType, Ordered
<1>7. Shape'
  <2>1. ByKey' => cursor' \in Keys \cup {Unset}
    BY <1>2, <1>3 DEF ListInv, Shape
  <2>2. QED
    BY <1>1, <2>1, UnsetFacts DEF Shape
<1>8. CASE ByKey
  <2>1. PlaceSeen' /\ PlaceOnce'
    BY <1>3, <1>8 DEF PlaceSeen, PlaceOnce
  <2>2. more = TRUE => page # <<>>
    BY <1>8, StoreFacts DEF ListInv, ListType, Shape, ByKey
  <2>3. KeySeen'
    <3> SUFFICES ASSUME ~MayMiss, NEW k \in stayed
                 PROVE  /\ cursor' # Unset /\ k <= cursor' => listed'[k] > 0
                        /\ done' => listed'[k] > 0
      BY <1>1, <1>3, <1>4 DEF KeySeen
    <3>1. /\ cursor # Unset /\ k <= cursor => listed[k] > 0
          /\ listed[k] > 0 \/ Contains(page, k) \/ (more = TRUE /\ k > Last(page))
      BY <1>3, <1>8 DEF ListInv, KeySeen
    <3>2. k \in Keys /\ k \in Nat
      BY <1>5
    <3>3. CASE Goes
      <4>1. cursor' = Last(page) /\ cursor' \in Nat
        BY <1>2, <1>8, <3>3
      <4>2. ~(k > Last(page) /\ k <= Last(page))
        BY <3>2, <4>1
      <4>3. QED
        BY <1>1, <3>1, <3>2, <3>3, <4>1, <4>2
    <3>4. CASE Stops /\ cursor' = cursor
      <4>1. more = FALSE
        BY <1>1, <2>2, <3>4 DEF Nothing
      <4>2. QED
        BY <1>1, <3>1, <3>2, <4>1
    <3>5. QED
      BY <1>2, <3>3, <3>4
  <2>4. KeyOnce'
    <3> SUFFICES ASSUME ~MayRepeat, NEW k \in stayed
                 PROVE  \/ listed'[k] = 0
                        \/ listed'[k] = 1 /\ (done' \/ (cursor' # Unset /\ k <= cursor'))
      BY <1>1, <1>3, <1>4 DEF KeyOnce
    <3>1. /\ listed[k] = 0 \/ (listed[k] = 1 /\ cursor # Unset /\ k <= cursor)
          /\ \A i \in DOMAIN page :
                page[i] <= Last(page) /\ (cursor # Unset => page[i] > cursor)
      BY <1>1, <1>3, <1>8 DEF ListInv, KeyOnce
    <3>2. k \in Keys /\ k \in Nat /\ cursor \in Nat \cup {Unset}
      BY <1>5 DEF ListInv, ListType
    <3>3. DOMAIN page = 1..Len(page) /\ \A i \in DOMAIN page : page[i] \in Nat
      <4>1. page \in Seq(Keys) /\ Keys \subseteq Nat
        BY <1>1, <1>5
      <4>2. DOMAIN page = 1..Len(page) /\ \A i \in DOMAIN page : page[i] \in Keys
        BY <4>1
      <4>3. QED
        BY <4>1, <4>2
    <3>4. CASE Contains(page, k)
      <4>1. PICK i \in DOMAIN page : page[i] = k
        BY <3>3, <3>4 DEF Contains
      <4>2. listed[k] = 0
        BY <3>1, <3>2, <4>1
      <4>3. listed'[k] = 1
        BY <1>1, <3>2, <3>4, <4>2
      <4>4. QED
        BY <1>2, <1>8, <3>1, <4>1, <4>3, UnsetFacts
    <3>5. CASE ~Contains(page, k)
      <4>1. listed'[k] = listed[k]
        BY <1>1, <3>2, <3>5
      <4>2. CASE Goes
        <5>1. cursor' = Last(page) /\ cursor' \in Nat /\ cursor' # Unset /\ page # <<>>
          BY <1>2, <1>8, <4>2, UnsetFacts
        <5>2. 1 \in DOMAIN page
          BY <1>1, <5>1
        <5>3. cursor # Unset => cursor < Last(page)
          BY <3>1, <3>2, <3>3, <5>1, <5>2
        <5>4. QED
          BY <3>1, <3>2, <4>1, <5>1, <5>3
      <4>3. CASE Stops /\ cursor' = cursor
        BY <3>1, <4>1, <4>3
      <4>4. QED
        BY <1>2, <4>2, <4>3
    <3>6. QED
      BY <3>4, <3>5
  <2>5. QED
    BY <1>6, <1>7, <2>1, <2>3, <2>4 DEF ListInv
<1>9. CASE ~ByKey
  <2>1. KeySeen' /\ KeyOnce'
    BY <1>3, <1>9 DEF KeySeen, KeyOnce
  <2>2. /\ store.from \in {"offset", "first", "second"}
        /\ store.from # "offset" => store.order = "key" /\ store.more = "rows"
    BY <1>9, StoreFacts DEF ListInv, ListType, ByKey
  <2>3. Off \in Nat
    BY <2>2 DEF Off, ListInv, ListType
  <2>4. CASE Goes
    <3>1. cursor' \in Nat /\ cursor' # Unset
      BY <1>2, <2>4, UnsetFacts
    <3>2. /\ store.from = "offset" => Off' = Off + Limit
          /\ store.from = "first" => Off' = 0
          /\ store.from = "second" => Off' = 1 /\ Off \in {0, 1}
      <4>1. cursor' = NextCursor
        BY <1>2, <2>4
      <4>2. CASE store.from = "offset"
        BY <1>1, <1>5, <3>1, <4>1, <4>2 DEF NextCursor, Off
      <4>3. CASE store.from \in {"first", "second"}
        BY <1>1, <3>1, <4>3 DEF Off
      <4>4. QED
        BY <2>2, <4>2, <4>3
    <3>3. PlaceSeen'
      <4> SUFFICES ASSUME ~MayMiss', NEW i \in DOMAIN rows, rows[i] \in stayed, i <= Off'
                   PROVE  listed'[rows[i]] > 0
        BY <1>1, <1>3, <2>4, UnsetFacts DEF PlaceSeen
      <4>1. \/ listed[rows[i]] > 0 \/ Contains(page, rows[i])
            \/ TellsPlace => i > Off + Limit
        BY <1>3, <1>4, <1>9 DEF ListInv, PlaceSeen
      <4>2. store.order # "none"
        BY <1>1, <3>1 DEF MayMiss
      <4>3. store.from # "first"
        <5>1. i > 0
          BY <1>5
        <5>2. QED
          BY <1>5, <3>2, <5>1
      <4>4. TellsPlace /\ ~(i > Off + Limit)
        <5>1. TellsPlace
          BY <4>2, <4>3 DEF TellsPlace
        <5>2. Limit > 0
          BY ListingAssumption
        <5>3. QED
          BY <1>5, <2>2, <2>3, <3>2, <4>3, <5>1, <5>2
      <4>5. listed[rows[i]] > 0 \/ Contains(page, rows[i])
        BY <4>1, <4>4
      <4>6. QED
        BY <1>1, <1>5, <4>5
    <3>4. PlaceOnce'
      <4> SUFFICES ASSUME ~MayRepeat', NEW i \in DOMAIN rows, rows[i] \in stayed
                   PROVE  \/ listed'[rows[i]] = 0
                          \/ listed'[rows[i]] = 1 /\ i <= Off'
        BY <1>1, <1>3 DEF PlaceOnce
      <4>1. store.from = "offset" /\ TellsPlace
        BY <1>1, <2>2, <3>1 DEF MayRepeat, TellsPlace
      <4>2. Off' = Off + Limit
        BY <3>2, <4>1
      <4>3. /\ listed[rows[i]] = 0 \/ (listed[rows[i]] = 1 /\ i <= Off)
            /\ Contains(page, rows[i]) => listed[rows[i]] = 0 /\ i <= Off + Limit
        BY <1>1, <1>3, <1>4, <1>9, <4>1 DEF ListInv, PlaceOnce
      <4>4. CASE Contains(page, rows[i])
        BY <1>1, <1>5, <4>2, <4>3, <4>4
      <4>5. CASE ~Contains(page, rows[i])
        <5>1. listed'[rows[i]] = listed[rows[i]]
          BY <1>1, <1>5, <4>5
        <5>2. i <= Off => i <= Off'
          BY <1>5, <2>3, <4>2
        <5>3. QED
          BY <4>3, <5>1, <5>2
      <4>6. QED
        BY <4>4, <4>5
    <3>5. QED
      BY <1>6, <1>7, <2>1, <3>3, <3>4 DEF ListInv
  <2>5. CASE Stops /\ cursor' = cursor
    <3>1. Off' = Off
      BY <1>1, <2>5 DEF Off
    <3>2. PlaceSeen'
      <4> SUFFICES ASSUME ~MayMiss
                   PROVE  /\ \A i \in DOMAIN rows : rows[i] \in stayed /\ i <= Off =>
                                listed'[rows[i]] > 0
                          /\ \A k \in stayed : listed'[k] > 0
        BY <1>1, <1>3, <1>4, <3>1, UnsetFacts DEF PlaceSeen
      <4>1. ASSUME NEW k \in stayed PROVE listed'[k] > 0
        <5>1. PICK i \in DOMAIN rows : rows[i] = k
          BY <1>5 DEF ToSet
        <5>2. CASE more = FALSE
          <6>1. listed[k] > 0 \/ Contains(page, k)
            BY <1>3, <1>9, <5>1, <5>2 DEF ListInv, PlaceSeen
          <6>2. QED
            BY <1>1, <1>5, <6>1
        <5>3. CASE Nothing
          <6>1. listed[k] > 0
            BY <1>9, <5>3 DEF Nothing, ListInv, PlaceSeen
          <6>2. QED
            BY <1>1, <1>5, <6>1
        <5>4. QED
          BY <2>5, <5>2, <5>3
      <4>2. QED
        BY <4>1
    <3>3. PlaceOnce'
      <4> SUFFICES ASSUME ~MayRepeat, NEW i \in DOMAIN rows, rows[i] \in stayed
                   PROVE  listed'[rows[i]] = 0 \/ listed'[rows[i]] = 1
        BY <1>1, <1>3, <1>4, <2>5 DEF PlaceOnce
      <4>1. /\ listed[rows[i]] = 0 \/ listed[rows[i]] = 1
            /\ Contains(page, rows[i]) => listed[rows[i]] = 0
        BY <1>3, <1>9 DEF ListInv, PlaceOnce
      <4>2. QED
        BY <1>1, <1>5, <4>1
    <3>4. QED
      BY <1>6, <1>7, <2>1, <3>2, <3>3 DEF ListInv
  <2>6. QED
    BY <1>2, <2>4, <2>5
<1>10. QED
  BY <1>8, <1>9

\* What others do: the client keeps its answer.
LEMMA OthersFacts ==
    ASSUME ListInv, UNCHANGED <<table, answer>>, happened \subseteq happened'
    PROVE  /\ store' = store /\ code' = code /\ cursor' = cursor /\ page' = page /\ more' = more
           /\ done' = done /\ listed' = listed
           /\ Off' = Off /\ (TellsPlace' <=> TellsPlace) /\ (ByKey' <=> ByKey)
           /\ (MayMiss => MayMiss') /\ (MayRepeat => MayRepeat')
           /\ Shape'
<1>1. /\ store' = store /\ code' = code /\ cursor' = cursor /\ page' = page /\ more' = more
      /\ done' = done /\ listed' = listed
  BY DEF table, answer
<1>2. Off' = Off /\ (TellsPlace' <=> TellsPlace) /\ (ByKey' <=> ByKey)
  BY <1>1 DEF Off, TellsPlace, ByKey
<1>3. (MayMiss => MayMiss') /\ (MayRepeat => MayRepeat')
  BY <1>1, ShiftedStays
<1>4. Shape'
  BY <1>1, <1>2 DEF ListInv, Shape
<1>5. QED
  BY <1>1, <1>2, <1>3, <1>4

LEMMA InsertStep ==
    ASSUME ListInv, NEW k \in Keys, Insert(k)
    PROVE  ListInv'
<1>1. /\ ~done /\ ~Contains(rows, k) /\ rows' = InsertAt(rows, Place(k), k) /\ stayed' = stayed
      /\ happened \subseteq happened' /\ "inserted" \in happened'
      /\ more # Unset /\ page = Unset => "uncounted" \in happened'
      /\ UNCHANGED <<table, answer>>
  BY DEF Insert, Change
<1>2. /\ store' = store /\ code' = code /\ cursor' = cursor /\ page' = page /\ more' = more
      /\ done' = done /\ listed' = listed
      /\ Off' = Off /\ (TellsPlace' <=> TellsPlace) /\ (ByKey' <=> ByKey)
      /\ (MayMiss => MayMiss') /\ (MayRepeat => MayRepeat')
      /\ Shape'
  BY <1>1, OthersFacts
<1>3. /\ rows' \in Seq(Keys) /\ Distinct(rows') /\ Ordered(rows)'
      /\ ToSet(rows) \subseteq ToSet(rows')
      /\ \A i \in DOMAIN rows' : rows'[i] # k =>
            \E j \in DOMAIN rows :
               /\ rows[j] = rows'[i] /\ j <= i
               /\ store.order \in {"updated", "inserted"} => j = i
  BY <1>1, <1>2, InsertFacts DEF ListInv
<1>4. stayed \subseteq ToSet(rows) /\ k \notin stayed
  <2>1. stayed \subseteq ToSet(rows) /\ rows \in Seq(Keys)
    BY DEF ListInv, ListType
  <2>2. k \notin ToSet(rows)
    BY <1>1, <2>1 DEF ToSet, Contains
  <2>3. QED
    BY <2>1, <2>2
<1>5. ListType'
  <2>1. stayed' \subseteq ToSet(rows)'
    BY <1>1, <1>3, <1>4 DEF ToSet
  <2>2. Distinct(rows)'
    BY <1>3 DEF Distinct
  <2>3. QED
    BY <1>2, <1>3, <2>1, <2>2 DEF ListInv, ListType
<1>6. /\ Limit \in Nat /\ rows \in Seq(Keys) /\ DOMAIN rows \subseteq Nat /\ DOMAIN rows' \subseteq Nat
      /\ cursor \in Nat \cup {Unset} /\ (~ByKey => Off \in Nat)
      /\ \A i \in DOMAIN rows' : i > 0
  <2>1. ~ByKey => Off \in Nat
    BY SkippedByPlace DEF ListInv, ListType
  <2>2. rows \in Seq(Keys) /\ cursor \in Nat \cup {Unset}
    BY DEF ListInv, ListType
  <2>3. DOMAIN rows = 1..Len(rows) /\ DOMAIN rows' = 1..Len(rows')
    BY <1>3, <2>2
  <2>4. QED
    BY <2>1, <2>2, <2>3, ListingAssumption
<1>7. KeySeen' /\ KeyOnce'
  BY <1>1, <1>2 DEF ListInv, KeySeen, KeyOnce
<1>8. PlaceSeen'
  <2> SUFFICES ASSUME ~ByKey, ~MayMiss'
               PROVE  /\ \A i \in DOMAIN rows' : rows'[i] \in stayed /\ i <= Off =>
                            listed[rows'[i]] > 0
                      /\ page # Unset =>
                            \A i \in DOMAIN rows' : rows'[i] \in stayed =>
                               \/ listed[rows'[i]] > 0 \/ Contains(page, rows'[i])
                               \/ more # FALSE /\ (TellsPlace => i > Off + Limit)
                      /\ more = FALSE /\ page = Unset => Len(rows') <= Off + Limit
                      /\ page = <<>> \/ done => \A m \in stayed : listed[m] > 0
    BY <1>1, <1>2 DEF PlaceSeen
  <2>1. /\ \A i \in DOMAIN rows : rows[i] \in stayed /\ i <= Off => listed[rows[i]] > 0
        /\ page # Unset =>
              \A i \in DOMAIN rows : rows[i] \in stayed =>
                 \/ listed[rows[i]] > 0 \/ Contains(page, rows[i])
                 \/ more # FALSE /\ (TellsPlace => i > Off + Limit)
        /\ page = <<>> \/ done => \A m \in stayed : listed[m] > 0
    BY <1>2 DEF ListInv, PlaceSeen
  <2>2. ~(more = FALSE /\ page = Unset)
    <3>1. CASE store.from = "offset"
      BY <1>1, <1>2, <3>1, UnsetFacts DEF MayMiss
    <3>2. CASE store.from # "offset"
      BY <3>2, StoreFacts, UnsetFacts DEF ListInv, ListType, Shape
    <3>3. QED
      BY <3>1, <3>2
  <2>3. ASSUME NEW i \in DOMAIN rows', rows'[i] \in stayed
        PROVE  /\ i <= Off => listed[rows'[i]] > 0
               /\ page # Unset =>
                     \/ listed[rows'[i]] > 0 \/ Contains(page, rows'[i])
                     \/ more # FALSE /\ (TellsPlace => i > Off + Limit)
    <3>1. PICK j \in DOMAIN rows : rows[j] = rows'[i] /\ j <= i
      BY <1>3, <1>4, <2>3
    <3>2. i <= Off => j <= Off
      BY <1>6, <3>1
    <3>3. j > Off + Limit => i > Off + Limit
      BY <1>6, <3>1
    <3>4. QED
      BY <2>1, <2>3, <3>1, <3>2, <3>3
  <2>4. QED
    BY <2>1, <2>2, <2>3
<1>9. PlaceOnce'
  <2> SUFFICES ASSUME ~ByKey, ~MayRepeat', NEW i \in DOMAIN rows', rows'[i] \in stayed
               PROVE  /\ \/ listed[rows'[i]] = 0
                         \/ listed[rows'[i]] = 1 /\ i <= Off
                      /\ page # Unset /\ Contains(page, rows'[i]) =>
                            /\ listed[rows'[i]] = 0
                            /\ TellsPlace /\ store.from = "offset" => i <= Off + Limit
    BY <1>1, <1>2 DEF PlaceOnce
  <2>1. PICK j \in DOMAIN rows :
           /\ rows[j] = rows'[i] /\ j <= i
           /\ store.order \in {"updated", "inserted"} => j = i
    BY <1>3, <1>4
  <2>2. /\ \/ listed[rows[j]] = 0
           \/ listed[rows[j]] = 1 /\ j <= Off
        /\ page # Unset /\ Contains(page, rows[j]) =>
              /\ listed[rows[j]] = 0
              /\ TellsPlace /\ store.from = "offset" => j <= Off + Limit
    BY <1>1, <1>2, <2>1 DEF ListInv, PlaceOnce
  <2>3. CASE store.order \in {"updated", "inserted"}
    BY <2>1, <2>2, <2>3
  <2>4. CASE store.order \notin {"updated", "inserted"}
    <3>1. cursor = Unset /\ ~(TellsPlace /\ store.from = "offset")
      BY <1>1, <1>2, <2>4, StoreFacts DEF ListInv, ListType, ByKey, MayRepeat, TellsPlace
    <3>2. Off = 0
      BY <3>1 DEF Off
    <3>3. ~(j <= Off)
      <4>1. j \in Nat /\ j > 0
        <5>1. DOMAIN rows = 1..Len(rows)
          BY <1>6
        <5>2. QED
          BY <5>1
      <4>2. QED
        BY <3>2, <4>1
    <3>4. QED
      BY <2>1, <2>2, <3>1, <3>3
  <2>5. QED
    BY <2>3, <2>4
<1>10. QED
  BY <1>2, <1>5, <1>7, <1>8, <1>9 DEF ListInv

LEMMA UpdateStep ==
    ASSUME ListInv, NEW i \in DOMAIN rows, Update(i)
    PROVE  ListInv'
<1>1. /\ store.order = "updated" /\ rows' = Append(RemoveAt(rows, i), rows[i]) /\ stayed' = stayed
      /\ happened \subseteq happened' /\ "updated" \in happened'
      /\ UNCHANGED <<table, answer>>
  BY DEF Update
<1>2. /\ store' = store /\ code' = code /\ cursor' = cursor /\ page' = page /\ more' = more
      /\ done' = done /\ listed' = listed /\ (ByKey' <=> ByKey) /\ Shape'
  BY <1>1, OthersFacts
<1>3. rows' \in Seq(Keys) /\ Distinct(rows') /\ ToSet(rows) \subseteq ToSet(rows')
  BY <1>1, UpdateFacts DEF ListInv
<1>4. ListType'
  <2>1. stayed' \subseteq ToSet(rows)'
    BY <1>1, <1>3 DEF ListInv, ListType, ToSet
  <2>2. Distinct(rows)' /\ Ordered(rows)'
    BY <1>1, <1>2, <1>3 DEF Distinct, Ordered
  <2>3. QED
    BY <1>2, <1>3, <2>1, <2>2 DEF ListInv, ListType
<1>5. ~ByKey' /\ MayMiss' /\ MayRepeat'
  BY <1>1, <1>2, StoreFacts DEF ListInv, ListType, ByKey, MayMiss, MayRepeat
<1>6. QED
  BY <1>2, <1>4, <1>5 DEF ListInv, PlaceSeen, KeySeen, PlaceOnce, KeyOnce

LEMMA DeleteStep ==
    ASSUME ListInv, NEW d \in DOMAIN rows, Delete(d)
    PROVE  ListInv'
<1>1. /\ ~done /\ rows' = RemoveAt(rows, d) /\ stayed' = stayed \ {rows[d]}
      /\ happened \subseteq happened' /\ "deleted" \in happened'
      /\ UNCHANGED <<table, answer>>
  BY DEF Delete, Change
<1>2. /\ store' = store /\ code' = code /\ cursor' = cursor /\ page' = page /\ more' = more
      /\ done' = done /\ listed' = listed
      /\ Off' = Off /\ (TellsPlace' <=> TellsPlace) /\ (ByKey' <=> ByKey)
      /\ (MayMiss => MayMiss') /\ (MayRepeat => MayRepeat')
      /\ Shape'
  BY <1>1, OthersFacts
<1>3. /\ rows' \in Seq(Keys) /\ Distinct(rows') /\ Ordered(rows')
      /\ ToSet(rows) \ {rows[d]} \subseteq ToSet(rows')
      /\ \A i \in DOMAIN rows' :
            rows'[i] # rows[d] /\ \E j \in DOMAIN rows : rows[j] = rows'[i] /\ i <= j
  BY <1>1, DeleteFacts DEF ListInv
<1>4. stayed' \subseteq stayed
  BY <1>1
<1>5. ListType'
  <2>1. stayed' \subseteq ToSet(rows)'
    BY <1>1, <1>3 DEF ListInv, ListType, ToSet
  <2>2. Distinct(rows)' /\ Ordered(rows)'
    BY <1>2, <1>3 DEF Distinct, Ordered
  <2>3. QED
    BY <1>2, <1>3, <2>1, <2>2 DEF ListInv, ListType
<1>6. /\ Limit \in Nat /\ rows \in Seq(Keys) /\ DOMAIN rows \subseteq Nat /\ DOMAIN rows' \subseteq Nat
      /\ (~ByKey => Off \in Nat)
  <2>1. ~ByKey => Off \in Nat
    BY SkippedByPlace DEF ListInv, ListType
  <2>2. rows \in Seq(Keys)
    BY DEF ListInv, ListType
  <2>3. DOMAIN rows = 1..Len(rows) /\ DOMAIN rows' = 1..Len(rows')
    BY <1>3, <2>2
  <2>4. QED
    BY <2>1, <2>2, <2>3, ListingAssumption
<1>7. KeySeen' /\ KeyOnce'
  BY <1>1, <1>2, <1>4 DEF ListInv, KeySeen, KeyOnce
<1>8. PlaceSeen'
  <2> SUFFICES ASSUME ~ByKey, ~MayMiss'
               PROVE  PlaceSeen'
    BY <1>2 DEF PlaceSeen
  <2>1. store.from = "first"
    BY <1>1, <1>2, StoreFacts DEF ListInv, ListType, ByKey, MayMiss
  <2>2. Off = 0 /\ ~TellsPlace
    BY <2>1 DEF Off, TellsPlace
  <2>3. ~(more = FALSE /\ page = Unset)
    BY <2>1, StoreFacts, UnsetFacts DEF ListInv, ListType, Shape
  <2>4. \A i \in DOMAIN rows' : ~(i <= Off)
    <3>1. DOMAIN rows' = 1..Len(rows')
      BY <1>3
    <3>2. QED
      BY <2>2, <3>1
  <2>5. /\ page # Unset =>
              \A i \in DOMAIN rows : rows[i] \in stayed =>
                 listed[rows[i]] > 0 \/ Contains(page, rows[i]) \/ more # FALSE
        /\ page = <<>> \/ done => \A k \in stayed : listed[k] > 0
    BY <1>2 DEF ListInv, PlaceSeen
  <2>6. page # Unset =>
           \A i \in DOMAIN rows' : rows'[i] \in stayed' =>
              listed[rows'[i]] > 0 \/ Contains(page, rows'[i]) \/ more # FALSE
    BY <1>3, <1>4, <2>5
  <2>7. QED
    BY <1>2, <1>4, <2>2, <2>3, <2>4, <2>5, <2>6 DEF PlaceSeen
<1>9. PlaceOnce'
  <2> SUFFICES ASSUME ~ByKey, ~MayRepeat', NEW i \in DOMAIN rows', rows'[i] \in stayed'
               PROVE  /\ \/ listed[rows'[i]] = 0
                         \/ listed[rows'[i]] = 1 /\ i <= Off
                      /\ page # Unset /\ Contains(page, rows'[i]) =>
                            /\ listed[rows'[i]] = 0
                            /\ TellsPlace /\ store.from = "offset" => i <= Off + Limit
    BY <1>1, <1>2 DEF PlaceOnce
  <2>1. PICK j \in DOMAIN rows : rows[j] = rows'[i] /\ i <= j
    BY <1>3
  <2>2. /\ \/ listed[rows[j]] = 0
           \/ listed[rows[j]] = 1 /\ j <= Off
        /\ page # Unset /\ Contains(page, rows[j]) =>
              /\ listed[rows[j]] = 0
              /\ TellsPlace /\ store.from = "offset" => j <= Off + Limit
    BY <1>1, <1>2, <1>4, <2>1 DEF ListInv, PlaceOnce
  <2>3. (j <= Off => i <= Off) /\ (j <= Off + Limit => i <= Off + Limit)
    BY <1>6, <2>1
  <2>4. QED
    BY <2>1, <2>2, <2>3
<1>10. QED
  BY <1>2, <1>5, <1>7, <1>8, <1>9 DEF ListInv

LEMMA InitList == ListInit => ListInv
<1> SUFFICES ASSUME ListInit PROVE ListInv
  OBVIOUS
<1>1. /\ store \in Stores /\ code \in Codes
      /\ cursor = Unset /\ page = Unset /\ more = Unset /\ done = FALSE
      /\ listed = [k \in Keys |-> 0]
      /\ stayed = ToSet(rows)
  BY DEF ListInit
<1>2. PICK S \in SUBSET Keys : rows \in SetToSeqs(S) /\ Ordered(rows)
  BY DEF ListInit
<1>3. Cardinality(S) \in Nat
  <2>1. IsFiniteSet(S)
    BY FS_Subset, ListingAssumption
  <2>2. QED
    BY <2>1, FS_CardinalityType
<1>4. /\ rows \in [1..Cardinality(S) -> S]
      /\ \A i, j \in 1..Cardinality(S) : i # j => rows[i] # rows[j]
  BY <1>2 DEF SetToSeqs
<1>5. rows \in Seq(Keys) /\ Distinct(rows) /\ \A i \in DOMAIN rows : i \in Nat /\ i > 0
  BY <1>3, <1>4 DEF Distinct
<1>6. ListType
  <2>1. code \in [Keys -> Nat]
    BY <1>1, ListingAssumption
  <2>2. listed \in [Keys -> 0..2] /\ stayed \subseteq ToSet(rows)
    BY <1>1
  <2>3. QED
    BY <1>1, <1>2, <1>5, <2>1, <2>2 DEF ListType
<1>7. Shape
  BY <1>1, UnsetFacts DEF Shape
<1>8. PlaceSeen
  <2>1. Off = 0
    BY <1>1 DEF Off
  <2>2. \A i \in DOMAIN rows : ~(i <= Off)
    BY <1>5, <2>1
  <2>3. page # <<>> /\ ~done /\ page = Unset /\ more # FALSE
    BY <1>1, UnsetFacts
  <2>4. QED
    BY <2>2, <2>3 DEF PlaceSeen
<1>9. PlaceOnce
  <2>1. \A i \in DOMAIN rows : listed[rows[i]] = 0
    BY <1>1, <1>5
  <2>2. QED
    BY <1>1, <2>1 DEF PlaceOnce
<1>10. KeySeen /\ KeyOnce
  <2>1. stayed \subseteq Keys
    BY <1>1, <1>5 DEF ToSet
  <2>2. \A k \in stayed : listed[k] = 0
    BY <1>1, <2>1
  <2>3. QED
    BY <1>1, <2>2 DEF KeySeen, KeyOnce
<1>11. QED
  BY <1>6, <1>7, <1>8, <1>9, <1>10 DEF ListInv

LEMMA ListInvariant == ListSpec => []ListInv
<1>1. ListInv /\ [ListNext]_listVars => ListInv'
  <2> SUFFICES ASSUME ListInv, [ListNext]_listVars PROVE ListInv'
    OBVIOUS
  <2>1. CASE Count
    BY <2>1, CountStep
  <2>2. CASE Read
    BY <2>2, ReadStep
  <2>3. CASE Answer
    BY <2>3, AnswerStep
  <2>4. ASSUME NEW k \in Keys, Insert(k) PROVE ListInv'
    BY <2>4, InsertStep
  <2>5. ASSUME NEW i \in DOMAIN rows, Update(i) PROVE ListInv'
    BY <2>5, UpdateStep
  <2>6. ASSUME NEW i \in DOMAIN rows, Delete(i) PROVE ListInv'
    BY <2>6, DeleteStep
  <2>7. CASE UNCHANGED listVars
    <3>1. UNCHANGED <<store, code, rows, cursor, page, more, done, listed, stayed, happened>>
      BY <2>7 DEF listVars, table, answer
    <3>2. ListType'
      BY <3>1 DEF ListInv, ListType, Distinct, Ordered, ToSet
    <3>3. /\ Off' = Off /\ (TellsPlace' <=> TellsPlace) /\ (ByKey' <=> ByKey)
          /\ (MayMiss' <=> MayMiss) /\ (MayRepeat' <=> MayRepeat)
      BY <3>1 DEF Off, TellsPlace, ByKey, MayMiss, MayRepeat, Mixed
    <3>4. Shape' /\ PlaceSeen' /\ KeySeen' /\ PlaceOnce' /\ KeyOnce'
      BY <3>1, <3>3 DEF ListInv, Shape, PlaceSeen, KeySeen, PlaceOnce, KeyOnce
    <3>5. QED
      BY <3>2, <3>4 DEF ListInv
  <2>8. QED
    BY <2>1, <2>2, <2>3, <2>4, <2>5, <2>6, <2>7 DEF ListNext, Client, Others
<1>2. QED
  BY InitList, <1>1, PTL DEF ListSpec

\* The variables of the listing keep their types: its rows are keys, each once, in the order
\* of the list, and the rows that stayed are among them (insert, update and delete of the
\* stores, and what a client remembers).
THEOREM ListTypeCorrect == ListSpec => []ListType
<1>1. ListInv => ListType
  BY DEF ListInv
<1>2. QED
  BY ListInvariant, <1>1, PTL

\* In every list, of any size and with pages of any size, a row that is there all the time
\* is seen and seen once by the client that goes through the pages, but for what MayMiss and
\* MayRepeat name (applyListOptions of the stores and the cursors of their answers).
THEOREM ListSeenOnce == ListSpec => []SeenOnce
<1>1. ListInv => SeenOnce
  <2> SUFFICES ASSUME ListInv, NEW k \in stayed
               PROVE  (done => listed[k] > 0 \/ MayMiss) /\ (listed[k] < 2 \/ MayRepeat)
    BY DEF SeenOnce
  <2>1. PICK i \in DOMAIN rows : rows[i] = k
    BY DEF ListInv, ListType, ToSet
  <2>2. done => listed[k] > 0 \/ MayMiss
    BY <2>1 DEF ListInv, PlaceSeen, KeySeen
  <2>3. listed[k] \in {0, 1} \/ MayRepeat
    BY <2>1 DEF ListInv, PlaceOnce, KeyOnce
  <2>4. QED
    BY <2>2, <2>3
<1>2. QED
  BY ListInvariant, <1>1, PTL
===============================================================================
