------------------------------- MODULE Payments -------------------------------
(***************************************************************************)
(* From a token transfer on the chain to credits of a user: the listener   *)
(* (payment-listener/src/payment_listener.ts) scans confirmed blocks and   *)
(* enqueues the transfers to known payment addresses; the processors       *)
(* (payment_processsor.ts) credit them once each, record them in the       *)
(* transaction history, and announce them for reconciliation.              *)
(*                                                                         *)
(* Every step is the code between two awaits.  The queue delivers at least *)
(* once and in any order; the handling of a lost broker connection is left *)
(* to the queue.  A fault is a call that fails or a process that dies.     *)
(***************************************************************************)
EXTENDS Integers, FiniteSets, FiniteSetsExt

CONSTANTS
    Addresses,        \* accounts on the chain
    Users,            \* those that are the payment address of a user
    Payments,         \* the Transfer logs of payment tokens, numbered in chain order
    Log,              \* payment -> [block, payee, raw, scale, chain]
    Handlers,         \* messages handled at the same time, by all processors
    DefaultStart,     \* defaultStartBlock
    BLOCK_BATCH_SIZE,
    CREDITS_PER_USDC,
    Confirmation,     \* blocks on top of a block before it is scanned
    MaxBalance,       \* largest value of the integer column unifiedCredits
    MaxTip,           \* bound: blocks of the chain
    MaxFaults,        \* bound: failed calls and crashes
    None              \* no payment

ASSUME PaymentsAssumption ==
    /\ Payments \subseteq Nat /\ None \notin Payments /\ Users \subseteq Addresses
    /\ Log \in [Payments -> [block : Nat, payee : Addresses, raw : Nat,
                             scale : Nat \ {0}, chain : Nat \ {0}]]
    /\ DefaultStart \in Nat /\ BLOCK_BATCH_SIZE \in Nat \ {0}
    /\ CREDITS_PER_USDC \in Nat /\ Confirmation \in Nat /\ MaxBalance \in Nat
    /\ MaxTip \in Nat /\ MaxFaults \in Nat

VARIABLES
    tip,        \* the current block of the chain
    start,      \* the listener's startBlock, in memory
    saved,      \* the block in the key-value store
    lpc,        \* where the listener's loop stands
    to,         \* toBlock of the scan
    scan,       \* number of the scan, to tell its tasks from those of failed ones
    tasks,      \* handlePaymentRecipient calls: the logs each has still to enqueue
    queue,      \* payment -> messages ready in the payment queue
    pc, msg,    \* handler -> where it stands, and its message
    balance,    \* user -> unifiedCredits
    ledger,     \* transaction history: pairs of chain id and payment (the key)
    credited,   \* history: payment -> times it was added to the balance
    announced,  \* history: payments enqueued for reconciliation
    gone,       \* history: kind of window -> payments a fault hit in it
    faults      \* bound used up

chain    == <<tip>>
listener == <<start, saved, lpc, to, scan, tasks>>
handlers == <<pc, msg>>
books    == <<balance, ledger, credited>>
vars == <<chain, listener, queue, handlers, books, announced, gone, faults>>

Pcs == {"idle", "guard", "credit", "record", "ack", "drop", "announce", "nack"}

Windows == {"dropped", "torn", "raced", "unannounced"}

\* parsePaymentAmountToCreditsOrThrow; it throws when this is 0.
Credits(p) == (Log[p].raw * CREDITS_PER_USDC) \div Log[p].scale

\* The transfers to users; others are not for this system.
Payable == {p \in Payments : Log[p].payee \in Users}

Least(S) == CHOOSE p \in S : \A q \in S : p <= q

Fault == faults < MaxFaults /\ faults' = faults + 1

Hit(window, p) == gone' = [gone EXCEPT ![window] = @ \cup {p}]
-------------------------------------------------------------------------------
Init ==
    /\ tip = DefaultStart
    /\ start = DefaultStart /\ saved = DefaultStart
    /\ lpc = "scan" /\ to = DefaultStart /\ scan = 0 /\ tasks = {}
    /\ queue = [p \in Payments |-> 0]
    /\ pc = [h \in Handlers |-> "idle"]
    /\ msg = [h \in Handlers |-> None]
    /\ balance = [u \in Users |-> 0]
    /\ ledger = {}
    /\ credited = [p \in Payments |-> 0]
    /\ announced = {}
    /\ gone = [k \in Windows |-> {}]
    /\ faults = 0

\* The chain grows.
NewBlock ==
    /\ tip < MaxTip
    /\ tip' = tip + 1
    /\ UNCHANGED <<listener, queue, handlers, books, announced, gone, faults>>
-------------------------------------------------------------------------------
\* The logs of the range that go to the user, one task for each user paid in it.
TasksFor(from, last) ==
    {[scan |-> scan, rest |-> {p \in Payable : Log[p].payee = u
                                               /\ Log[p].block \in from..last}] :
        u \in {Log[p].payee : p \in {q \in Payable : Log[q].block \in from..last}}}

\* One turn of the loop: the confirmed range is read and its recipients are looked up.
\* (A call that fails here, or a tip too low, waits and changes nothing.)
Scan ==
    /\ lpc = "scan"
    /\ start <= tip - Confirmation
    /\ LET last == Min({start + BLOCK_BATCH_SIZE - 1, tip - Confirmation})
       IN /\ to' = last
          /\ tasks' = tasks \cup TasksFor(start, last)
    /\ lpc' = "publish"
    /\ UNCHANGED <<chain, start, saved, scan, queue, handlers, books, announced, gone,
                   faults>>

\* The task with the message it has just sent taken off.
Published(t) ==
    (tasks \ {t}) \cup (IF t.rest = {Least(t.rest)} THEN {}
                        ELSE {[t EXCEPT !.rest = @ \ {Least(t.rest)}]})

\* A task enqueues its next log.
Publish(t) ==
    /\ t \in tasks
    /\ queue' = [queue EXCEPT ![Least(t.rest)] = @ + 1]
    /\ tasks' = Published(t)
    /\ UNCHANGED <<chain, start, saved, lpc, to, scan, handlers, books, announced, gone,
                   faults>>

\* ... on a channel that confirms nothing: the connection goes down under it and the
\* message with it.
PublishDropped(t) ==
    /\ t \in tasks
    /\ Fault
    /\ Hit("dropped", Least(t.rest))
    /\ tasks' = Published(t)
    /\ UNCHANGED <<chain, start, saved, lpc, to, scan, queue, handlers, books, announced>>

\* Mutant of PublishThrows: the error of a task is caught in it.
PublishThrowsIntoTheVoid(t) ==
    /\ t \in tasks
    /\ Fault
    /\ tasks' = tasks \ {t}
    /\ UNCHANGED <<chain, start, saved, lpc, to, scan, queue, handlers, books, announced,
                   gone>>

\* ... or enqueue throws: the rest of the task is given up, and its scan with it,
\* unless it had failed already.  The other tasks go on.
PublishThrows(t) ==
    /\ t \in tasks
    /\ Fault
    /\ tasks' = tasks \ {t}
    /\ IF t.scan = scan
       THEN lpc' = "scan" /\ scan' = scan + 1
       ELSE UNCHANGED <<lpc, scan>>
    /\ UNCHANGED <<chain, start, saved, to, queue, handlers, books, announced, gone>>

\* All tasks of the scan are done: setLastProcessedBlock, first in memory ...
Advance ==
    /\ lpc = "publish"
    /\ \A t \in tasks : t.scan # scan
    /\ start' = to + 1
    /\ lpc' = "save"
    /\ scan' = scan + 1
    /\ UNCHANGED <<chain, saved, to, tasks, queue, handlers, books, announced, gone, faults>>

\* ... then in the store, ...
Save ==
    /\ lpc = "save"
    /\ saved' = start
    /\ lpc' = "scan"
    /\ UNCHANGED <<chain, start, to, scan, tasks, queue, handlers, books, announced, gone,
                   faults>>

\* ... which may fail: the loop goes on from the block in memory.
SaveThrows ==
    /\ lpc = "save"
    /\ Fault
    /\ lpc' = "scan"
    /\ UNCHANGED <<chain, start, saved, to, scan, tasks, queue, handlers, books, announced,
                   gone>>

\* The listener dies and starts again from the block in the store.
ListenerCrash ==
    /\ Fault
    /\ start' = saved
    /\ lpc' = "scan" /\ to' = saved
    /\ scan' = scan + 1 /\ tasks' = {}
    /\ UNCHANGED <<chain, saved, queue, handlers, books, announced, gone>>
-------------------------------------------------------------------------------
GoTo(h, where) == pc' = [pc EXCEPT ![h] = where]

Return(h) == GoTo(h, "idle") /\ msg' = [msg EXCEPT ![h] = None]

\* A message is delivered; an amount of no credit throws.
Deliver(h, p) ==
    /\ pc[h] = "idle"
    /\ queue[p] > 0
    /\ queue' = [queue EXCEPT ![p] = @ - 1]
    /\ msg' = [msg EXCEPT ![h] = p]
    /\ GoTo(h, IF Credits(p) = 0 THEN "nack" ELSE "guard")
    /\ UNCHANGED <<chain, listener, books, announced, gone, faults>>

\* Another handler has passed the guard with the message of h and not recorded it.
Racing(h) == \E g \in Handlers \ {h} : msg[g] = msg[h] /\ pc[g] \in {"credit", "record"}

\* Mutant of Guard: nothing is looked up.
GuardOpen(h) ==
    /\ pc[h] = "guard"
    /\ GoTo(h, "credit")
    /\ IF Racing(h) THEN Hit("raced", msg[h]) ELSE UNCHANGED gone
    /\ UNCHANGED <<chain, listener, queue, msg, books, announced, faults>>

\* The idempotency guard looks the payment up in the history, under chain 1.
Guard(h) ==
    /\ pc[h] = "guard"
    /\ IF <<1, msg[h]>> \in ledger
       THEN GoTo(h, "drop") /\ UNCHANGED gone
       ELSE /\ GoTo(h, "credit")
            /\ IF Racing(h) THEN Hit("raced", msg[h]) ELSE UNCHANGED gone
    /\ UNCHANGED <<chain, listener, queue, msg, books, announced, faults>>

\* _increaseCredits: the column overflows and the statement fails, or the credits are
\* added.
Credit(h) ==
    /\ pc[h] = "credit"
    /\ LET p == msg[h]
           u == Log[p].payee
       IN IF balance[u] > MaxBalance - Credits(p)
          THEN GoTo(h, "nack") /\ UNCHANGED books
          ELSE /\ balance' = [balance EXCEPT ![u] = @ + Credits(p)]
               /\ credited' = [credited EXCEPT ![p] = @ + 1]
               /\ GoTo(h, "record")
               /\ UNCHANGED ledger
    /\ UNCHANGED <<chain, listener, queue, msg, announced, gone, faults>>

\* The history is written, under the chain of the token; a key it has is kept.
Record(h) ==
    /\ pc[h] = "record"
    /\ ledger' = ledger \cup {<<Log[msg[h]].chain, msg[h]>>}
    /\ GoTo(h, "ack")
    /\ UNCHANGED <<chain, listener, queue, msg, balance, credited, announced, gone, faults>>

\* The message is acked, and the handler goes on to announce it ...
Ack(h) ==
    /\ pc[h] = "ack"
    /\ GoTo(h, "announce")
    /\ UNCHANGED <<chain, listener, queue, msg, books, announced, gone, faults>>

\* ... unless it was credited before.
AckDuplicate(h) ==
    /\ pc[h] = "drop"
    /\ Return(h)
    /\ UNCHANGED <<chain, listener, queue, books, announced, gone, faults>>

\* The payment goes to the reconciliation queue.
Announce(h) ==
    /\ pc[h] = "announce"
    /\ announced' = announced \cup {msg[h]}
    /\ Return(h)
    /\ UNCHANGED <<chain, listener, queue, books, gone, faults>>

\* Mutant of Nack: a message that failed is dropped.
NackDrops(h) ==
    /\ pc[h] = "nack"
    /\ Return(h)
    /\ UNCHANGED <<chain, listener, queue, books, announced, gone, faults>>

\* The catch: the message is requeued.
Nack(h) ==
    /\ pc[h] = "nack"
    /\ queue' = [queue EXCEPT ![msg[h]] = @ + 1]
    /\ Return(h)
    /\ UNCHANGED <<chain, listener, books, announced, gone, faults>>

\* What an error or a crash of h leaves open now: the balance without its entry in the
\* history, or (when the guard will refuse the message) no announcement.
Interrupted(h) ==
    LET p == msg[h]
    IN CASE pc[h] = "record"   -> Hit("torn", p)
         [] pc[h] = "announce" -> Hit("unannounced", p)
         [] pc[h] = "ack"      -> Hit("unannounced", p)
         [] OTHER -> UNCHANGED gone

\* A statement of h fails: on to the catch, whose nack does nothing once the message
\* is acked.
CallThrows(h) ==
    /\ pc[h] \in {"guard", "credit", "record", "announce"}
    /\ Fault
    /\ Interrupted(h)
    /\ IF pc[h] = "announce" THEN Return(h) ELSE GoTo(h, "nack") /\ UNCHANGED msg
    /\ UNCHANGED <<chain, listener, queue, books, announced>>

\* The process of h dies: the broker requeues a message that is not acked.
HandlerCrash(h) ==
    /\ pc[h] # "idle"
    /\ Fault
    /\ Interrupted(h)
    /\ queue' = IF pc[h] = "announce" THEN queue ELSE [queue EXCEPT ![msg[h]] = @ + 1]
    /\ Return(h)
    /\ UNCHANGED <<chain, listener, books, announced>>
-------------------------------------------------------------------------------
Listener == Scan \/ (\E t \in tasks : Publish(t)) \/ Advance \/ Save

Handler(h) ==
    \/ \E p \in Payments : Deliver(h, p)
    \/ Guard(h) \/ Credit(h) \/ Record(h) \/ Ack(h) \/ AckDuplicate(h)
    \/ Announce(h) \/ Nack(h)

Failure ==
    \/ \E t \in tasks : PublishDropped(t) \/ PublishThrows(t)
    \/ SaveThrows \/ ListenerCrash
    \/ \E h \in Handlers : CallThrows(h) \/ HandlerCrash(h)

Next == NewBlock \/ Listener \/ (\E h \in Handlers : Handler(h)) \/ Failure

Spec == Init /\ [][Next]_vars

\* The loop goes on for ever, tasks go on, and messages are delivered and handled.
\* Nothing makes the chain grow or a call fail.
Fairness == WF_vars(Listener) /\ \A h \in Handlers : WF_vars(Handler(h))

FairSpec == Spec /\ Fairness
-------------------------------------------------------------------------------
TypeOK ==
    /\ tip \in Nat /\ start \in Nat /\ saved \in Nat /\ to \in Nat /\ scan \in Nat
    /\ lpc \in {"scan", "publish", "save"}
    /\ tasks \subseteq [scan : Nat, rest : (SUBSET Payable) \ {{}}]
    /\ queue \in [Payments -> Nat]
    /\ pc \in [Handlers -> Pcs]
    /\ msg \in [Handlers -> Payments \cup {None}]
    /\ \A h \in Handlers : pc[h] = "idle" <=> msg[h] = None
    /\ balance \in [Users -> 0..MaxBalance]
    /\ ledger \subseteq Nat \X Payments
    /\ credited \in [Payments -> Nat]
    /\ announced \subseteq Payments
    /\ gone \in [Windows -> SUBSET Payments]
    /\ faults \in Nat

\* A message for p is queued, or held by a handler that has not acked it.
Underway(p) ==
    \/ queue[p] > 0
    \/ \E h \in Handlers : msg[h] = p /\ pc[h] # "announce"

(***************************************************************************)
(* No payment is skipped: whatever failed or restarted, a payment in a     *)
(* block the listener has left behind is in the queue, in a handler, or    *)
(* credited, unless the broker connection swallowed its message.           *)
(***************************************************************************)
NothingSkipped ==
    \A p \in Payable \ gone["dropped"] :
        Log[p].block \in DefaultStart..(start - 1) => Underway(p) \/ credited[p] > 0

(***************************************************************************)
(* However often a block is scanned and a message delivered, a payment on  *)
(* chain 1 is credited once, unless a fault fell between the balance and   *)
(* the history or two handlers had it at once.                             *)
(***************************************************************************)
CreditedOnce ==
    \A p \in Payable \ (gone["torn"] \cup gone["raced"]) :
        Log[p].chain = 1 => credited[p] <= 1

\* A payment in the history is announced for reconciliation, or will be, unless a
\* fault came after it was recorded.
Reconciled ==
    \A entry \in ledger :
        \/ entry[2] \in announced \cup gone["unannounced"]
        \/ \E h \in Handlers : msg[h] = entry[2] /\ pc[h] \in {"ack", "announce"}

\* The credits of p do not fit, or are none: it is requeued for ever, before all others.
Poison(p) ==
    /\ Log[p].block <= tip - Confirmation
    /\ Credits(p) = 0 \/ balance[Log[p].payee] + Credits(p) > MaxBalance

\* A confirmed payment ends up on the balance of its user, unless one that can never be
\* credited stops the queue.
EventuallyCredited ==
    \A p \in Payable :
        (Log[p].block \in DefaultStart..(tip - Confirmation))
            ~> \/ credited[p] > 0 \/ p \in gone["dropped"]
               \/ \E q \in Payable : Poison(q)

\* "Payment already processed (idempotent)" (payment_processsor.ts:184): a payment that
\* is in the history is not credited again.
DuplicatesRefused ==
    \A p \in Payable \ (gone["torn"] \cup gone["raced"]) : credited[p] <= 1
===============================================================================
