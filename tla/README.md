# A TLA+ verification project for mini-math

mini-math runs workflows: directed acyclic graphs of nodes (HTTP calls, swaps,
conditions, code) that users store, start, feed with answers, and pay for with
credits. This directory holds TLA+ modules translated from its TypeScript
source, the TLC configurations that check them on small instances, and proofs,
checked by TLAPS, that hold for every value of the constants. Paths below are
relative to the repository.

## 1. The system

### 1.1 Components

| Component | Source | State it keeps | Operations |
|---|---|---|---|
| Workflow engine | `packages/workflow/src/workflow.ts`, `helper.ts`, `packages/nodes`, `packages/compiler/src/NodeFactory/IfElse.ts` | runtime queue, visited list, current node, finished flag; executed flags, inputs and outputs of nodes; external input storage | constructor, `clock`, `appendExternalInput`, `serialize` |
| Remote worker | `packages/remote-worker/src/worker.ts` | nothing but the handler on its stack | `handleMessage` (one clock per message), `handleCleanup` |
| Workflow and runtime stores | `packages/workflow/src/workflowStore.ts`, `packages/runtime`, `packages/adapters/src/workflow_store.ts`, `runtime_store.ts`, and in-memory ones | one row per workflow (definition, flags, lock, trace) and one per runtime | create, get, update, replace, delete, list, batch create, lock and unlock |
| Workflow routes | `packages/remote-server/src/routers/workflow`, `middlewares/workflow.ts`, `middlewares/runtime.ts` | none | load, compile, initiate, externalInput, schedule, fetch, list |
| Queues | `packages/queue` (in memory), `packages/adapters/src/rabbitmq.ts` | waiting, delayed and in-flight messages, consumers | enqueue with delay, onMessage, ack, nack, clear, close |
| Payments | `packages/payment-listener` | last block processed | scan of confirmed blocks, publish, credit |
| Users, credits, history | `packages/rbac`, `packages/adapters/src/user_store.ts`, `transaction_store.ts` | balances; an append-only list of transactions with idempotency keys | increase, reduce, credit, debit |
| Batches and cron jobs | `packages/workflow/src/batchStore.ts`, `packages/remote-server/src/cron.ts`, `routers/batch` | batch -> workflows | create and delete over three stores; chain of linked workflows |
| Images, CDP accounts | `packages/images`, `packages/secrets/src/cdpAccountStore.ts`, `adapters`, `routers/image`, `routers/cdp` | images and a count of them per server; who has an account at Coinbase | store, delete, list, open, find, each with a guard and a price |
| Sessions, roles, secrets | `packages/keystore`, `packages/rbac/src/roleStore.ts`, `packages/secrets`, `remote-server/src/keyvalue-session-store.ts`, `routers/auth`, `routers/rbac`, `routers/secrets` | expiring sessions; roles and secrets of users | nonce, login, logout, expiry; grant and revoke; store and delete |
| Node kinds | `packages/compiler/src/NodeFactory` | the workflow's global state; transactions and 1inch orders in the outside world | one `execute` per kind |
| Contracts, applications, logger | `packages/account-abstraction`, `apps`, `packages/logger` | - | deployment, start-up, logging |

### 1.2 How they interact

`POST /initiate` marks the workflow row and puts its identifier into the *root*
queue. A worker takes the message, reads both rows, locks the workflow, rebuilds
the `Workflow` object, clocks it **once**, writes both rows back, unlocks,
charges the owner, enqueues the identifier again and acks the message it had. So
a running workflow is one message that goes round. A clock that needs an answer
saves the question and stops the round; `POST /externalInput` saves the answer
and enqueues the identifier. A workflow that finishes, or fails, enqueues the
workflows linked behind it and, with a delay, a message to the *finished* queue
whose consumer deletes both rows. Server and workers share nothing but the
database and the queues, and any of them may stop at any `await`.

### 1.3 What is hard

* **Interleaving at every `await`.** Rows are read, checked and written in
  separate statements, by several workers and requests. The lock of a workflow
  is itself a read, a check and a write.
* **Crashes and redelivery.** A message that was not acked comes back. What was
  saved before the crash has happened; what was not has not; the two rows are
  saved one after the other.
* **Delays.** The cleanup of a workflow comes a fixed time after it ended,
  whatever was done with it since.
* **Scheduling inside a workflow.** No join: a node is queued by the first of its
  parents. `visited`, `queue` and `executed` together must make it run once.
* **Money.** A payment goes through the chain, a checkpoint, a queue that delivers
  at least once, a balance and a history, with a crash possible between any two.
* **Reconnection.** A RabbitMQ connection can go at any await, while callbacks of it
  run. What they settle later is sent on another connection, where the same
  delivery tag names another message.
* **Wake-ups of the in-memory queue.** A consumer and a message meet only in
  `kick`; each event that could bring them together has to call it.
* **Several stores, no transaction.** A batch is rows in three stores, a balance and
  its history are two tables, an image is a row and a count in memory: a failure or
  another request falls between any two.
* **Sessions are copies.** A request works on the session it loaded and may write it
  back after a logout or a login of another request.
* **Effects that cannot be taken back.** A node that made a transaction or an order
  may be run again, and an order lives on after its node.
* **Pages.** A list is read page by page while its rows change, with a cursor of a
  different kind in every store.

`PROJECT.json` lists each hazard at its line, with the properties that would
catch it.

### 1.4 What makes each part correct

* Engine: each node runs at most once, for a reason (a parent chose it) and with
  its external inputs; what is queued is coherent with what was visited; nothing
  chosen is forgotten; the run ends.
* Workers: one worker at a time on a workflow; each node runs once and is paid
  for once; a workflow that says it has finished has; one that was started never
  ends up with no message and no question.
* Queues: one copy of each message, no lost wake-up, delivery; a message acked,
  dropped or cleared is not seen again; nothing is forgotten unsettled, no delivery
  blocks its consumer, and consumption resumes after a lost connection.
* Payments: no confirmed payment to a known user is skipped, none is credited
  twice, and what is recorded is announced.
* Admission: the rows come before the message; a creation that fails and a deletion
  leave nothing behind; one message drives a workflow; a cron job goes on.
* Credits: the history accounts for the balance; what is stored is paid for, once;
  the counts in memory are those of the table.
* Node kinds: an effect is made once; a branch follows what was written; an order is
  funded, and its secrets get out.
* Access: a login renews the session, a logout lasts, a nonce is used once; nobody
  becomes a platform owner but by configuration; a maximum is a maximum.
* Lists: a row that stays is seen, once, and the pages end.

## 2. The modules

| Module | Models | Role |
|---|---|---|
| `Scheduling` | the loop of `Workflow._scheduleChildren` | pure operators, used by the engine and by the workers |
| `DagExecution` | what running a workflow promises | abstract specification of the engine |
| `WorkflowEngine` | one `Workflow` object, clock by clock | detailed specification; implements `DagExecution` |
| `Topology` | the constructor's validation, the index of edges, `hasCycle` | pure operators; give the engine its graphs |
| `MCWorkflowEngine` | definitions, inputs | instance for TLC |
| `RemoteWorker` | workers, rows, queues and requests around one workflow | every step is the code between two awaits |
| `MCRemoteWorker` | a workflow of two nodes | instance for TLC |
| `RemoteWorkerProofs` | | theorems |
| `MessageDelivery` | what `IQueue` promises | abstract specification of the queue |
| `InMemoryQueue` | `packages/queue/src/in_memory.ts` | detailed specification; implements `MessageDelivery` |
| `InMemoryQueueProofs` | | theorems |
| `RabbitQueue` | `packages/adapters/src/rabbitmq.ts` | one queue object, its broker and its callbacks |
| `EngineAndQueueProofs` | | theorems about `WorkflowEngine`, and about `RabbitQueue`, which share nothing but the module |
| `Payments` | the payment listener and the payment processors | from a transfer on the chain to credits |
| `MCPayments` | two short chains | instances for TLC |
| `PaymentsAndListingProofs` | | theorems about `Payments`, and about `Listing`, which share nothing but the module |
| `Admission`, `MCAdmission` | batches, cron jobs, /load, /initiate and the messages they send | rows in three stores; the rounds of one workflow are `RemoteWorker`'s |
| `AdmissionProofs` | | theorems |
| `Accounts`, `MCAccounts` | credits, their history, images, CDP accounts | every guard, charge and record, by all requests at once |
| `AccountsProofs` | | theorems |
| `NodeKinds`, `MCNodeKinds` | what each kind of node does when it runs | a workflow, its global state, the chain and 1inch |
| `NodeKindsProofs` | | theorems |
| `Access`, `MCAccess` | sessions, roles and secrets | requests with the session they loaded |
| `AccessProofs` | | theorems |
| `Listing`, `MCListing` | the twelve `list` operations, and the client that pages | one client against everybody who changes rows |

The modules meet at what one leaves open and another has in detail: the engine's
queue arithmetic (`Scheduling`) is used by `RemoteWorker`; the graphs of the engine's
runs are those `Topology` accepts; a node is one step in `RemoteWorker` and
`WorkflowEngine` and many in `NodeKinds`; a workflow's rounds are one step in
`Admission` and all of `RemoteWorker`; the queue is a count of messages there, and a
module of its own.

### 2.1 WorkflowEngine

The variables carry the names of the fields: `queue`, `visited`, `current` and
`finished` are the runtime, `executed` the nodes whose flag is set, `stored` the
external input storage, `expecting` the question. One `clock()` is one action,
and there is one action per outcome of it: `ClockWaiting`,
`ClockInsufficientCredit`, `ClockAlreadyExecuted`, `ClockTerminated`, `ClockOk`,
`ClockFinished`. `Dequeue` is what they share (`_dequeueAndMark`), `PutBack` is
the `unshift` of a clock that did not run its node, `Leave` is
`_finalizeIfPossible`. What a node computes is not modelled: its outputs are one
unit, and `inputs[c][p]` counts how many times they were wired to a child, so
that a parallel edge is seen. An `ifElse` node has an unknown condition and
chooses by position, as `IfElse.ts` does. The price of a node is the choice
between `ClockInsufficientCredit` and the actions that execute. The graph is
chosen in `Init` and never changes; `ran`, `threw` and `took` are history.

The engine has no join: a node runs after the *first* of its parents.
`JoinsWhenGraded` states when the breadth-first queue makes up for it (all paths
from the entry to a node have the same length); in other graphs a node may run
before one of its parents, which TLC shows at once if `Graded` is dropped.

### 2.2 RemoteWorker

One workflow is followed, with its two rows, its messages and everybody who
touches it. `pc[w]` names the await a worker's handler stands at and an action is
the code from there to the next one; `todo[w]` is what a `Promise.all` has still
to do, in any order. `lwf`/`lrt` are the rows in the worker's memory: they are
what is written back, however old. The worker clocks with the operators of
`Scheduling`; the branches of the engine that do not matter to the rows (ifElse,
several inputs, parallel edges) are left to `WorkflowEngine`. Messages are counts:
a queued message may be delivered at any time, which covers every delay. `Crash`
puts an unacked message back, which is what the broker does.

`credits` is the balance of the owner, which is not the workflow's own: other workflows
of theirs, images, accounts and grants move it between any two steps (`Elsewhere`).
The clock looks whether the balance is enough, the rows are saved, and only then is the
node charged, so that the charge may be refused with the step saved; the message that
is sent back goes on with the next node, and nobody comes back for the charge. `drawn`
names the nodes that were still to be paid for when others had left nothing.

The properties name the *windows* a crash, or an early message, fell into, and
say what holds if it fell into none of those that matter: `unsaved` (the node ran,
nothing saved), `torn` (one of the two rows saved), `unpaid`, `twice` (the next
message is enqueued, this one not acked), `lost` (acked, the next not enqueued),
`early` (the message of an answer enqueued before the answer is saved). They are
the statement of what the code's order of saves, charge, enqueue and ack buys:
for instance that a crash can charge a node twice only through the window
`twice`. `OneRound` says that neither `twice` nor `early` was hit: an answer whose
message came early is asked for again and may be given again, and then there are two
messages for one workflow.

### 2.3 InMemoryQueue

JavaScript runs one turn at a time, so an action is a turn: the code of one call,
of one timer, or one iteration of the loop in `kick`, during which `Turn` is
disabled. A callback has taken a message (`serving`), may settle it once
(`stage`), and returns or throws. Kicks waiting in the microtask queue are one,
since a kick leaves nothing for the next to do.

### 2.4 Payments

`Payments` are the logs of the chain, numbered in its order; `Log` gives each its
block, payee, raw amount and token. The listener's loop is `lpc` with `start` (in
memory), `saved` (in the key-value store) and `to`; each user paid in a scan is a
task with the logs it has still to enqueue. A task that fails ends its scan and
not the other tasks, which is why tasks carry the number of their scan. The queue
counts messages per payment and delivers in any order. `Handlers` are messages in
work at the same time, whatever process has them; `pc[h]` is the await a handler
stands at. `balance` and `ledger` are the two tables; an entry of `ledger` is the
idempotency key: chain and payment. `credited` and `announced` are history, and
`gone` names the payments a fault hit in a *window*: `dropped` (published on a
connection that goes down: `sendToQueue` confirms nothing), `torn` (balance
changed, history not), `raced` (two handlers past the guard), `unannounced`
(recorded, not announced).

### 2.5 RabbitQueue

One `RabbitMQQueue` object: `client` says how far `connect()` has come or what undid
it (`opened`: connection but no channel; `setup`: channel, queues being asserted;
`up`: consuming, if it listens; `backoff`: the timer of `handleDisconnect` runs).
`link` is the truth about the connection, which the object learns later. A delivery
is told by connection and tag; `inFlight` holds the last one of each message and is
not cleared by a disconnect, as in the code; `out` is what the broker waits for. The
broker is modelled from how the code uses it: prefetch of one message, unsettled
messages go back when the channel ends, an unknown tag ends the channel, and since
nothing listens for a channel's error, the connection with it. `crossed` names the
messages that an old tag hit, `left` those whose callback returned without settling
them, as the worker's does at 500 trace entries. Its specification is `RabbitSpec`, of
`RabbitInit` and `RabbitNext`, so that the module can stand beside the engine's in one
module of proofs.

### 2.6 Topology

A definition is a record of nodes, entry and edges, as the routes accept it. `Valid`
is `_validateDefinition`, `Outgoing` the index, `Shifted` the nodes the search of
`hasCycle` removes and `HasCycle` its answer: it compares two counts, while a
definition may name an edge twice or an edge from a node to itself. `MCWorkflowEngine`
offers definitions good and bad, and the engine runs on those that pass.

### 2.7 Admission

`wf`, `rt` and `notes` are the workflows, runtimes and batches with a row; `pc` says
where the request that creates or deletes them stands. Creation writes the three
stores one after the other; when a later write fails, what the earlier ones wrote
stays, and `torn` names the request. Deletion is an `allLimit` (`calls`: the tasks left
and the loops that take them). `initiated`, `root` and `ended` are the flag and the
messages; a worker takes a message and finds rows or not.

With the rows, the rounds of the workflow end in one of several ways. It finishes
(`Finish`), the next one of a cron job is linked, and the message acked; or it is
terminated (`Terminate`). Or the trace is full, and the handler returns without ack or
nack (`Stall`, `worker.ts:131`): the worker keeps its one message and takes no other.
Or a failure falls between the ack of a message and the enqueue of the next one, which
leaves none (`AckOnly`), or the other way round, which leaves two (`EnqueueOnly`);
the two calls are a `Promise.all`, so that either may be the one that had its effect.

`hit` names the windows. Through five of them (`Doubling`) a second message comes:
`unmarked` (a workflow of a batch or a cron job is queued without the flag and initiated
by a client), `raced` (two requests past the checks), `early` (a termination cleared the
flag before the ack), `relinked` (a worker died after it linked the next run), `twice`
(enqueued, and not acked). Through three the last one goes: `stranded` (flag set,
message not sent), `lost` (acked, and the next one not enqueued), `stuck` (the trace is
full).

### 2.8 Accounts

A request is a run of one handler: a grant or a reduction, storing or deleting an
image, opening or finding a CDP account, and the charge of a worker. `todo[r]` are
the kinds of credit whose transaction is not recorded yet, `snap[r]` the rows from
which a server counts the images when it first needs the count. `torn`, `repeated`,
`unpaid` and `stale` name what the code gives away: a fault between balance and
history, a node charged twice under one key, an image stored before a charge that is
refused, and counts that another server overtakes. `PaidFor` speaks of the image, not of
the request: of all requests that store it, on whatever servers (`Payers`), one pays,
unless the image was deleted (`gone`) and stored again. What keeps it so is that the row
of an image is inserted by one of them only.

### 2.9 NodeKinds

One workflow is run node after node, as the worker does, and every call a node makes
is a step. `state` is the global state as stored and `work` the copy of the run; the
copy is lost when the run throws or dies. `World` is the chain, which mines or
reverts what was sent, and the resolvers, which fill parts of an order and wait for
their secrets. The 1inch swap is translated step by step: allowance, approval, quote,
order, its hash or what the node takes for it, the polls, and the submission of
secrets, each of which may fail and is tried as often as the code tries it. The node
approves its token when it was told to and does not take the token for the coin of the
chain, which it does for any that goes by the symbol ETH (`native`,
`OneInch.ts:856`). A wallet node may ask for coins of a test network (`faucet`). The
test node, whose global state is a list, is left out. The module's
workflows are trees, which is one of its assumptions: two paths that meet in a node are
`WorkflowEngine`'s subject, and there a node is queued once too (`NeverQueuedAgain`).

### 2.10 Access

`sessions` is the key-value store, `cookie[u]` what the browser of u sends, and
`copy[r]` the session a request works on and saves or touches at its end. `Begin` is
the request that comes in, `Load` the middleware; the operations are those of the
routers for login, roles and secrets. A login whose `regenerate` fails is answered with
an error, and the new, empty session is stored all the same (`RotateThrows`). Expiry may
happen at any time, and so may a restart, after which the server may have another owner
in its configuration, or another spelling of the same: `owners` are those that were
written to the table, and none is ever taken out. `signed`, `logins`,
`out`, `maker` are history; `behind`, `together` and `crowded` name the overlaps the
code lets through.

### 2.11 Listing

A store is a record of three choices: the order of its rows, what its cursor is, and
which statement tells that there are more. The twelve records are the twelve
implementations, six in Postgres and six in memory, and the actions are common:
`MayMiss` and `MayRepeat` say which of them pays for what change. A row that is changed
is named by its place, a new one goes to `Place`: behind the others, where its key
belongs, or behind those of its owner. The last is the list of images in memory, a `Map`
of owners to a `Map` of images, which is gone through owner by owner and filtered by
none (`in_memory_image_store.ts:86`): both lists of images hold the rows of everybody,
and in this one an image of an owner who comes early in the list shifts all behind it.

## 3. The runs

| Run | Instance | What it checks |
|---|---|---|
| `engine` | definitions of four nodes with edges from lower to higher, in every order, parallel edges included; with a cycle, an edge from a node to itself or to nothing, an identifier or an input named twice, which the engine must refuse; one ifElse node, one node with two external inputs, three choices of nodes loaded as executed | what is clocked is acyclic; the engine's invariants; that the run ends; the refinement of `DagExecution` |
| `worker_crash` | two workers on two nodes in a row, the second of which asks and may throw; one owner who may start twice and answer once; one crash anywhere and one other use of the owner's balance, which leaves nothing of it; a linked workflow | the workers' safety, and that what is initiated settles |
| `worker_lock` | two requests at once, no crash | the lock does not exclude (violation) |
| `in_memory_queue` | three messages, plain or delayed, two consumers, clear and close at any time | safety, delivery, refinement of `MessageDelivery` |
| `payments` | three transfers in two blocks: one good, one worth no credit, one to another user on another chain; two handlers, two faults anywhere, a column that overflows | nothing skipped, credited once, every payment credited in the end |
| `payments_guard` | one payment on chain 11155111, one fault | a payment delivered again is credited again (violation) |
| `rabbit_queue` | two messages, plain or delayed, one process that loses its connection anywhere and may be closed anywhere, another that consumes too | nothing lost, no blocked consumer, consumption resumes |
| `admission` | a batch of two that is deleted, a batch of one that is deleted twice, a cron job of two runs or a workflow loaded; two clients, two workers, one failed call or crash, traces that are full | rows before messages, no orphans, one message, the cron job goes on or is broken off for a reason that is named |
| `accounts` | two users, one image, two servers, three requests of any kind, one fault | balance against history, images paid for once over both servers, counts |
| `nodes` | 37 workflows of one to five nodes of every kind but the test node, each run again once, three failed calls or crashes | effects once, branches, orders funded and answered |
| `access` | two users, either of whom may be configured as owner, one in two spellings, three requests, one failure, expiry or restart; sessions alone, roles with logouts, secrets with logouts | sessions, nonces, owners, the maximum |
| `listing` | twelve stores, up to five rows of two owners, pages of two, two changes, two orders of names | rows seen once, pages end |

**Bounds and why they are enough.** Four nodes are the smallest graphs with a diamond,
a shortcut past it and a parallel edge at once. Two nodes in a row in `RemoteWorker`
have every outcome of a clock and leave work over when a step is lost or repeated; the
branching of queues is the engine's run. Two workers and one crash give every pair of
handlers and every window; `MaxInitiations = 2` gives a second start while the cleanup
of the first is pending; `MaxTrace = 3` is what an undisturbed run with its question
needs, so that a crash or a second start makes the trace too long. `MaxElsewhere = 1`
and `Balances = {0}` let others take what is left of the balance once, between any two
steps; a grant that comes after it changes nothing for a charge that was refused. In
`worker_lock`, which is about the lock, the balance is left alone. Three messages and
two consumers make the round-robin pointer wrap and leave a message waiting while both
are busy.

Two faults let a scan fail and the listener die on top of it, or a credit
be torn twice; batches of one block with two blocks give scans that follow one
another while tasks of the first still run.

Two messages and one fault let a callback outlive its connection while another
message takes its tag on the next one; the channel error that follows reconnects
again without using up the fault.

In `Admission` one creating request at a time is alone in the system, since no two
share a row; two workflows and two loops give every order of the tasks of `allLimit`,
and the batch that two requests delete at once is one of one workflow. `Long` are the
workflows that may fill their trace: all but one of a batch, beside which the other may.
Two owners in `Listing` are one whose rows come first and one whose do not.
Three requests in `Accounts` and `Access` are two that race and one that comes in
between or after; prices of one and two credits, with a guard that asks for one, give
the balance that is too low. Two parts in `NodeKinds` let one secret be refused and
one get out. Three pages in `Listing` have a first, a middle and a last one.

**Fairness.** `WorkflowEngine`: somebody clocks the workflow again, as the worker's
loop does, credits are topped up, and a question is answered. `RemoteWorker`:
handlers go on, messages are delivered, a request that passed its checks
completes, time passes (a lock expires); no fairness makes a user act or a worker
crash. `InMemoryQueue`: microtasks are run, and a callback comes to its end; a
callback that never does may keep its consumer for ever. `RabbitQueue`: the
broker answers and delivers, timers fire, callbacks end. `Payments`: the loop and
its tasks go on, messages are delivered and handled; nothing makes the chain grow.
`Admission`: workers do what they have to and messages are delivered; nobody is made
to clean up in time. `NodeKinds`: a run that has begun goes on; nothing makes the
chain or a resolver act, which is why each of the code's waits has its number of
tries. `Listing`: the client asks on and is answered. `Access` and `Accounts` have no
fairness: their properties are about safety.

**Deadlock.** The engine never stops (a finished workflow answers each clock with
an error). In the other modules the system may really come to rest, when no
message is left, so their configurations do not check for it.

## 4. What the runs found

* `worker_lock`: the lock refuses nobody but its own holder
  (`workflowStore.ts:131`), so that it does not do what `worker.ts:110` says. What
  keeps workers apart is that there is one message; two requests that both pass
  the check of `/initiate` make two.
* `payments_guard`: the guard looks a payment up under chain 1 and the record is
  written under the token's chain, which is never 1 in this repository: the guard
  lets every redelivery through, and the balance grows each time.

What the properties name as exceptions is, read together, a list of the windows this
code has. Those that a reader would not expect:

* `worker_crash`: a step that was saved in one row only makes the next worker skip the
  children of its node; the message of an answer may be consumed before the answer is
  saved, and then nothing will ever move the workflow; the cleanup of a termination
  deletes a workflow that has been started again meanwhile; and a node is run and never
  paid for when the owner's balance goes elsewhere between its clock and its charge.
* `rabbit_queue`: a callback that outlives its connection acks with an old tag, and may
  remove a message that another callback works on (`crossed`).
* `admission`: a queued workflow of a batch or a cron job does not look initiated, so
  that a client may start it a second time; and a cron job stops for good, with all that
  follows, when one of its runs fills its trace, fails, or loses its message between ack
  and enqueue. A worker at a full trace keeps the message and takes no other, so that as
  many of these as there are workers stop all workflows.
* `accounts`: an image is stored before it is charged, and the guard asks for one
  credit, whatever the price; a user with less than the price has the image for
  nothing. A server counts images in memory, and another server does not know.
* `nodes`: a node that died after it sent its transaction sends another; an order in a
  token that only goes by the name of the chain's coin is placed without an approval.
* `access`: an owner who is no longer configured stays one (`role_store.ts:54`).
* `listing`: the in-memory list of batches ignores its cursor
  (`in_memory_batch.ts:10`), that of runtimes goes back to the second row
  (`in_memory_runtime.ts:163`), and that of account names sorts with `localeCompare`
  and searches with `>` (`secrets/src/in_memory.ts:98`), so that a client of these
  three may page for ever; a list by offset skips rows when others are deleted, the
  list of images in memory shows rows twice when somebody else stores one, and the
  Postgres list of images has no order at all.

## 5. What is proved

All theorems hold for any constants that satisfy the modules' assumptions.

* `EngineAndQueueProofs`, of the engine: type correctness, `QueueCoherent`,
  `NeverQueuedAgain`, `InputsBeforeRun`, `NothingForgotten`, `Caused`,
  `JoinsWhenGraded`, and `Implements`: the engine refines `DagExecution`. The inductive
  invariant is `TypeOK`, `QueueCoherent`, `Flags` (`executed` is what was loaded plus
  what ran, and those are apart) and that the queue and what ran are disjoint. `Flags`
  is needed because the code tests the executed flag while the property speaks of runs;
  `QueueCoherent` carries the fact that only the head may be visited, which a clock that
  puts its node back relies on. `Caused` joins them as it is: the loop appends only
  children that have not run, and a child that is found in the queue keeps its inputs.
  `JoinsWhenGraded` needs `Layered`: where all paths to a node have the same length, the
  queue is sorted by that length, its last node is at most one layer below its first,
  and nothing above the first is left to run. The assumption is `EngineAssumption`: what
  `_validateDefinition` rejects, plus finitely many nodes. Acyclicity is not needed: the
  visited list alone makes each node run once. What the scheduling loop appends
  (`ScheduledFacts`) is proved here too, for any children and any queue. `Acyclic` is a
  theorem about `Topology`, of every definition with any identifiers and edges: the
  search of `hasCycle` is a function of the numbers that is defined by recursion, of
  which the proof first shows that there is one (there is one up to every number, and
  they agree); then, of a set of nodes whose edges all come from the set, none is ever
  taken, and if all nodes are counted there is no such set. The theorem's hypothesis is
  that the engine's graphs are those of definitions that pass, as in the run.
* `InMemoryQueueProofs`: type correctness, `OneCopy`, `NoLostWakeup`, and
  `Implements`: the queue refines `MessageDelivery`. `OneCopy` is not inductive: a
  callback that throws puts its message back, so the invariant adds `Served` (a
  callback that has not settled its message has it in flight, or it was cleared;
  one that acked it is done with it) and `Idle` (a slot nobody registered serves
  nothing). `NoLostWakeup` is inductive by itself: each action that breaks its
  premise asks for a kick.

* `EngineAndQueueProofs`, of the RabbitMQ queue: type correctness, `NothingLost`,
  `NeverBlocked`, `ClosedForGood`. The first three need `Tracked` (what is out is what
  the map holds for its message), `Fresh` (among what the process still has in its
  hands, callbacks and map, a tag of this connection names one delivery) and `Linked`
  (nothing is out while there is no channel, which is why an ack that does nothing
  leaves nothing behind). `ClosedForGood` is inductive by itself.

* `PaymentsAndListingProofs`, of the payments: type correctness, `NothingSkipped`,
  `CreditedOnce`, `Reconciled`. `NothingSkipped` needs `ScanCovers` (while a scan
  publishes, what is not safe yet is in one of its own tasks), that the checkpoint
  never passes the block in memory, and `PastCredit` (a handler past the credit, or
  refused by the guard, has a payment that was credited), because an acked message is
  only safe if it was. `CreditedOnce` needs `Once`: of the payments no fault hit, at
  most one handler is between guard and record, nothing is credited before it credits,
  and what is credited is recorded or about to be.

* `PaymentsAndListingProofs`, of the lists: type correctness and `SeenOnce`, for all
  twelve stores at once, any rows, any size of pages and any number of changes. The
  stores fall in two kinds. Where a page is told by its place, rows that come and go
  shift the others: `PlaceSeen` says that what is before the page was seen, that of
  what stayed nothing is lost between the page and what comes behind it, and that a
  count which says "no more" is still true when the rows are read; `PlaceOnce` that
  what was seen is before the page. Where it is told by a key, the same is said of the
  keys (`KeySeen`, `KeyOnce`), which no change can shift, and only the start of the
  page has to be found: the rows up to the cursor are the first ones of the list
  (`Initial`, `SkippedByKey`), unless the two orders of names differ. What an
  exception of `MayMiss` or `MayRepeat` has let happen stays (`ShiftedStays`). Owner
  by owner, a new row may land anywhere, which is why an insertion is an exception
  there.

* `RemoteWorkerProofs`: type correctness, `NoStranded`, `Exclusive`, `NotBlind`,
  `FinishedMeansAll`, `ExactlyOnce`, for every workflow and any number of workers,
  starts, answers and crashes. The first two hold for any number of clients (the types
  need `Held` and `Loaded`: what a worker has in its hands and its memory where its
  handler stands); `NoStranded` needs only `TokenInv` (while the workflow has begun and
  asks nothing, a queue, a worker or a request has the message that moves it). The
  other four assume `OneAtATime`, an owner who does one thing at a time, without which
  the run `worker_lock` refutes them. `Exclusive` needs four facts that only hold
  together (`RoundInv`): there is one message (`OneMessage`); while there is, or the
  workflow asks, `/initiate` refuses it (`Flagged`); while it asks, only the message of
  an answer is to come (`Unasked`); and the worker that is about to finish has the
  runtime of the row (`Turned`), since finishing clears the flags that keep
  `/initiate` out. From there one worker has the rows to itself: `Agreed` (what the row
  of the workflow and the row of the runtime call visited is the same, but while one of
  the two is being saved) gives `NotBlind` and `FinishedMeansAll`; `Counted` (what ran
  is in a row or in the hands of who saves it), `Paid` (what is paid for was visited)
  and `Even` (what ran is paid for, or its worker owes it; and who owes can pay, unless
  the balance was drawn on elsewhere) give `ExactlyOnce`.

* `AccessProofs`: type correctness, `OnlyOwners`, `Rotated`, `LoggedOut`, `SingleUse`,
  `AtMostMax`. All rest on two lemmas: `WhoActs` (what a step does to one request) and
  `WhoWrites` (who changes which variable), so that each invariant is a few cases
  instead of twenty actions. `OnlyOwners` needs `Allowed` (who is past the role check
  is an owner, spelled as sessions spell it, and names a developer) and `Made`; that
  the rows of owners are those that servers wrote is an equality (`OwnersStep`), so
  that it says both that nobody else becomes one and that nobody ceases to be.
  `Rotated` and `LoggedOut` need `Fresh` (an id that nobody made yet is nowhere),
  `Holds` (a copy has the user that signed for its id) and `Late` (who has a copy of a
  session that is out, and changed it, is in `behind`). `SingleUse` needs that a nonce
  is in one session at most (`Kept`) and in nobody's hands once it was used (`Used`),
  unless two requests matched it at once. `AtMostMax` counts the requests that are
  past the count as if they had stored.

* `AdmissionProofs`: type correctness, `RowsBeforeMessage`, `NoOrphans`, `OneMessage`
  (with `ChainOrder`), from `AdmissionAssumption` alone: for any batches, cron jobs,
  loaded workflows, clients, deletions and workers, and with any number of creating
  requests at once, where the run has one. `RowsInv` says how far each creation is: a
  row that is missing is still to be written by a call of `allLimit` (`CreationInv`),
  and whoever has a message, or is about to send one, has its rows behind him
  (`MessageInv`). `NotesInv` says the same of deletions, and adds that a deletion
  answered with a 200 left nothing that could come back (`DeletionInv`). `DrivenInv`
  counts messages: where no window was open through which a second one comes
  (`Clean`), the message of a workflow is either still to be sent, or in the queue, or
  with one worker, or wanted by one client, and never two of these (`Single`), which
  needs that a batch has one loop of calls while it sends (`OneCall`) and that the
  earlier runs of a cron job have had their messages (`Led`); an initiated workflow
  has its message (`FlagInv`), and a message means that the run before it finished
  (`ChainInv`).

* `AccountsProofs`: type correctness, `BalanceIsHistory`, `CountIsRows`, `PaidFor`,
  for any users, images, servers and prices, any number of faults, and finitely many
  requests (a sum is of a finite set). `BalanceIsHistory` compares a balance with a
  sum over the history. The community modules define such a sum by a fold that takes
  one element after the other in an order of its own, and no induction theorem is at
  hand; so the proof takes, of the subsets of a finite set that a claim is false of,
  one with no smaller one in it, and gets `SumAdds`: the sum of a set and one element
  more. The invariant (`Balanced`) sums what is written and what is about to be, since
  every handler moves the balance first and records it later; a transaction is pending
  until it is written (`Recorded`), and a key is charged once, unless the model says
  twice (`ChargedOnce`). Who may stand where, and may owe what, are the types
  (`Standing`, `Fits`). `CountIsRows` counts, besides the rows, the requests that have
  changed the rows and not the count yet; it changes with one request at a time.
  `PaidFor` needs that an image is stored by a request that was asked to (`Made`),
  that this request has recorded its charge or goes on to (`Paid`), and that whoever
  is charged for an image, or about to be, is the one that stored it, while it was not
  deleted (`Kept`): so two payers of one image are the same request, whichever servers
  they asked.

* `NodeKindsProofs`: type correctness, `EffectsOnce`, `Decides`, `Funded`, for any
  trees of nodes, any names, secrets and number of reruns, attempts and faults.
  `Grown`: a node that was reached is the child of one that ran, and since the
  workflow is a tree it is once in the queue, or done, never both. So a run that is
  not torn is the only such run of its node (`Settled`), which is the first half of
  `EffectsOnce`; the other half is that a run is at the end of its node only when the
  node's call was made (`Done`, with `Stands`: where a run stands says of what kind
  its node is). `Decides` compares two ways to know what is stored under a name, the
  global state and what the last node that names it wrote; they are the same (`Apart`)
  but for names a variable node wrote besides its own, as what a run has not written
  is as it was stored. So an if node decides by what was written, and as its other
  child has no other parent, that child is never reached (`Followed`). `Funded` is
  inductive once it speaks of the order that is about to be placed too (`Covered`),
  and knows that runs to come placed none (`Early`).

`NeverQueuedAgain`, `InputsBeforeRun`, `NothingForgotten`, `NoLostWakeup`, `Reconciled`
and `ClosedForGood` are proved and no run checks them. Only model-checked are
the liveness properties, which the prover does not reach.

## 6. What is not modelled

Schemas, validation and documentation routes, server wiring and the proxies of outside
services (`routers/1inch`, `routers/feHelpers`, `routers/transactions`) keep no state;
the logger writes lines; the smart contracts and their generated bindings are deployed
by scripts and called by nobody in the servers; the applications start and connect the
parts. Of what is modelled, these operations are left out: `count`, `replace` and
`snapshot` of the workflow and runtime stores and `set` of the batch store, which
nothing in the servers calls; updating an image and reading one; export, balance and
token requests of CDP accounts, which only call the service; the cipher of the
secrets, which the stores do not call; counters and lists of the key-value stores,
which have no user; and the test node. Contents are left out everywhere: of requests,
answers, images, secrets and global state, but for what the properties tell apart. The
list, with reasons, is in `PROJECT.json`.

Two seams between the modules: `RemoteWorker` runs one handler per worker, as
prefetch(1) intends, and so leaves out that a worker which reconnects while its
handler runs may be given a second message beside it, which `RabbitQueue` shows; and
both queues' `clear`, which no process calls, leaves delayed messages where they are
(modelled in `InMemoryQueue`, left out of `RabbitQueue`).

## 7. What is left

1. `RemoteWorker` with a second handler on the same worker, after a reconnection.
2. `RemoteWorker` has what others do to the owner's balance as one step that leaves
   any of `Balances`; put beside `Accounts`, the charges would also be checked against
   the history, which `Accounts` has for charges of its own.
