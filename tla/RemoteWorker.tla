----------------------------- MODULE RemoteWorker -----------------------------
(***************************************************************************)
(* The workers that run a persisted workflow                               *)
(* (packages/remote-worker/src/worker.ts), the rows they share             *)
(* (WorkflowStore, RuntimeStore), the two queues, and the requests of      *)
(* remote-server that start a workflow and answer its questions.           *)
(*                                                                         *)
(* Every step is the code between two awaits.  One workflow is followed:   *)
(* its row, its runtime row, and the number of its messages in the root    *)
(* and the finished queue (delays and order are left open: a message that  *)
(* is queued may be delivered at any time).  Each node costs one credit.   *)
(***************************************************************************)
EXTENDS Scheduling, Functions

CONSTANTS
    Workers,        \* worker names; one root message at a time each (prefetch)
    Clients,        \* concurrent requests of the owner of the workflow
    Nodes, Entry,
    Outgoing,       \* node -> sequence of targets
    Fallible,       \* nodes that may throw
    AwaitsInput,    \* nodes that declare one external input
    Linked,         \* number of workflows linked behind this one
    MaxTrace,       \* MAX_TRACE_LENGTH
    InitialCredits, \* the balances the owner may start with
    Balances,       \* the balances that grants and other uses may leave
    MaxInitiations, \* bound: requests that pass the /initiate checks
    MaxAnswers,     \* bound: requests that pass the /externalInput checks
    MaxCrashes,     \* bound: crashes of workers
    MaxElsewhere,   \* bound: other uses of the owner's balance
    None            \* no worker, no node, no row

ASSUME WorkerAssumption ==
    /\ IsFiniteSet(Nodes) /\ Entry \in Nodes /\ None \notin Nodes \cup Workers
    /\ Outgoing \in [Nodes -> Seq(Nodes)]
    /\ Fallible \subseteq Nodes /\ AwaitsInput \subseteq Nodes
    /\ Linked \in Nat /\ MaxTrace \in Nat
    /\ InitialCredits \subseteq Nat /\ Balances \subseteq Nat

VARIABLES
    wf,         \* the workflow row, or None
    rt,         \* the runtime row, or None
    root,       \* messages of this workflow in the root queue
    ended,      \* messages of this workflow in the finished queue
    cleaning,   \* rows a cleanup still has to delete
    credits,    \* the owner's balance
    pc,         \* worker -> where its handler stands
    holds,      \* the workers whose message is neither acked nor nacked
    lwf, lrt,   \* worker -> the rows as loaded, and as the clock changed them
    todo,       \* worker -> the calls of a Promise.all still to be made
    at,         \* worker -> the node clocked, or the linked workflow reached
    cpc,        \* client -> where its request stands
    csaw,       \* client -> the row its request saw
    started,    \* messages enqueued for each linked workflow
    ran,        \* history: node -> completed runs
    charged,    \* history: node -> charges
    blind,      \* history: nodes that ran without the output of any parent
    windows,    \* history: the windows a crash, or an early message, fell into
    drawn,      \* history: nodes yet to be paid for when others left nothing
    spent       \* bounds used up: [init, answer, crash, elsewhere]

rows    == <<wf, rt>>
queues  == <<root, ended, cleaning>>
worker  == <<pc, holds, lwf, lrt, todo, at>>
client  == <<cpc, csaw>>
history == <<started, ran, charged, blind, windows, drawn>>
vars == <<rows, queues, credits, worker, client, history, spent>>

Row == [executed : SUBSET Nodes, stored : SUBSET Nodes, expecting : Nodes \cup {None},
        initiated : BOOLEAN, progress : BOOLEAN, terminated : BOOLEAN,
        lock : Workers \cup {None}, trace : 0..MaxTrace]
RuntimeRow == [queue : Seq(Nodes), visited : SUBSET Nodes, finished : BOOLEAN]

ASSUME NoneAssumption == None \notin Row \cup RuntimeRow

Pcs == {"idle", "isLocked", "lock", "loadWf", "loadRt", "clock", "save", "unlock",
        "charge", "next", "ask", "asked", "terminate", "terminated", "finish",
        "link", "linked", "cleanup", "stuck"}

Children(n) == Elems(Outgoing[n])
Parents(n)  == {p \in Nodes : n \in Children(p)}
-------------------------------------------------------------------------------
\* A workflow just loaded: no flag set, and the empty runtime of RuntimeStore.create.
Init ==
    /\ wf = [executed |-> {}, stored |-> {}, expecting |-> None, initiated |-> FALSE,
             progress |-> FALSE, terminated |-> FALSE, lock |-> None, trace |-> 0]
    /\ rt = [queue |-> <<>>, visited |-> {}, finished |-> FALSE]
    /\ root = 0 /\ ended = 0 /\ cleaning = {}
    /\ credits \in InitialCredits
    /\ pc = [w \in Workers |-> "idle"]
    /\ holds = {}
    /\ lwf = [w \in Workers |-> None]
    /\ lrt = [w \in Workers |-> None]
    /\ todo = [w \in Workers |-> {}]
    /\ at = [w \in Workers |-> None]
    /\ cpc = [c \in Clients |-> {}]
    /\ csaw = [c \in Clients |-> None]
    /\ started = [i \in 1..Linked |-> 0]
    /\ ran = [n \in Nodes |-> 0]
    /\ charged = [n \in Nodes |-> 0]
    /\ blind = {}
    /\ windows = {}
    /\ drawn = {}
    /\ spent = [init |-> 0, answer |-> 0, crash |-> 0, elsewhere |-> 0]

\* The constructor of Workflow puts the entry into a runtime never used.
Boot(r) == IF r.queue = <<>> /\ r.visited = {} /\ ~r.finished
           THEN [r EXCEPT !.queue = <<Entry>>] ELSE r

\* Workflow.isFinished, on a booted runtime.
IsFinished(r) == r.finished \/ r.queue = <<>>

GoTo(w, where) == pc' = [pc EXCEPT ![w] = where]

\* The handler of w is over: nothing of it stays in memory.
Return(w) ==
    /\ GoTo(w, "idle")
    /\ holds' = holds \ {w}
    /\ lwf' = [lwf EXCEPT ![w] = None]
    /\ lrt' = [lrt EXCEPT ![w] = None]
    /\ todo' = [todo EXCEPT ![w] = {}]
    /\ at' = [at EXCEPT ![w] = None]

\* The message of w goes back to the root queue, unless it was acked (nack of an
\* unknown message does nothing), and the handler is over.
Requeue(w) ==
    /\ root' = root + (IF w \in holds THEN 1 ELSE 0)
    /\ Return(w)

\* The catch of handleMessage: what threw changed no row.
Throws(w) ==
    /\ Requeue(w)
    /\ UNCHANGED <<rows, ended, cleaning, credits, client, history, spent>>
-------------------------------------------------------------------------------
\* A message is delivered to an idle worker; handleSanityCheck.  When one row is
\* missing the other is deleted too and the message is acked.  One step for reads and
\* deletes: rows are only ever deleted here, so that a later step sees no more of them.
Receive(w) ==
    /\ pc[w] = "idle"
    /\ root > 0
    /\ root' = root - 1
    /\ IF wf = None \/ rt = None
       THEN /\ wf' = None /\ rt' = None
            /\ UNCHANGED worker
       ELSE /\ GoTo(w, "isLocked")
            /\ holds' = holds \cup {w}
            /\ UNCHANGED <<rows, lwf, lrt, todo, at>>
    /\ UNCHANGED <<ended, cleaning, credits, client, history, spent>>

\* WorkflowStore.isLocked: only the worker's own name in a fresh lock refuses it,
\* and then the message is requeued.
IsLocked(w) ==
    /\ pc[w] = "isLocked"
    /\ IF wf # None /\ wf.lock = w
       THEN Throws(w)
       ELSE /\ GoTo(w, "lock")
            /\ UNCHANGED <<rows, queues, credits, holds, lwf, lrt, todo, at, client,
                           history, spent>>

\* WorkflowStore._lock overwrites the lock; a missing row throws.
Lock(w) ==
    /\ pc[w] = "lock"
    /\ IF wf = None THEN Throws(w)
       ELSE /\ wf' = [wf EXCEPT !.lock = w]
            /\ GoTo(w, "loadWf")
            /\ UNCHANGED <<rt, queues, credits, holds, lwf, lrt, todo, at, client,
                           history, spent>>

LoadWf(w) ==
    /\ pc[w] = "loadWf"
    /\ lwf' = [lwf EXCEPT ![w] = wf]
    /\ GoTo(w, "loadRt")
    /\ UNCHANGED <<rows, queues, credits, holds, lrt, todo, at, client, history, spent>>

\* Mutant of LoadRt: the length of the trace is not checked.
LoadRtAnyTrace(w) ==
    /\ pc[w] = "loadRt"
    /\ IF rt = None \/ lwf[w] = None THEN Throws(w)
       ELSE /\ lrt' = [lrt EXCEPT ![w] = Boot(rt)]
            /\ lwf' = [lwf EXCEPT ![w].progress = TRUE]
            /\ GoTo(w, IF IsFinished(Boot(rt)) THEN "finish" ELSE "clock")
            /\ UNCHANGED <<rows, queues, credits, holds, todo, at, client, history, spent>>

\* The second row is loaded and the Workflow is built; a missing row throws.  What
\* it finds decides: finished, too long a trace (the handler returns with its
\* message neither acked nor nacked and the lock held), or one more clock.
LoadRt(w) ==
    /\ pc[w] = "loadRt"
    /\ IF rt = None \/ lwf[w] = None THEN Throws(w)
       ELSE /\ lrt' = [lrt EXCEPT ![w] = Boot(rt)]
            /\ lwf' = [lwf EXCEPT ![w].progress = TRUE]
            /\ GoTo(w, IF IsFinished(Boot(rt)) THEN "finish"
                       ELSE IF lwf[w].trace >= MaxTrace THEN "stuck" ELSE "clock")
            /\ UNCHANGED <<rows, queues, credits, holds, todo, at, client, history, spent>>
-------------------------------------------------------------------------------
\* The node at the head of the loaded runtime, and that runtime once it is gone.
Turn(w)    == Head(lrt[w].queue)
Visited(w) == lrt[w].visited \cup {Turn(w)}
Rest(w)    == Tail(lrt[w].queue)

\* Mutant of After: finished one node too early.
AfterOneLeft(w, q) == [queue |-> q, visited |-> Visited(w), finished |-> Len(q) <= 1]

\* The runtime when the clock leaves the queue q.
After(w, q) == [queue |-> q, visited |-> Visited(w), finished |-> q = <<>>]

NeedsInput(w) == Turn(w) \in AwaitsInput \ lwf[w].stored

\* Workflow.clock on the loaded rows: waiting_for_input.
ClockWaits(w) ==
    /\ pc[w] = "clock"
    /\ NeedsInput(w)
    /\ GoTo(w, "ask")
    /\ UNCHANGED <<rows, queues, credits, holds, lwf, lrt, todo, at, client, history, spent>>

\* insufficient_credit, or a node that throws: the run is terminated.
ClockTerminates(w) ==
    /\ pc[w] = "clock"
    /\ ~NeedsInput(w)
    /\ credits = 0 \/ Turn(w) \in Fallible \ lwf[w].executed
    /\ GoTo(w, "terminate")
    /\ UNCHANGED <<rows, queues, credits, holds, lwf, lrt, todo, at, client, history, spent>>

\* ok, the node runs: it is marked executed and its children are scheduled.
ClockRuns(w) ==
    /\ pc[w] = "clock"
    /\ ~NeedsInput(w)
    /\ credits > 0
    /\ Turn(w) \notin lwf[w].executed
    /\ lwf' = [lwf EXCEPT ![w].executed = @ \cup {Turn(w)}, ![w].trace = @ + 1]
    /\ \E q \in Scheduled(Rest(w), Visited(w), Outgoing[Turn(w)]) :
          lrt' = [lrt EXCEPT ![w] = After(w, q)]
    /\ ran' = [ran EXCEPT ![Turn(w)] = @ + 1]
    /\ blind' = IF Turn(w) # Entry /\ Parents(Turn(w)) \cap lwf[w].executed = {}
                THEN blind \cup {Turn(w)} ELSE blind
    /\ at' = [at EXCEPT ![w] = Turn(w)]
    /\ todo' = [todo EXCEPT ![w] = {"wf", "rt"}]
    /\ GoTo(w, "save")
    /\ UNCHANGED <<rows, queues, credits, holds, client, started, charged,
                   windows, drawn, spent>>

\* ok, but the node was executed before: nothing is scheduled, and it is paid for.
ClockSkips(w) ==
    /\ pc[w] = "clock"
    /\ ~NeedsInput(w)
    /\ credits > 0
    /\ Turn(w) \in lwf[w].executed
    /\ lwf' = [lwf EXCEPT ![w].trace = @ + 1]
    /\ lrt' = [lrt EXCEPT ![w] = After(w, Rest(w))]
    /\ at' = [at EXCEPT ![w] = Turn(w)]
    /\ todo' = [todo EXCEPT ![w] = {"wf", "rt"}]
    /\ GoTo(w, "save")
    /\ UNCHANGED <<rows, queues, credits, holds, client, history, spent>>
-------------------------------------------------------------------------------
\* The next step of a Promise.all: when call was its last one, on to where.
Done(w, call, where) ==
    /\ todo' = [todo EXCEPT ![w] = @ \ {call}]
    /\ GoTo(w, IF todo[w] = {call} THEN where ELSE pc[w])

\* Mutant of SaveWf: the executed nodes are not written.
SaveWfWithoutNodes(w) ==
    /\ pc[w] = "save"
    /\ "wf" \in todo[w]
    /\ IF wf = None THEN Throws(w)
       ELSE /\ wf' = [wf EXCEPT !.progress = TRUE, !.trace = lwf[w].trace]
            /\ Done(w, "wf", "unlock")
            /\ UNCHANGED <<rt, queues, credits, holds, lwf, lrt, at, client, history, spent>>

\* handleInProgressWorkflow writes the whole definition it has loaded; keys that are
\* undefined in it (an empty storage, no question, no lock) leave the column alone.
SaveWf(w) ==
    /\ pc[w] = "save"
    /\ "wf" \in todo[w]
    /\ IF wf = None THEN Throws(w)
       ELSE /\ wf' = [lwf[w] EXCEPT
                        !.stored    = IF @ = {} THEN wf.stored ELSE @,
                        !.expecting = IF @ = None THEN wf.expecting ELSE @,
                        !.lock      = IF @ = None THEN wf.lock ELSE @]
            /\ Done(w, "wf", "unlock")
            /\ UNCHANGED <<rt, queues, credits, holds, lwf, lrt, at, client, history, spent>>

\* ... and the runtime; a missing row is left missing.
SaveRt(w) ==
    /\ pc[w] = "save"
    /\ "rt" \in todo[w]
    /\ rt' = IF rt = None THEN None ELSE lrt[w]
    /\ Done(w, "rt", "unlock")
    /\ UNCHANGED <<wf, queues, credits, holds, lwf, lrt, at, client, history, spent>>

\* releaseLock clears the lock, whoever holds it.
Unlock(w) ==
    /\ pc[w] = "unlock"
    /\ IF wf = None THEN Throws(w)
       ELSE /\ wf' = [wf EXCEPT !.lock = None]
            /\ GoTo(w, "charge")
            /\ UNCHANGED <<rt, queues, credits, holds, lwf, lrt, todo, at, client,
                           history, spent>>

\* Mutants of Charge: the message goes on although the balance was not reduced; the
\* next message is not enqueued.
ChargeSkipped(w) ==
    /\ pc[w] = "charge"
    /\ todo' = [todo EXCEPT ![w] = {"enqueue", "ack"}]
    /\ GoTo(w, "next")
    /\ UNCHANGED <<rows, queues, credits, holds, lwf, lrt, at, client, history, spent>>

ChargeNoNext(w) ==
    /\ pc[w] = "charge"
    /\ IF credits = 0 THEN Throws(w)
       ELSE /\ credits' = credits - 1
            /\ charged' = [charged EXCEPT ![at[w]] = @ + 1]
            /\ todo' = [todo EXCEPT ![w] = {"ack"}]
            /\ GoTo(w, "next")
            /\ UNCHANGED <<rows, queues, holds, lwf, lrt, at, client, started, ran,
                           blind, windows, drawn, spent>>

\* reduceCredits refuses a balance that is too low by now: that throws, with the step
\* saved, and the message that goes back goes on from there.
Charge(w) ==
    /\ pc[w] = "charge"
    /\ IF credits = 0 THEN Throws(w)
       ELSE /\ credits' = credits - 1
            /\ charged' = [charged EXCEPT ![at[w]] = @ + 1]
            /\ todo' = [todo EXCEPT ![w] = {"enqueue", "ack"}]
            /\ GoTo(w, "next")
            /\ UNCHANGED <<rows, queues, holds, lwf, lrt, at, client, started, ran,
                           blind, windows, drawn, spent>>

\* The call of a Promise.all that is the last one ends the handler.
DoneReturn(w, call) ==
    IF todo[w] = {call} THEN Return(w)
    ELSE /\ todo' = [todo EXCEPT ![w] = @ \ {call}]
         /\ holds' = IF call = "ack" THEN holds \ {w} ELSE holds
         /\ UNCHANGED <<pc, lwf, lrt, at>>

\* The message for the next clock is enqueued and this one is acked, in either order.
EnqueueNext(w) ==
    /\ pc[w] = "next"
    /\ "enqueue" \in todo[w]
    /\ root' = root + 1
    /\ DoneReturn(w, "enqueue")
    /\ UNCHANGED <<rows, ended, cleaning, credits, client, history, spent>>

Ack(w) ==
    /\ pc[w] \in {"next", "asked"}
    /\ "ack" \in todo[w]
    /\ DoneReturn(w, "ack")
    /\ UNCHANGED <<rows, queues, credits, client, history, spent>>
-------------------------------------------------------------------------------
\* handleWaitingForInput: the question and the trace are saved ...
Ask(w) ==
    /\ pc[w] = "ask"
    /\ IF wf = None THEN Throws(w)
       ELSE /\ wf' = [wf EXCEPT !.expecting = Turn(w), !.trace = lwf[w].trace + 1]
            /\ todo' = [todo EXCEPT ![w] = {"release", "ack"}]
            /\ GoTo(w, "asked")
            /\ UNCHANGED <<rt, queues, credits, holds, lwf, lrt, at, client, history, spent>>

\* ... then the lock is released and the message acked, in either order.
ReleaseAsked(w) ==
    /\ pc[w] = "asked"
    /\ "release" \in todo[w]
    /\ IF wf = None THEN Throws(w)
       ELSE /\ wf' = [wf EXCEPT !.lock = None]
            /\ DoneReturn(w, "release")
            /\ UNCHANGED <<rt, queues, credits, client, history, spent>>

\* handleTerminatedWorkflow: flags and trace only; neither the nodes nor the runtime
\* of the clock are saved.
Terminate(w) ==
    /\ pc[w] = "terminate"
    /\ IF wf = None THEN Throws(w)
       ELSE /\ wf' = [wf EXCEPT !.progress = FALSE, !.initiated = FALSE,
                                !.terminated = TRUE, !.lock = None,
                                !.trace = lwf[w].trace + 1]
            /\ GoTo(w, "terminated")
            /\ UNCHANGED <<rt, queues, credits, holds, lwf, lrt, todo, at, client,
                           history, spent>>

\* handleFinishedWorkflow: the flags.
Finish(w) ==
    /\ pc[w] = "finish"
    /\ IF wf = None THEN Throws(w)
       ELSE /\ wf' = [wf EXCEPT !.progress = FALSE, !.initiated = FALSE, !.lock = None]
            /\ GoTo(w, IF Linked = 0 THEN "linked" ELSE "link")
            /\ at' = [at EXCEPT ![w] = 1]
            /\ UNCHANGED <<rt, queues, credits, holds, lwf, lrt, todo, client, history, spent>>

\* ... one message for each linked workflow, in order.
Link(w) ==
    /\ pc[w] = "link"
    /\ started' = [started EXCEPT ![at[w]] = @ + 1]
    /\ at' = [at EXCEPT ![w] = @ + 1]
    /\ GoTo(w, IF at[w] = Linked THEN "linked" ELSE "link")
    /\ UNCHANGED <<rows, queues, credits, holds, lwf, lrt, todo, client, ran, charged,
                   blind, windows, drawn, spent>>

\* A workflow that ended is acked ...
AckEnded(w) ==
    /\ pc[w] \in {"terminated", "linked"}
    /\ holds' = holds \ {w}
    /\ GoTo(w, "cleanup")
    /\ UNCHANGED <<rows, queues, credits, lwf, lrt, todo, at, client, history, spent>>

\* ... and its cleanup is enqueued.
EnqueueEnded(w) ==
    /\ pc[w] = "cleanup"
    /\ ended' = ended + 1
    /\ Return(w)
    /\ UNCHANGED <<rows, root, cleaning, credits, client, history, spent>>
-------------------------------------------------------------------------------
\* handleCleanup, on any worker: both rows are deleted, in either order.  A crash in
\* between redelivers the message; the deletes are idempotent.
CleanupReceive ==
    /\ ended > 0
    /\ cleaning = {}
    /\ ended' = ended - 1
    /\ cleaning' = {"wf", "rt"}
    /\ UNCHANGED <<rows, root, credits, worker, client, history, spent>>

CleanupDelete(row) ==
    /\ row \in cleaning
    /\ cleaning' = cleaning \ {row}
    /\ wf' = IF row = "wf" THEN None ELSE wf
    /\ rt' = IF row = "rt" THEN None ELSE rt
    /\ UNCHANGED <<root, ended, credits, worker, client, history, spent>>

\* The lock is older than LOCK_TTL_MS: isLocked ignores it from now on.
LockExpires ==
    /\ wf # None
    /\ wf.lock # None
    /\ wf' = [wf EXCEPT !.lock = None]
    /\ UNCHANGED <<rt, queues, credits, worker, client, history, spent>>

\* A worker with a node that ran and is not paid for.
Owes(w) == pc[w] \in {"save", "unlock", "charge"}

\* The balance is the owner's, not the workflow's: the other workflows, images and CDP
\* accounts draw on it and grants raise it, between any two steps (Accounts.tla).
Elsewhere ==
    /\ spent.elsewhere < MaxElsewhere
    /\ spent' = [spent EXCEPT !.elsewhere = @ + 1]
    /\ credits' \in Balances \ {credits}
    /\ drawn' = drawn \cup {at[w] : w \in {v \in Workers : Owes(v) /\ credits' = 0}}
    /\ UNCHANGED <<rows, queues, worker, client, started, ran, charged, blind, windows>>

\* Where a crash of w now would fall: after the node ran and before anything of it
\* is saved; between the two rows; before it is paid for; after the next message is
\* enqueued, or the owner may cause one (an answer, a new start), and before this one
\* is acked; after it is acked and before the next one is enqueued.
Windows(w) ==
    CASE pc[w] = "save" /\ todo[w] = {"wf", "rt"} -> {"unsaved"}
      [] pc[w] = "save" /\ todo[w] # {"wf", "rt"} -> {"torn"}
      [] pc[w] \in {"unlock", "charge"}           -> {"unpaid"}
      [] \/ pc[w] = "next" /\ todo[w] = {"ack"}
         \/ pc[w] = "asked" /\ "ack" \in todo[w]
         \/ pc[w] = "terminated"                   -> {"twice"}
      [] pc[w] = "next" /\ todo[w] = {"enqueue"}  -> {"lost"}
      [] OTHER -> {}

\* A worker process dies and comes back, or the call it awaits fails, which throws: either
\* way nothing of the handler is left and an unacked message is delivered again.
Crash(w) ==
    /\ pc[w] # "idle"
    /\ spent.crash < MaxCrashes
    /\ spent' = [spent EXCEPT !.crash = @ + 1]
    /\ windows' = windows \cup Windows(w)
    /\ Requeue(w)
    /\ UNCHANGED <<rows, ended, cleaning, credits, client, started, ran, charged,
                   blind, drawn>>
-------------------------------------------------------------------------------
\* Mutant of CheckInitiate: the initiated flag is not looked at.
CheckInitiateAgain(c) ==
    /\ cpc[c] = {}
    /\ spent.init < MaxInitiations
    /\ wf # None /\ rt # None
    /\ ~wf.progress /\ ~IsFinished(Boot(rt))
    /\ spent' = [spent EXCEPT !.init = @ + 1]
    /\ cpc' = [cpc EXCEPT ![c] = {"initiate"}]
    /\ UNCHANGED <<rows, queues, credits, worker, csaw, history>>

\* The checks of POST /initiate on the rows it has read.
CheckInitiate(c) ==
    /\ cpc[c] = {}
    /\ spent.init < MaxInitiations
    /\ wf # None /\ rt # None
    /\ ~wf.initiated /\ ~wf.progress /\ ~IsFinished(Boot(rt))
    /\ spent' = [spent EXCEPT !.init = @ + 1]
    /\ cpc' = [cpc EXCEPT ![c] = {"initiate"}]
    /\ UNCHANGED <<rows, queues, credits, worker, csaw, history>>

\* handleInitiate: the flag, then the message.
Initiate(c) ==
    /\ cpc[c] = {"initiate"}
    /\ wf' = IF wf = None THEN None ELSE [wf EXCEPT !.initiated = TRUE]
    /\ cpc' = [cpc EXCEPT ![c] = IF wf = None THEN {} ELSE {"enqueue"}]
    /\ UNCHANGED <<rt, queues, credits, worker, csaw, history, spent>>

\* The checks of POST /externalInput: the answer is for the question of the row.
CheckAnswer(c) ==
    /\ cpc[c] = {}
    /\ spent.answer < MaxAnswers
    /\ wf # None /\ rt # None
    /\ ~IsFinished(Boot(rt))
    /\ wf.expecting # None
    /\ spent' = [spent EXCEPT !.answer = @ + 1]
    /\ cpc' = [cpc EXCEPT ![c] = {"answer", "enqueue"}]
    /\ csaw' = [csaw EXCEPT ![c] = wf]
    /\ UNCHANGED <<rows, queues, credits, worker, history>>

\* handleSubmitInputs: the storage it computed from the row it read is saved and the
\* question is cleared ...
SaveAnswer(c) ==
    /\ "answer" \in cpc[c]
    /\ wf' = IF wf = None THEN None
             ELSE [wf EXCEPT !.stored = csaw[c].stored \cup {csaw[c].expecting},
                             !.expecting = None]
    /\ cpc' = [cpc EXCEPT ![c] = @ \ {"answer"}]
    /\ csaw' = [csaw EXCEPT ![c] = None]
    /\ UNCHANGED <<rt, queues, credits, worker, history, spent>>

\* ... while the message is enqueued: neither waits for the other.  (Also the second
\* half of handleInitiate.)
EnqueueRequest(c) ==
    /\ "enqueue" \in cpc[c]
    /\ root' = root + 1
    /\ cpc' = [cpc EXCEPT ![c] = @ \ {"enqueue"}]
    /\ windows' = IF "answer" \in cpc[c] THEN windows \cup {"early"} ELSE windows
    /\ UNCHANGED <<rows, ended, cleaning, credits, worker, csaw, started, ran, charged,
                   blind, drawn, spent>>
-------------------------------------------------------------------------------
Handler(w) ==
    \/ Receive(w) \/ IsLocked(w) \/ Lock(w) \/ LoadWf(w) \/ LoadRt(w)
    \/ ClockWaits(w) \/ ClockTerminates(w) \/ ClockRuns(w) \/ ClockSkips(w)
    \/ SaveWf(w) \/ SaveRt(w) \/ Unlock(w) \/ Charge(w) \/ EnqueueNext(w) \/ Ack(w)
    \/ Ask(w) \/ ReleaseAsked(w)
    \/ Terminate(w) \/ Finish(w) \/ Link(w) \/ AckEnded(w) \/ EnqueueEnded(w)

Cleanup == CleanupReceive \/ \E row \in {"wf", "rt"} : CleanupDelete(row)

\* What a request still does once its checks have passed.
Request(c) == Initiate(c) \/ SaveAnswer(c) \/ EnqueueRequest(c)

Next ==
    \/ \E w \in Workers : Handler(w) \/ Crash(w)
    \/ \E c \in Clients : CheckInitiate(c) \/ CheckAnswer(c) \/ Request(c)
    \/ Cleanup
    \/ LockExpires
    \/ Elsewhere

Spec == Init /\ [][Next]_vars

(***************************************************************************)
(* Handlers that are running go on, queued messages are delivered, a       *)
(* request that passed its checks completes, and time passes.  No fairness *)
(* makes a user act or a worker crash.                                     *)
(***************************************************************************)
Fairness ==
    /\ \A w \in Workers : WF_vars(Handler(w))
    /\ \A c \in Clients : WF_vars(Request(c))
    /\ WF_vars(Cleanup)
    /\ WF_vars(LockExpires)

FairSpec == Spec /\ Fairness
-------------------------------------------------------------------------------
TypeOK ==
    /\ wf \in Row \cup {None} /\ rt \in RuntimeRow \cup {None}
    /\ root \in Nat /\ ended \in Nat /\ cleaning \subseteq {"wf", "rt"}
    /\ credits \in Nat
    /\ pc \in [Workers -> Pcs]
    /\ holds \subseteq Workers
    /\ lwf \in [Workers -> Row \cup {None}] /\ lrt \in [Workers -> RuntimeRow \cup {None}]
    /\ todo \in [Workers -> SUBSET {"wf", "rt", "enqueue", "ack", "release"}]
    /\ \A w \in Workers : pc[w] = "idle" => w \notin holds /\ todo[w] = {}
    /\ DOMAIN at = Workers
    /\ cpc \in [Clients -> SUBSET {"initiate", "answer", "enqueue"}]
    /\ csaw \in [Clients -> Row \cup {None}]
    /\ ran \in [Nodes -> Nat] /\ charged \in [Nodes -> Nat] /\ blind \subseteq Nodes
    /\ drawn \subseteq Nodes
    /\ windows \subseteq {"unsaved", "torn", "unpaid", "twice", "lost", "early"}

\* The worker is between taking the lock and handing the message on.
Working(w) == pc[w] \in {"loadWf", "loadRt", "clock", "save", "unlock"}

\* No message of the workflow is left anywhere: no handler and no request will
\* touch the workflow any more.
NoMessage ==
    /\ root = 0 /\ \A w \in Workers : pc[w] = "idle"
    /\ \A c \in Clients : cpc[c] = {}

\* No second message came up: no crash fell between enqueueing the next one and acking
\* the last, and the message of an answer came after the answer.
OneRound == windows \cap {"twice", "early"} = {}

(***************************************************************************)
(* One owner who does one thing at a time never has two workers on one     *)
(* workflow: there is one message for it, re-initiation included.  (An     *)
(* answer whose message is early is asked for again, and so may be given   *)
(* again when the workflow has already gone on with it.)                   *)
(***************************************************************************)
Exclusive ==
    OneRound => \A v, w \in Workers : Working(v) /\ Working(w) => v = w

(***************************************************************************)
(* A node completes once, unless a crash came after it ran and before its  *)
(* rows were saved, or there were two messages; and it is never paid for   *)
(* twice without the latter.  When all is quiet, what ran was paid for,    *)
(* unless a worker crashed, or the cleanup of an earlier termination took  *)
(* the rows away, or other uses of the owner's balance left nothing of it  *)
(* between the clock that found it enough and the charge: the charge is    *)
(* refused with the step saved, and the message it sends back goes on.     *)
(***************************************************************************)
ExactlyOnce ==
    /\ OneRound /\ "unsaved" \notin windows => \A n \in Nodes : ran[n] <= 1
    /\ OneRound => \A n \in Nodes : charged[n] <= 1
    /\ NoMessage /\ wf # None /\ windows = {} =>
          \A n \in Nodes : ran[n] = charged[n] \/ (n \in drawn /\ ran[n] = charged[n] + 1)

(***************************************************************************)
(* A runtime that says finished is right: the entry has run, and all the   *)
(* children of what has run.  Only a crash between the two saves (the next *)
(* worker finds the node executed and skips its children) or two messages  *)
(* can cut a workflow short.                                               *)
(***************************************************************************)
FinishedMeansAll ==
    /\ rt # None
    /\ rt.finished
    /\ OneRound /\ "torn" \notin windows
    => /\ ran[Entry] > 0
       /\ \A p \in Nodes : ran[p] > 0 => \A c \in Children(p) : ran[c] > 0

(***************************************************************************)
(* No node runs on nothing: it has the outputs of a parent in the          *)
(* definition the worker loaded, although definition and runtime are two   *)
(* rows, read and written one after the other.                             *)
(***************************************************************************)
NotBlind == OneRound /\ "torn" \notin windows => blind = {}

(***************************************************************************)
(* An initiated workflow that asks nothing has a message on its way, or    *)
(* nobody will ever move it again: /initiate refuses it and so does        *)
(* /externalInput.  It is stranded only by a crash between acking and      *)
(* enqueueing, or by an answer whose message was consumed before the       *)
(* answer was saved.  (A trace that is too long strands it too, but then   *)
(* the worker still has the message: it is "stuck", never idle.)           *)
(***************************************************************************)
Stranded ==
    /\ wf # None /\ rt # None /\ cleaning = {} /\ ended = 0
    /\ wf.initiated /\ wf.expecting = None
    /\ NoMessage

NoStranded == windows \cap {"lost", "early"} = {} => ~Stranded

\* Once initiated, a workflow ends, or is cleaned up, or asks something, or is stranded by
\* one of the two, or has a trace that is too long.
Settles ==
    (wf # None /\ wf.initiated)
        ~> \/ wf = None \/ ~wf.initiated \/ wf.expecting # None
           \/ windows \cap {"lost", "early"} # {}
           \/ \E w \in Workers : pc[w] = "stuck"

\* "Could not acquire lock on workflow ..., nacking + requeue" (worker.ts:110): a
\* workflow one worker has locked is not worked on by another.
LockExcludes == \A v, w \in Workers : Working(v) /\ Working(w) => v = w
===============================================================================
