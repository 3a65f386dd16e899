------------------------------- MODULE Admission -------------------------------
(***************************************************************************)
(* How workflows come into the system, are started and are removed: the    *)
(* batch store (workflow/src/batchStore.ts) and its routes, cron jobs      *)
(* (remote-server/src/cron.ts), /load and /initiate, the rows they create  *)
(* in two stores, and what the workers do to rows: drop the messages of    *)
(* those that are gone, start the linked ones, clean up.                   *)
(*                                                                         *)
(* Every step is the code between two awaits.  The rounds of clocks of one *)
(* workflow, its lock and its questions are RemoteWorker's (a cron job may *)
(* not ask any, cron.ts:100): here a worker that has the message of a      *)
(* workflow brings it to its end in one round, finds that it ended, or     *)
(* ends the round in one of the ways from which no other round follows, or *)
(* two do.  Identifiers are fresh (uuid), so no insert conflicts; a batch  *)
(* or a cron job holds a definition that the engine accepts.  A message    *)
(* that is queued may be delivered at any time, which covers every delay.  *)
(***************************************************************************)
EXTENDS Integers, FiniteSets

CONSTANTS
    Batches, Crons, Loads, \* requests that create workflows: POST /batch, cron, /load
    Size,           \* request -> workflows it creates
    Limit,          \* loops of allLimit (5 in the code)
    Deletions,      \* requests that delete a batch
    Target,         \* deletion -> the batch
    Clients,        \* /initiate and /schedule requests at the same time
    Workers,        \* messages in work at the same time
    Startable,      \* bound: the workflows clients initiate
    Long,           \* bound: the workflows that may fill their trace
    MaxRequests,    \* bound: creating requests
    MaxInitiations, \* bound: requests that pass the checks of /initiate
    MaxFaults,      \* bound: failed calls and crashes
    None            \* no workflow

Requests == Batches \cup Crons \cup Loads

\* Workflows are numbered in the request that creates them.
JobsOf(r) == {r} \X (1..Size[r])
Jobs == UNION {JobsOf(r) : r \in Requests}

ASSUME AdmissionAssumption ==
    /\ Size \in [Requests -> Nat \ {0}] /\ \A r \in Loads : Size[r] = 1
    /\ IsFiniteSet(Workers)
    /\ Batches \cap Crons = {} /\ Batches \cap Loads = {} /\ Crons \cap Loads = {}
    /\ Requests \cap Deletions = {} /\ Target \in [Deletions -> Batches]
    /\ Limit \in Nat \ {0} /\ None \notin Jobs
    /\ MaxRequests \in Nat /\ MaxInitiations \in Nat /\ MaxFaults \in Nat

VARIABLES
    wf, rt,     \* the workflows with a row in the workflow store, the runtime store
    notes,      \* the batches with a row and members in the batch store
    initiated,  \* the workflow rows whose isInitiated is set
    pc,         \* request or deletion -> where its handler stands
    answer,     \* request or deletion -> what its client was told
    calls,      \* the allLimit calls that run: whose, the tasks left, the loops left
    root,       \* workflow -> its messages in the root queue
    ended,      \* workflow -> its messages in the finished queue
    wpc, job,   \* worker -> where it stands, and its workflow
    cpc, want,  \* client -> where its request stands, and its workflow
    gone,       \* history: workflows whose removal began
    torn,       \* history: creating requests that a fault hit
    ran,        \* history: workflows whose runtime said finished
    failed,     \* history: workflows that were terminated
    hit,        \* history: kind of window -> workflows it was open for
    spent       \* bounds used up: [request, initiation, fault]

rows    == <<wf, rt, initiated>>
server  == <<pc, answer, calls>>
queues  == <<root, ended>>
worker  == <<wpc, job>>
client  == <<cpc, want>>
history == <<gone, torn, ran, failed, hit>>
vars == <<rows, notes, server, queues, worker, client, history, spent>>

Handlers == Requests \cup Deletions
Tasks == Jobs \X {"wf", "rt", "send"}

\* The windows through which a second message of a workflow comes, and all windows.
Doubling == {"unmarked", "raced", "early", "relinked", "twice"}
Windows == Doubling \cup {"stranded", "lost", "stuck"}

Fault == spent.fault < MaxFaults /\ spent' = [spent EXCEPT !.fault = @ + 1]

Hit(window, j) == hit' = [hit EXCEPT ![window] = @ \cup {j}]

GoTo(h, where) == pc' = [pc EXCEPT ![h] = where]

\* One of the windows was open for j, or for a run of its cron job before it.
Behind(windows, j) == \E i \in 1..j[2], k \in windows : <<j[1], i>> \in hit[k]

Enqueue(j) == root' = [root EXCEPT ![j] = @ + 1]
-------------------------------------------------------------------------------
Init ==
    /\ wf = {} /\ rt = {} /\ notes = {} /\ initiated = {}
    /\ pc = [h \in Handlers |-> "new"]
    /\ answer = [h \in Handlers |-> "none"]
    /\ calls = {}
    /\ root = [j \in Jobs |-> 0]
    /\ ended = [j \in Jobs |-> 0]
    /\ wpc = [w \in Workers |-> "idle"]
    /\ job = [w \in Workers |-> None]
    /\ cpc = [c \in Clients |-> "idle"]
    /\ want = [c \in Clients |-> None]
    /\ gone = {} /\ torn = {} /\ ran = {} /\ failed = {}
    /\ hit = [k \in Windows |-> {}]
    /\ spent = [request |-> 0, initiation |-> 0, fault |-> 0]
-------------------------------------------------------------------------------
(***************************************************************************)
(* allLimit: loops that take the tasks in their order; Promise.all over    *)
(* them.  When a task throws its loop ends, the caller gets the error, and *)
(* the other loops go on with all that is left.                            *)
(***************************************************************************)
Call(h, tasks) == [by |-> h, rest |-> tasks, loops |-> Limit]

Before(t, u) ==
    \/ t[1][2] < u[1][2]
    \/ t[1][2] = u[1][2] /\ t[2] = "wf" /\ u[2] = "rt"

\* The tasks the loops of the call are at.
Running(c) == {t \in c.rest : Cardinality({u \in c.rest : Before(u, t)}) < c.loops}

\* The calls once task t of c is done, and l loops of it are left.
Without(c, t, l) ==
    (calls \ {c}) \cup
        (IF l = 0 \/ c.rest = {t} THEN {}
         ELSE {[c EXCEPT !.rest = @ \ {t}, !.loops = l]})

\* All calls of h have returned, and none threw.
Returned(h) == pc[h] = "calls" /\ \A c \in calls : c.by # h

\* A task throws: its caller answers with an error, unless it has answered already.
TaskThrows(c, t) ==
    /\ c \in calls /\ t \in Running(c)
    /\ Fault
    /\ calls' = Without(c, t, c.loops - 1)
    /\ IF pc[c.by] = "calls"
       THEN GoTo(c.by, "done") /\ answer' = [answer EXCEPT ![c.by] = "error"]
       ELSE UNCHANGED <<pc, answer>>
    /\ torn' = torn \cup ({c.by} \cap Requests)
    /\ UNCHANGED <<rows, notes, queues, worker, client, gone, ran, failed, hit>>
-------------------------------------------------------------------------------
\* The rows of js are inserted together, or none is when one of them exists.
CreateBatchOrNone(store, js) == IF js \cap store = {} THEN store \cup js ELSE store

\* A request starts.
Started(r) ==
    /\ pc[r] = "new"
    /\ spent.request < MaxRequests
    /\ spent' = [spent EXCEPT !.request = @ + 1]

\* BatchStore.create, and the first middleware of /load: the workflow rows, in one
\* transaction, ...
CreateWorkflows(r) ==
    /\ r \in Batches \cup Loads
    /\ Started(r)
    /\ wf' = CreateBatchOrNone(wf, JobsOf(r))
    /\ GoTo(r, "runtimes")
    /\ UNCHANGED <<rt, initiated, notes, answer, calls, queues, worker, client,
                   history>>

\* ... the runtime rows, in another one, ...
CreateRuntimes(r) ==
    /\ r \in Batches
    /\ pc[r] = "runtimes"
    /\ rt' = CreateBatchOrNone(rt, JobsOf(r))
    /\ GoTo(r, "note")
    /\ UNCHANGED <<wf, initiated, notes, answer, calls, queues, worker, client,
                   history, spent>>

\* Mutant of CreateNote: the messages do not wait for the note, which is not written.
CreateNoteNever(r) ==
    /\ pc[r] = "note"
    /\ calls' = calls \cup {Call(r, JobsOf(r) \X {"send"})}
    /\ GoTo(r, "calls")
    /\ UNCHANGED <<rows, notes, answer, queues, worker, client, history, spent>>

\* ... and the batch with its members.  Then the messages are sent.
CreateNote(r) ==
    /\ pc[r] = "note"
    /\ notes' = notes \cup {r}
    /\ calls' = calls \cup {Call(r, JobsOf(r) \X {"send"})}
    /\ GoTo(r, "calls")
    /\ UNCHANGED <<rows, answer, queues, worker, client, history, spent>>

\* A loop enqueues the workflow of its task.
SendTask(c, t) ==
    /\ c \in calls /\ t \in Running(c) /\ t[2] = "send"
    /\ Enqueue(t[1])
    /\ calls' = Without(c, t, c.loops)
    /\ UNCHANGED <<rows, notes, pc, answer, ended, worker, client, history, spent>>

AnswerBatch(r) ==
    /\ r \in Batches
    /\ Returned(r)
    /\ GoTo(r, "done")
    /\ answer' = [answer EXCEPT ![r] = "ok"]
    /\ UNCHANGED <<rows, notes, calls, queues, worker, client, history, spent>>

\* /load: the runtime, then the check of the syntax, which may find a fault in what is
\* stored already.
LoadRuntime(r) ==
    /\ r \in Loads
    /\ pc[r] = "runtimes"
    /\ rt' = rt \cup JobsOf(r)
    /\ GoTo(r, "done")
    /\ \E a \in {"ok", "error"} : answer' = [answer EXCEPT ![r] = a]
    /\ UNCHANGED <<wf, initiated, notes, calls, queues, worker, client, history,
                   spent>>

\* A cron job: two calls at once, for the rows of its runs in both stores.
StartCron(r) ==
    /\ r \in Crons
    /\ Started(r)
    /\ calls' = calls \cup {Call(r, JobsOf(r) \X {"wf"}), Call(r, JobsOf(r) \X {"rt"})}
    /\ GoTo(r, "calls")
    /\ UNCHANGED <<rows, notes, answer, queues, worker, client, history>>

\* A loop creates a row.
InsertTask(c, t) ==
    /\ c \in calls /\ t \in Running(c) /\ c.by \in Crons
    /\ wf' = wf \cup (IF t[2] = "wf" THEN {t[1]} ELSE {})
    /\ rt' = rt \cup (IF t[2] = "rt" THEN {t[1]} ELSE {})
    /\ calls' = Without(c, t, c.loops)
    /\ UNCHANGED <<initiated, notes, pc, answer, queues, worker, client, history,
                   spent>>

\* Mutant of SendFirst: the rows are not waited for.
SendFirstAtOnce(r) ==
    /\ r \in Crons
    /\ pc[r] = "calls"
    /\ Enqueue(<<r, 1>>)
    /\ GoTo(r, "done")
    /\ answer' = [answer EXCEPT ![r] = "ok"]
    /\ UNCHANGED <<rows, notes, calls, ended, worker, client, history, spent>>

\* Then the first run is enqueued; each run starts the next one.
SendFirst(r) ==
    /\ r \in Crons
    /\ Returned(r)
    /\ Enqueue(<<r, 1>>)
    /\ GoTo(r, "done")
    /\ answer' = [answer EXCEPT ![r] = "ok"]
    /\ UNCHANGED <<rows, notes, calls, ended, worker, client, history, spent>>

\* A statement of a creation fails: an error, and what was created stays.
CreateThrows(r) ==
    /\ r \in Requests
    /\ \/ pc[r] \in {"runtimes", "note"}
       \/ r \in Crons /\ Returned(r)
    /\ Fault
    /\ GoTo(r, "done")
    /\ answer' = [answer EXCEPT ![r] = "error"]
    /\ torn' = torn \cup {r}
    /\ UNCHANGED <<rows, notes, calls, queues, worker, client, gone, ran, failed, hit>>

\* The server of a request dies: no answer, and its loops end.
ServerCrash(h) ==
    /\ pc[h] \notin {"new", "done"}
    /\ Fault
    /\ GoTo(h, "done")
    /\ calls' = {c \in calls : c.by # h}
    /\ torn' = torn \cup ({h} \cap Requests)
    /\ UNCHANGED <<rows, notes, answer, queues, worker, client, gone, ran, failed, hit>>
-------------------------------------------------------------------------------
\* A workflow row goes with its flag.
Remove(ws, rs) == wf' = wf \ ws /\ initiated' = initiated \ ws /\ rt' = rt \ rs

\* BatchStore.delete: the members are read and their rows deleted.  (Nobody knows the
\* identifier of a batch before its note can be listed.)
ReadNote(d) ==
    /\ d \in Deletions
    /\ pc[d] = "new" /\ pc[Target[d]] \in {"calls", "done"}
    /\ IF Target[d] \in notes
       THEN /\ calls' = calls \cup {Call(d, JobsOf(Target[d]) \X {"wf", "rt"})}
            /\ gone' = gone \cup JobsOf(Target[d])
       ELSE UNCHANGED <<calls, gone>>
    /\ GoTo(d, "calls")
    /\ UNCHANGED <<rows, notes, answer, queues, worker, client, torn, ran, failed, hit, spent>>

\* A loop deletes a row.
DeleteTask(c, t) ==
    /\ c \in calls /\ t \in Running(c) /\ c.by \in Deletions
    /\ Remove(IF t[2] = "wf" THEN {t[1]} ELSE {}, IF t[2] = "rt" THEN {t[1]} ELSE {})
    /\ calls' = Without(c, t, c.loops)
    /\ UNCHANGED <<notes, pc, answer, queues, worker, client, history, spent>>

\* 200 for the request that finds the note, 404 for another.
Status(d) == IF Target[d] \in notes THEN "ok" ELSE "missing"

\* Then the note goes, with its members.
RemoveNote(d) ==
    /\ d \in Deletions
    /\ Returned(d)
    /\ notes' = notes \ {Target[d]}
    /\ GoTo(d, "done")
    /\ answer' = [answer EXCEPT ![d] = Status(d)]
    /\ UNCHANGED <<rows, calls, queues, worker, client, history, spent>>
-------------------------------------------------------------------------------
\* Mutant of First: the link is not looked at.
FirstAny(j) == j \in Jobs

\* Both rows are found, and the constructor of Workflow, which rejected what /load answers
\* with an error, accepts them.
Known == {j \in wf \cap rt : j[1] \in Loads => answer[j[1]] # "error"}

\* The workflow is linked behind no other.
First(j) == j[1] \notin Crons \/ j[2] = 1

\* The messages of j that are queued or in work.
Messages(j) == root[j] + Cardinality({w \in Workers : job[w] = j})

\* The request of c passes: the second one for j, or while j is queued because it belongs
\* to a batch or a cron job (whose workflows carry no flag), or because it was terminated
\* and lost the flag before its message is acked.
Admitted(c, j) ==
    /\ cpc' = [cpc EXCEPT ![c] = "mark"]
    /\ want' = [want EXCEPT ![c] = j]
    /\ hit' = [k \in Windows |->
                  CASE \/ k = "raced" /\ \E o \in Clients : want[o] = j
                       \/ k = "unmarked" /\ j[1] \notin Loads
                       \/ k = "early" /\ j \in failed /\ Messages(j) > 0 -> hit[k] \cup {j}
                    [] OTHER -> hit[k]]

\* Mutant of Check: the flag is not looked at.
CheckFlagless(c, j) ==
    /\ cpc[c] = "idle"
    /\ j \in Known \ ran
    /\ First(j) /\ j \in Startable
    /\ spent.initiation < MaxInitiations
    /\ spent' = [spent EXCEPT !.initiation = @ + 1]
    /\ Admitted(c, j)
    /\ UNCHANGED <<rows, notes, server, queues, worker, gone, torn, ran, failed>>

\* The middlewares of /initiate and /schedule: the rows are there, and the workflow is
\* neither initiated nor finished nor linked behind another.  (They refuse one in progress
\* too, which narrows the windows; that flag is the worker's, and is left out.)
Check(c, j) ==
    /\ cpc[c] = "idle"
    /\ j \in (Known \ ran) \ initiated
    /\ First(j) /\ j \in Startable
    /\ spent.initiation < MaxInitiations
    /\ spent' = [spent EXCEPT !.initiation = @ + 1]
    /\ Admitted(c, j)
    /\ UNCHANGED <<rows, notes, server, queues, worker, gone, torn, ran, failed>>

Release(c) ==
    /\ cpc' = [cpc EXCEPT ![c] = "idle"]
    /\ want' = [want EXCEPT ![c] = None]

\* handleInitiate: the flag is set (an update of no row throws) ...
Mark(c) ==
    /\ cpc[c] = "mark"
    /\ LET j == want[c]
       IN IF j \notin wf
          THEN Release(c) /\ UNCHANGED initiated
          ELSE /\ initiated' = initiated \cup {j}
               /\ cpc' = [cpc EXCEPT ![c] = "send"]
               /\ UNCHANGED want
    /\ UNCHANGED <<wf, rt, notes, server, queues, worker, history, spent>>

\* ... and the workflow is enqueued.
Send(c) ==
    /\ cpc[c] = "send"
    /\ Enqueue(want[c])
    /\ Release(c)
    /\ UNCHANGED <<rows, notes, server, ended, worker, history, spent>>

\* The update or the enqueue throws, or the server dies.
InitiateThrows(c) ==
    /\ cpc[c] # "idle"
    /\ Fault
    /\ IF cpc[c] = "send" THEN Hit("stranded", want[c]) ELSE UNCHANGED hit
    /\ Release(c)
    /\ UNCHANGED <<rows, notes, server, queues, worker, gone, torn, ran, failed>>
-------------------------------------------------------------------------------
Message(w, where) == wpc' = [wpc EXCEPT ![w] = where]

Return(w) == Message(w, "idle") /\ job' = [job EXCEPT ![w] = None]

\* The workflow linked behind j.
Next1(j) == <<j[1], j[2] + 1>>
HasNext(j) == j[1] \in Crons /\ j[2] < Size[j[1]]

\* A message is delivered, and both rows are looked up.
Receive(w, j) ==
    /\ wpc[w] = "idle"
    /\ root[j] > 0
    /\ root' = [root EXCEPT ![j] = @ - 1]
    /\ Message(w, IF j \in wf \cap rt THEN "work" ELSE "sweep")
    /\ job' = [job EXCEPT ![w] = j]
    /\ UNCHANGED <<rows, notes, server, ended, client, history, spent>>

\* handleSanityCheck: one is missing, so that the other goes too, and the message.
Sweep(w) ==
    /\ wpc[w] = "sweep"
    /\ Remove({job[w]}, {job[w]})
    /\ gone' = gone \cup {job[w]}
    /\ Return(w)
    /\ UNCHANGED <<notes, server, queues, client, torn, ran, failed, hit, spent>>

\* A row the handler needs has gone meanwhile: it throws, and the message goes back.
Vanished(w) ==
    /\ wpc[w] = "work"
    /\ job[w] \notin wf \cap rt
    /\ Enqueue(job[w])
    /\ Return(w)
    /\ UNCHANGED <<rows, notes, server, ended, client, history, spent>>

\* The trace of j is full.  (Where two messages drive j, a worker that read it before may
\* write back a shorter one.)
Exhausted(j) == j \in hit["stuck"] /\ ~Behind(Doubling, j)

\* The trace has as many entries as it may have, and nothing says that the workflow is
\* finished: the handler returns, and its message is neither acked nor given back.
Stall(w) ==
    /\ wpc[w] = "work"
    /\ job[w] \in ((wf \cap rt) \ ran) \cap Long
    /\ Message(w, "stuck")
    /\ Hit("stuck", job[w])
    /\ UNCHANGED <<rows, notes, server, queues, job, client, gone, torn, ran, failed, spent>>

\* handleFinishedWorkflow: the workflow has come to its end, now or before.
Finish(w) ==
    /\ wpc[w] = "work"
    /\ job[w] \in wf \cap rt
    /\ job[w] \in ran \/ ~Exhausted(job[w])
    /\ initiated' = initiated \ {job[w]}
    /\ ran' = ran \cup {job[w]}
    /\ Message(w, IF HasNext(job[w]) THEN "link" ELSE "ack")
    /\ UNCHANGED <<wf, rt, notes, server, queues, job, client, gone, torn, failed, hit,
                   spent>>

\* handleTerminatedWorkflow: a node threw, or the credits ran out.
Terminate(w) ==
    /\ wpc[w] = "work"
    /\ job[w] \in (wf \cap rt) \ ran /\ ~Exhausted(job[w])
    /\ initiated' = initiated \ {job[w]}
    /\ failed' = failed \cup {job[w]}
    /\ Message(w, "ack")
    /\ UNCHANGED <<wf, rt, notes, server, queues, job, client, gone, torn, ran, hit, spent>>

\* Mutant of Link: a run that is linked is left to start by itself.
LinkNothing(w) ==
    /\ wpc[w] = "link"
    /\ Message(w, "linked")
    /\ UNCHANGED <<rows, notes, server, queues, job, client, history, spent>>

\* The next run is enqueued, ...
Link(w) ==
    /\ wpc[w] = "link"
    /\ Enqueue(Next1(job[w]))
    /\ Message(w, "linked")
    /\ UNCHANGED <<rows, notes, server, ended, job, client, history, spent>>

\* ... the message is acked and the cleanup ordered.  (Nobody sees what lies between.)
Ack(w) ==
    /\ wpc[w] \in {"ack", "linked"}
    /\ ended' = [ended EXCEPT ![job[w]] = @ + 1]
    /\ Return(w)
    /\ UNCHANGED <<rows, notes, server, root, client, history, spent>>

\* A call of the handler throws, or its worker dies: the message goes back, unless it had
\* just been acked, and then no cleanup is ordered.
WorkerFails(w) ==
    /\ wpc[w] # "idle"
    /\ Fault
    /\ \/ Enqueue(job[w])
       \/ wpc[w] \in {"ack", "linked"} /\ UNCHANGED root
    /\ IF wpc[w] = "linked" THEN Hit("relinked", Next1(job[w])) ELSE UNCHANGED hit
    /\ Return(w)
    /\ UNCHANGED <<rows, notes, server, ended, client, gone, torn, ran, failed>>

\* handleInProgressWorkflow, at the end of a clock: of the two calls that ack the message
\* and enqueue the next one, only one takes effect.
HalfSettled(w) ==
    /\ wpc[w] = "work"
    /\ job[w] \in (wf \cap rt) \ ran /\ ~Exhausted(job[w])
    /\ Fault
    /\ Return(w)
    /\ UNCHANGED <<rows, notes, server, ended, client, gone, torn, ran, failed>>

\* The ack: nothing drives the workflow any more.
AckOnly(w) == HalfSettled(w) /\ Hit("lost", job[w]) /\ UNCHANGED root

\* The enqueue: the old message comes back, and there are two.
EnqueueOnly(w) ==
    /\ HalfSettled(w)
    /\ Hit("twice", job[w])
    /\ root' = [root EXCEPT ![job[w]] = @ + 2]

\* handleCleanup: both rows of a workflow that ended are deleted.
Cleanup(j) ==
    /\ ended[j] > 0
    /\ ended' = [ended EXCEPT ![j] = @ - 1]
    /\ Remove({j}, {j})
    /\ gone' = gone \cup {j}
    /\ UNCHANGED <<notes, server, root, worker, client, torn, ran, failed, hit, spent>>
-------------------------------------------------------------------------------
Create(r) ==
    \/ CreateWorkflows(r) \/ CreateRuntimes(r) \/ CreateNote(r) \/ AnswerBatch(r)
    \/ LoadRuntime(r) \/ StartCron(r) \/ SendFirst(r)

Delete(d) == ReadNote(d) \/ RemoveNote(d)

Loop(c) == \E t \in c.rest : SendTask(c, t) \/ InsertTask(c, t) \/ DeleteTask(c, t)

Initiate(c) == (\E j \in Jobs : Check(c, j)) \/ Mark(c) \/ Send(c)

Work(w) ==
    \/ \E j \in Jobs : Receive(w, j)
    \/ Sweep(w) \/ Vanished(w) \/ Stall(w) \/ Finish(w) \/ Terminate(w) \/ Link(w) \/ Ack(w)

Failure ==
    \/ \E c \in calls : \E t \in c.rest : TaskThrows(c, t)
    \/ \E r \in Requests : CreateThrows(r)
    \/ \E h \in Handlers : ServerCrash(h)
    \/ \E c \in Clients : InitiateThrows(c)
    \/ \E w \in Workers : WorkerFails(w) \/ AckOnly(w) \/ EnqueueOnly(w)

Next ==
    \/ \E r \in Requests : Create(r)
    \/ \E d \in Deletions : Delete(d)
    \/ \E c \in calls : Loop(c)
    \/ \E c \in Clients : Initiate(c)
    \/ \E w \in Workers : Work(w)
    \/ \E j \in Jobs : Cleanup(j)
    \/ Failure

Spec == Init /\ [][Next]_vars

\* What a worker has to do it does, and messages are delivered.  Nothing makes a client
\* act or a call fail, and no time is promised to a cleanup.
Fairness == \A w \in Workers : WF_vars(Work(w))

FairSpec == Spec /\ Fairness
-------------------------------------------------------------------------------
TypeOK ==
    /\ wf \subseteq Jobs /\ rt \subseteq Jobs
    /\ notes \subseteq Batches
    /\ initiated \subseteq wf
    /\ pc \in [Handlers -> {"new", "runtimes", "note", "calls", "done"}]
    /\ answer \in [Handlers -> {"none", "ok", "error", "missing"}]
    /\ calls \subseteq [by : Handlers, rest : SUBSET Tasks, loops : 1..Limit]
    /\ root \in [Jobs -> Nat]
    /\ ended \in [Jobs -> Nat]
    /\ wpc \in [Workers -> {"idle", "work", "sweep", "stuck", "link", "linked", "ack"}]
    /\ job \in [Workers -> Jobs \cup {None}]
    /\ \A w \in Workers : wpc[w] = "idle" <=> job[w] = None
    /\ \A w \in Workers : wpc[w] \in {"link", "linked"} => HasNext(job[w])
    /\ cpc \in [Clients -> {"idle", "mark", "send"}]
    /\ want \in [Clients -> Jobs \cup {None}]
    /\ \A c \in Clients : cpc[c] = "idle" <=> want[c] = None
    /\ gone \subseteq Jobs /\ torn \subseteq Requests
    /\ ran \subseteq Jobs /\ failed \subseteq Jobs
    /\ hit \in [Windows -> SUBSET Jobs]
    /\ spent \in [request : Nat, initiation : Nat, fault : Nat]

(***************************************************************************)
(* A message names a workflow that has both its rows, or whose removal has *)
(* begun: the rows come first, whichever of the two stores is slower.  If  *)
(* they did not, handleSanityCheck would delete the one it finds.  Only a  *)
(* client who initiates the first run of a cron job that is still being    *)
(* created can be faster.                                                  *)
(***************************************************************************)
RowsBeforeMessage ==
    \A j \in Jobs \ gone :
        Messages(j) > 0 => j \in wf \cap rt \/ Behind({"unmarked"}, j)

(***************************************************************************)
(* No row is out of reach: a workflow of a batch is named by its note, a   *)
(* workflow has its runtime, unless the request that creates them is still *)
(* at it or was hit by a fault, or (for the second) its removal began.     *)
(* And a batch that was deleted with a 200 has left no row, whoever sends  *)
(* or runs its workflows meanwhile.                                        *)
(***************************************************************************)
NoOrphans ==
    /\ \A r \in (Batches \ notes) \ torn :
           JobsOf(r) \cap (wf \cup rt) # {} => pc[r] \in {"runtimes", "note"}
    /\ \A j \in (wf \ rt) \cup (rt \ wf) :
           j \in gone \/ j[1] \in torn \/ pc[j[1]] \in {"runtimes", "calls"}
    /\ \A d \in Deletions :
           answer[d] = "ok" => JobsOf(Target[d]) \cap (wf \cup rt) = {}

\* A run of a cron job has a message only once the run before it has finished.
ChainOrder == \A j \in Jobs : HasNext(j) /\ Messages(Next1(j)) > 0 => j \in ran

(***************************************************************************)
(* A workflow is driven by one message: an initiated one by at least one,  *)
(* unless /initiate died on its way from the flag to the queue, or a       *)
(* worker between the ack of a message and the enqueue of the next one;    *)
(* any one by at most one, unless two requests passed the checks, or one   *)
(* passed them because a queued workflow of a batch or a cron job has no   *)
(* flag, or because a terminated one lost it before the ack, or a worker   *)
(* died with a message enqueued and the one before not acked, or after it  *)
(* linked this run or one before it.  And linked runs keep their order.    *)
(***************************************************************************)
OneMessage ==
    /\ \A j \in Jobs :
           /\ j \in initiated \ (hit["stranded"] \cup hit["lost"]) =>
                 Messages(j) > 0 \/ \E c \in Clients : want[c] = j /\ cpc[c] = "send"
           /\ Messages(j) <= 1 \/ Behind(Doubling, j)
    /\ ChainOrder

\* A run of r was terminated, or lost its message between an ack and an enqueue, or has
\* filled its trace, so that no other follows.
BrokenOff(r) == JobsOf(r) \cap (failed \cup hit["lost"] \cup hit["stuck"]) # {}

(***************************************************************************)
(* A cron job that was answered with 200 runs all its workflows, or up to  *)
(* one that broke off, whatever else fails in the workers, unless a client *)
(* initiated the first run himself, or every worker sits on a message that *)
(* it neither acks nor gives back (each takes one at a time).              *)
(***************************************************************************)
CronGoesOn ==
    \A r \in Crons :
        answer[r] = "ok" ~> \/ JobsOf(r) \subseteq ran \/ BrokenOff(r)
                            \/ <<r, 1>> \in hit["unmarked"]
                            \/ \A w \in Workers : wpc[w] = "stuck"
===============================================================================
