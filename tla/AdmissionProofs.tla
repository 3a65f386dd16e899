---------------------------- MODULE AdmissionProofs ----------------------------
(***************************************************************************)
(* Theorems about Admission, for any batches, cron jobs, workflows loaded, *)
(* workers, clients and deletions, and any number of faults.               *)
(*                                                                         *)
(* In order: the types, and what the calls of allLimit still have to do;   *)
(* that rows come before messages (RowsInv); that no row is out of reach   *)
(* (NotesInv); and that a workflow is driven by one message (DrivenInv).   *)
(***************************************************************************)
EXTENDS Admission, FiniteSetTheorems, TLAPS

LEMMA JobFacts ==
    /\ \A r \in Requests : JobsOf(r) \subseteq Jobs /\ <<r, 1>> \in JobsOf(r)
    /\ \A j \in Jobs : j[1] \in Requests /\ j[2] \in Nat \ {0} /\ j = <<j[1], j[2]>>
    /\ \A r \in Requests, j \in Jobs : j \in JobsOf(r) <=> j[1] = r
    /\ \A j \in Jobs : HasNext(j) => /\ Next1(j) \in Jobs
                                     /\ Next1(j)[1] = j[1] /\ Next1(j)[2] = j[2] + 1
    /\ \A r \in Loads : JobsOf(r) = {<<r, 1>>}
<1>1. \A r \in Requests : JobsOf(r) \subseteq Jobs /\ <<r, 1>> \in JobsOf(r)
  BY AdmissionAssumption DEF Jobs, JobsOf
<1>2. ASSUME NEW j \in Jobs
      PROVE  j[1] \in Requests /\ j[2] \in 1..Size[j[1]] /\ j = <<j[1], j[2]>>
  <2>1. PICK r \in Requests : j \in JobsOf(r)
    BY DEF Jobs
  <2>2. QED
    BY <2>1 DEF JobsOf
<1>3. \A r \in Requests, j \in Jobs : j \in JobsOf(r) <=> j[1] = r
  BY <1>2 DEF JobsOf
<1>4. ASSUME NEW j \in Jobs, HasNext(j)
      PROVE  Next1(j) \in Jobs
  <2>1. Next1(j) \in JobsOf(j[1])
    BY <1>2, <1>4, AdmissionAssumption DEF HasNext, Next1, JobsOf, Requests
  <2>2. QED
    BY <1>1, <1>2, <2>1
<1>5. \A r \in Loads : JobsOf(r) = {<<r, 1>>}
  BY AdmissionAssumption DEF JobsOf, Requests
<1>6. \A j \in Jobs : j[2] \in Nat \ {0}
  BY <1>2, AdmissionAssumption
<1>7. QED
  BY <1>1, <1>2, <1>3, <1>4, <1>5, <1>6 DEF Next1

\* What the calls of each handler are for.
Tasked ==
    \A c \in calls :
       /\ pc[c.by] \in {"calls", "done"} /\ c.by \notin Loads
       /\ c.by \in Batches => c.rest \subseteq JobsOf(c.by) \X {"send"}
       /\ c.by \in Crons => c.rest \subseteq JobsOf(c.by) \X {"wf", "rt"}
       /\ c.by \in Deletions => c.rest \subseteq JobsOf(Target[c.by]) \X {"wf", "rt"}

\* Where each handler can stand.
Stands ==
    /\ \A r \in Requests : /\ pc[r] = "runtimes" => r \notin Crons
                           /\ pc[r] = "note" => r \in Batches
                           /\ pc[r] = "calls" => r \notin Loads
    /\ \A d \in Deletions : pc[d] \notin {"runtimes", "note"}

\* The inductive invariant of the types.
TypeInv == TypeOK /\ Tasked /\ Stands

\* Who moves.
ServerStep ==
    \/ \E r \in Requests : Create(r) \/ CreateThrows(r)
    \/ \E d \in Deletions : Delete(d)
    \/ \E c \in calls : Loop(c)
    \/ \E c \in calls : \E t \in c.rest : TaskThrows(c, t)
    \/ \E h \in Handlers : ServerCrash(h)

ClientStep(c) == Initiate(c) \/ InitiateThrows(c)

WorkerStep(w) == Work(w) \/ WorkerFails(w) \/ AckOnly(w) \/ EnqueueOnly(w)

LEMMA WhoMoves ==
    [Next]_vars <=> \/ ServerStep
                    \/ \E c \in Clients : ClientStep(c)
                    \/ \E w \in Workers : WorkerStep(w)
                    \/ \E j \in Jobs : Cleanup(j)
                    \/ UNCHANGED vars
  BY DEF Next, Failure, ServerStep, ClientStep, WorkerStep

\* What is left of the calls when a loop is done with a task, or failed.
LEMMA WithoutFacts ==
    ASSUME TypeInv, NEW c \in calls, NEW t \in c.rest, NEW l \in {c.loops, c.loops - 1}
    PROVE  /\ Without(c, t, l) \subseteq [by : Handlers, rest : SUBSET Tasks, loops : 1..Limit]
           /\ \A e \in Without(c, t, l) :
                 \/ e \in calls \ {c}
                 \/ e.by = c.by /\ e.rest = c.rest \ {t}
           /\ \A e \in calls : e = c \/ e \in Without(c, t, l)
           /\ l = c.loops => \A u \in c.rest \ {t} :
                                 \E e \in Without(c, t, l) : e.by = c.by /\ u \in e.rest
<1> DEFINE e0 == [c EXCEPT !.rest = @ \ {t}, !.loops = l]
<1>1. c \in [by : Handlers, rest : SUBSET Tasks, loops : 1..Limit]
  BY DEF TypeInv, TypeOK
<1>2. Limit \in Nat
  BY AdmissionAssumption
<1>3. e0.by = c.by /\ e0.rest = c.rest \ {t} /\ e0.loops = l
  BY <1>1
<1>4. l # 0 => e0 \in [by : Handlers, rest : SUBSET Tasks, loops : 1..Limit]
  <2>1. c.by \in Handlers /\ c.rest \ {t} \in SUBSET Tasks
    BY <1>1
  <2>2. l # 0 => l \in 1..Limit
    BY <1>1, <1>2
  <2>3. QED
    BY <1>1, <2>1, <2>2
<1>5. calls \subseteq [by : Handlers, rest : SUBSET Tasks, loops : 1..Limit]
  BY DEF TypeInv, TypeOK
<1>6. Without(c, t, l) = (calls \ {c}) \cup (IF l = 0 \/ c.rest = {t} THEN {} ELSE {e0})
  BY DEF Without
<1>7. l = c.loops => l # 0
  BY <1>1, <1>2
<1>8. QED
  <2> HIDE DEF e0
  <2> QED
    BY <1>3, <1>4, <1>5, <1>6, <1>7

LEMMA CallFacts ==
    ASSUME NEW h \in Handlers, NEW S \in SUBSET Tasks
    PROVE  /\ Call(h, S) \in [by : Handlers, rest : SUBSET Tasks, loops : 1..Limit]
           /\ Call(h, S).by = h /\ Call(h, S).rest = S
<1>1. Limit \in 1..Limit
  BY AdmissionAssumption
<1>2. QED
  BY <1>1 DEF Call

LEMMA TaskFacts ==
    ASSUME NEW r \in Requests
    PROVE  /\ JobsOf(r) \X {"send"} \in SUBSET Tasks
           /\ JobsOf(r) \X {"wf"} \in SUBSET Tasks
           /\ JobsOf(r) \X {"rt"} \in SUBSET Tasks
           /\ JobsOf(r) \X {"wf", "rt"} \in SUBSET Tasks
  BY JobFacts DEF Tasks
-------------------------------------------------------------------------------
\* Who changes what.
LEMMA RowMoves ==
    [Next]_vars =>
       \/ UNCHANGED <<wf, rt, notes, initiated>>
       \/ \E r \in Requests : \/ CreateWorkflows(r) \/ CreateRuntimes(r)
                              \/ CreateNote(r) \/ LoadRuntime(r)
       \/ \E c \in calls : \E t \in c.rest : InsertTask(c, t) \/ DeleteTask(c, t)
       \/ \E d \in Deletions : RemoveNote(d)
       \/ \E c \in Clients : Mark(c)
       \/ \E w \in Workers : Sweep(w) \/ Finish(w) \/ Terminate(w)
       \/ \E j \in Jobs : Cleanup(j)
  BY DEF Next, Failure, Create, Delete, Loop, Initiate, Work, CreateWorkflows,
         CreateRuntimes, CreateNote, SendTask, AnswerBatch, LoadRuntime, StartCron,
         InsertTask, SendFirst, TaskThrows, CreateThrows, ServerCrash, ReadNote, DeleteTask,
         RemoveNote, Check, Admitted, Mark, Send, InitiateThrows, Receive, Sweep, Vanished,
         Stall, Finish, Terminate, Link, Ack, WorkerFails, AckOnly, EnqueueOnly,
         HalfSettled, Cleanup, rows, server, queues, worker, client, history, vars

LEMMA ServerMoves ==
    [Next]_vars =>
       \/ UNCHANGED server
       \/ \E r \in Requests : Create(r) \/ CreateThrows(r)
       \/ \E d \in Deletions : Delete(d)
       \/ \E c \in calls : \E t \in c.rest : \/ SendTask(c, t) \/ InsertTask(c, t)
                                             \/ DeleteTask(c, t) \/ TaskThrows(c, t)
       \/ \E h \in Handlers : ServerCrash(h)
  BY DEF Next, Failure, Loop, Initiate, Work, Check, Mark, Send, InitiateThrows, Receive,
         Sweep, Vanished, Stall, Finish, Terminate, Link, Ack, WorkerFails, AckOnly,
         EnqueueOnly, HalfSettled, Cleanup, vars

LEMMA OthersMove ==
    ASSUME [Next]_vars
    PROVE  /\ UNCHANGED worker \/ \E w \in Workers : WorkerStep(w)
           /\ UNCHANGED client \/ \E c \in Clients : ClientStep(c)
<1>1. ServerStep \/ (\E j \in Jobs : Cleanup(j)) => UNCHANGED <<worker, client>>
  BY DEF ServerStep, Create, Delete, Loop, CreateWorkflows, CreateRuntimes, CreateNote,
         SendTask, AnswerBatch, LoadRuntime, StartCron, InsertTask, SendFirst, TaskThrows,
         CreateThrows, ServerCrash, ReadNote, DeleteTask, RemoveNote, Cleanup
<1>2. ASSUME NEW c \in Clients, ClientStep(c) PROVE UNCHANGED worker
  BY <1>2 DEF ClientStep, Initiate, Check, Mark, Send, InitiateThrows
<1>3. ASSUME NEW w \in Workers, WorkerStep(w) PROVE UNCHANGED client
  BY <1>3 DEF WorkerStep, Work, Receive, Sweep, Vanished, Stall, Finish, Terminate, Link,
              Ack, WorkerFails, AckOnly, EnqueueOnly, HalfSettled
<1>4. QED
  BY <1>1, <1>2, <1>3, WhoMoves DEF vars
-------------------------------------------------------------------------------
RowTypeOK ==
    /\ wf \subseteq Jobs /\ rt \subseteq Jobs
    /\ notes \subseteq Batches /\ initiated \subseteq wf

LEMMA RowTypes ==
    ASSUME TypeInv, [Next]_vars
    PROVE  RowTypeOK'
<1> USE DEF TypeInv, TypeOK, RowTypeOK
<1>1. CASE UNCHANGED <<wf, rt, notes, initiated>>
  BY <1>1
<1>2. ASSUME NEW r \in Requests,
             CreateWorkflows(r) \/ CreateRuntimes(r) \/ CreateNote(r) \/ LoadRuntime(r)
      PROVE  RowTypeOK'
  <2>1. JobsOf(r) \subseteq Jobs
    BY JobFacts
  <2>2. CASE CreateWorkflows(r)
    BY <2>1, <2>2 DEF CreateWorkflows, CreateBatchOrNone
  <2>3. CASE CreateRuntimes(r)
    BY <2>1, <2>3 DEF CreateRuntimes, CreateBatchOrNone
  <2>4. CASE CreateNote(r)
    BY <2>4 DEF CreateNote, rows, Stands
  <2>5. CASE LoadRuntime(r)
    BY <2>1, <2>5 DEF LoadRuntime
  <2>6. QED
    BY <1>2, <2>2, <2>3, <2>4, <2>5
<1>3. ASSUME NEW c \in calls, NEW t \in c.rest, InsertTask(c, t) \/ DeleteTask(c, t)
      PROVE  RowTypeOK'
  <2>1. t[1] \in Jobs
    BY DEF Tasks
  <2>2. CASE InsertTask(c, t)
    BY <2>1, <2>2 DEF InsertTask
  <2>3. CASE DeleteTask(c, t)
    BY <2>3 DEF DeleteTask, Remove
  <2>4. QED
    BY <1>3, <2>2, <2>3
<1>4. ASSUME \/ \E d \in Deletions : RemoveNote(d)
             \/ \E c \in Clients : Mark(c)
             \/ \E w \in Workers : Sweep(w) \/ Finish(w) \/ Terminate(w)
             \/ \E j \in Jobs : Cleanup(j)
      PROVE  RowTypeOK'
  BY <1>4 DEF RemoveNote, Mark, Sweep, Finish, Terminate, Cleanup, Remove, rows
<1>5. QED
  BY <1>1, <1>2, <1>3, <1>4, RowMoves

LEMMA QueueTypes ==
    ASSUME TypeInv, [Next]_vars
    PROVE  (root \in [Jobs -> Nat] /\ ended \in [Jobs -> Nat])'
<1>1. root \in [Jobs -> Nat] /\ ended \in [Jobs -> Nat]
  BY DEF TypeInv, TypeOK
<1>2. \/ UNCHANGED root \/ (\E j : Enqueue(j))
      \/ \E w \in Workers, j \in Jobs : Receive(w, j)
      \/ \E j : root' = [root EXCEPT ![j] = @ + 2]
  BY DEF Next, Failure, Create, Delete, Loop, Initiate, Work, CreateWorkflows,
         CreateRuntimes, CreateNote, SendTask, AnswerBatch, LoadRuntime, StartCron,
         InsertTask, SendFirst, TaskThrows, CreateThrows, ServerCrash, ReadNote, DeleteTask,
         RemoveNote, Check, Admitted, Mark, Send, InitiateThrows, Receive, Sweep, Vanished,
         Stall, Finish, Terminate, Link, Ack, WorkerFails, AckOnly, EnqueueOnly,
         HalfSettled, Cleanup, rows, server, queues, worker, client, history, vars
<1>3. UNCHANGED ended \/ (\E w \in Workers : Ack(w)) \/ (\E j \in Jobs : Cleanup(j))
  BY DEF Next, Failure, Create, Delete, Loop, Initiate, Work, CreateWorkflows,
         CreateRuntimes, CreateNote, SendTask, AnswerBatch, LoadRuntime, StartCron,
         InsertTask, SendFirst, TaskThrows, CreateThrows, ServerCrash, ReadNote, DeleteTask,
         RemoveNote, Check, Admitted, Mark, Send, InitiateThrows, Receive, Sweep, Vanished,
         Stall, Finish, Terminate, Link, Ack, WorkerFails, AckOnly, EnqueueOnly,
         HalfSettled, Cleanup, rows, server, queues, worker, client, history, vars
<1>4. root' \in [Jobs -> Nat]
  BY <1>1, <1>2 DEF Enqueue, Receive
<1>5. ended' \in [Jobs -> Nat]
  <2>1. CASE \E w \in Workers : Ack(w)
    <3>1. PICK w \in Workers : /\ wpc[w] # "idle"
                               /\ ended' = [ended EXCEPT ![job[w]] = @ + 1]
      BY <2>1 DEF Ack
    <3>2. job[w] \in Jobs
      BY <3>1 DEF TypeInv, TypeOK
    <3>3. QED
      BY <1>1, <3>1, <3>2
  <2>2. CASE \E j \in Jobs : Cleanup(j)
    <3>1. PICK j \in Jobs : ended[j] > 0 /\ ended' = [ended EXCEPT ![j] = @ - 1]
      BY <2>2 DEF Cleanup
    <3>2. QED
      BY <1>1, <3>1
  <2>3. QED
    BY <1>1, <1>3, <2>1, <2>2
<1>6. QED
  BY <1>4, <1>5

LEMMA WorkerTypes ==
    ASSUME TypeInv, [Next]_vars
    PROVE  /\ wpc' \in [Workers -> {"idle", "work", "sweep", "stuck", "link", "linked", "ack"}]
           /\ job' \in [Workers -> Jobs \cup {None}]
           /\ \A w \in Workers : wpc'[w] = "idle" <=> job'[w] = None
           /\ \A w \in Workers : wpc'[w] \in {"link", "linked"} => HasNext(job'[w])
<1> USE DEF TypeInv, TypeOK
<1>1. None \notin Jobs
  BY AdmissionAssumption
<1>2. CASE UNCHANGED worker
  BY <1>2 DEF worker
<1>3. ASSUME NEW w \in Workers, WorkerStep(w)
      PROVE  /\ wpc' \in [Workers -> {"idle", "work", "sweep", "stuck", "link", "linked", "ack"}]
             /\ job' \in [Workers -> Jobs \cup {None}]
             /\ \A v \in Workers : wpc'[v] = "idle" <=> job'[v] = None
             /\ \A v \in Workers : wpc'[v] \in {"link", "linked"} => HasNext(job'[v])
  <2>1. CASE \E j \in Jobs : Receive(w, j)
    BY <1>1, <2>1 DEF Receive, Message
  <2>2. CASE \/ Sweep(w) \/ Vanished(w) \/ Ack(w) \/ WorkerFails(w)
           \/ AckOnly(w) \/ EnqueueOnly(w)
    BY <1>1, <2>2 DEF Sweep, Vanished, Ack, WorkerFails, AckOnly, EnqueueOnly, HalfSettled,
                      Message, Return
  <2>3. CASE Stall(w) \/ Finish(w) \/ Terminate(w) \/ Link(w)
    BY <1>1, <2>3 DEF Stall, Finish, Terminate, Link, Message
  <2>4. QED
    BY <1>3, <2>1, <2>2, <2>3 DEF WorkerStep, Work
<1>4. QED
  BY <1>2, <1>3, OthersMove

LEMMA ClientTypes ==
    ASSUME TypeInv, [Next]_vars
    PROVE  /\ cpc' \in [Clients -> {"idle", "mark", "send"}]
           /\ want' \in [Clients -> Jobs \cup {None}]
           /\ \A c \in Clients : cpc'[c] = "idle" <=> want'[c] = None
<1> USE DEF TypeInv, TypeOK
<1>1. None \notin Jobs
  BY AdmissionAssumption
<1>2. CASE UNCHANGED client
  BY <1>2 DEF client
<1>3. ASSUME NEW c \in Clients, ClientStep(c)
      PROVE  /\ cpc' \in [Clients -> {"idle", "mark", "send"}]
             /\ want' \in [Clients -> Jobs \cup {None}]
             /\ \A d \in Clients : cpc'[d] = "idle" <=> want'[d] = None
  <2>1. CASE \E j \in Jobs : Check(c, j)
    BY <1>1, <2>1 DEF Check, Admitted
  <2>2. CASE Mark(c) \/ Send(c) \/ InitiateThrows(c)
    BY <1>1, <2>2 DEF Mark, Send, InitiateThrows, Release
  <2>3. QED
    BY <1>3, <2>1, <2>2 DEF ClientStep, Initiate
<1>4. QED
  BY <1>2, <1>3, OthersMove

LEMMA HistoryTypes ==
    ASSUME TypeInv, [Next]_vars
    PROVE  /\ gone' \subseteq Jobs /\ torn' \subseteq Requests
           /\ ran' \subseteq Jobs /\ failed' \subseteq Jobs
           /\ hit' \in [Windows -> SUBSET Jobs]
           /\ spent' \in [request : Nat, initiation : Nat, fault : Nat]
<1>1. gone' \subseteq Jobs
  <2>1. \/ gone' = gone
        \/ \E d \in Deletions : gone' = gone \cup JobsOf(Target[d])
        \/ \E w \in Workers : wpc[w] = "sweep" /\ gone' = gone \cup {job[w]}
        \/ \E j \in Jobs : gone' = gone \cup {j}
    BY DEF Next, Failure, Create, Delete, Loop, Initiate, Work, CreateWorkflows,
           CreateRuntimes, CreateNote, SendTask, AnswerBatch, LoadRuntime, StartCron,
           InsertTask, SendFirst, TaskThrows, CreateThrows, ServerCrash, ReadNote,
           DeleteTask, RemoveNote, Check, Admitted, Mark, Send, InitiateThrows, Receive,
           Sweep, Vanished, Stall, Finish, Terminate, Link, Ack, WorkerFails, AckOnly,
           EnqueueOnly, HalfSettled, Cleanup, rows, server, queues, worker, client, history,
           vars
  <2>2. \A d \in Deletions : JobsOf(Target[d]) \subseteq Jobs
    BY JobFacts, AdmissionAssumption DEF Requests
  <2>3. \A w \in Workers : wpc[w] = "sweep" => job[w] \in Jobs
    BY DEF TypeInv, TypeOK
  <2>4. QED
    BY <2>1, <2>2, <2>3 DEF TypeInv, TypeOK
<1>2. torn' \subseteq Requests
  <2>1. \/ torn' = torn
        \/ \E h \in Requests : torn' = torn \cup {h}
        \/ \E h : torn' = torn \cup ({h} \cap Requests)
    BY DEF Next, Failure, Create, Delete, Loop, Initiate, Work, CreateWorkflows,
           CreateRuntimes, CreateNote, SendTask, AnswerBatch, LoadRuntime, StartCron,
           InsertTask, SendFirst, TaskThrows, CreateThrows, ServerCrash, ReadNote,
           DeleteTask, RemoveNote, Check, Admitted, Mark, Send, InitiateThrows, Receive,
           Sweep, Vanished, Stall, Finish, Terminate, Link, Ack, WorkerFails, AckOnly,
           EnqueueOnly, HalfSettled, Cleanup, rows, server, queues, worker, client, history,
           vars
  <2>2. QED
    BY <2>1 DEF TypeInv, TypeOK
<1>3. ran' \subseteq Jobs /\ failed' \subseteq Jobs
  <2>1. \/ UNCHANGED <<ran, failed>>
        \/ \E w \in Workers : wpc[w] = "work" /\ (Finish(w) \/ Terminate(w))
    BY DEF Next, Failure, Create, Delete, Loop, Initiate, Work, CreateWorkflows,
           CreateRuntimes, CreateNote, SendTask, AnswerBatch, LoadRuntime, StartCron,
           InsertTask, SendFirst, TaskThrows, CreateThrows, ServerCrash, ReadNote,
           DeleteTask, RemoveNote, Check, Admitted, Mark, Send, InitiateThrows, Receive,
           Sweep, Vanished, Stall, Finish, Terminate, Link, Ack, WorkerFails, AckOnly,
           EnqueueOnly, HalfSettled, Cleanup, rows, server, queues, worker, client, history,
           vars
  <2>2. \A w \in Workers : wpc[w] = "work" => job[w] \in Jobs
    BY DEF TypeInv, TypeOK
  <2>3. QED
    BY <2>1, <2>2 DEF TypeInv, TypeOK, Finish, Terminate
<1>4. hit' \in [Windows -> SUBSET Jobs]
  <2>1. \/ UNCHANGED hit
        \/ \E c \in Clients, j \in Jobs : Admitted(c, j)
        \/ \E c \in Clients : cpc[c] = "send" /\ Hit("stranded", want[c])
        \/ \E w \in Workers : wpc[w] = "linked" /\ Hit("relinked", Next1(job[w]))
        \/ \E w \in Workers, k \in {"stuck", "lost", "twice"} :
              wpc[w] = "work" /\ Hit(k, job[w])
    BY DEF Next, Failure, Create, Delete, Loop, Initiate, Work, CreateWorkflows,
           CreateRuntimes, CreateNote, SendTask, AnswerBatch, LoadRuntime, StartCron,
           InsertTask, SendFirst, TaskThrows, CreateThrows, ServerCrash, ReadNote,
           DeleteTask, RemoveNote, Check, Admitted, Mark, Send, InitiateThrows, Receive,
           Sweep, Vanished, Stall, Finish, Terminate, Link, Ack, WorkerFails, AckOnly,
           EnqueueOnly, HalfSettled, Cleanup, rows, server, queues, worker, client, history,
           vars
  <2>2. \A c \in Clients : cpc[c] = "send" => want[c] \in Jobs
    BY DEF TypeInv, TypeOK
  <2>3. \A w \in Workers : /\ wpc[w] = "linked" => Next1(job[w]) \in Jobs
                           /\ wpc[w] = "work" => job[w] \in Jobs
    BY JobFacts DEF TypeInv, TypeOK
  <2>4. hit \in [Windows -> SUBSET Jobs]
    BY DEF TypeInv, TypeOK
  <2>5. ASSUME NEW c \in Clients, NEW j \in Jobs, Admitted(c, j)
        PROVE  hit' \in [Windows -> SUBSET Jobs]
    BY <2>4, <2>5 DEF Admitted
  <2>6. ASSUME NEW c \in Clients, cpc[c] = "send", Hit("stranded", want[c])
        PROVE  hit' \in [Windows -> SUBSET Jobs]
    BY <2>2, <2>4, <2>6 DEF Hit
  <2>7. ASSUME NEW w \in Workers, wpc[w] = "linked", Hit("relinked", Next1(job[w]))
        PROVE  hit' \in [Windows -> SUBSET Jobs]
    BY <2>3, <2>4, <2>7 DEF Hit
  <2>8. ASSUME NEW w \in Workers, NEW k \in {"stuck", "lost", "twice"}, wpc[w] = "work",
               Hit(k, job[w])
        PROVE  hit' \in [Windows -> SUBSET Jobs]
    BY <2>3, <2>4, <2>8 DEF Hit
  <2>9. QED
    BY <2>1, <2>4, <2>5, <2>6, <2>7, <2>8
<1>5. spent' \in [request : Nat, initiation : Nat, fault : Nat]
  <2>1. \/ UNCHANGED spent
        \/ spent' = [spent EXCEPT !.request = @ + 1]
        \/ spent' = [spent EXCEPT !.initiation = @ + 1]
        \/ spent' = [spent EXCEPT !.fault = @ + 1]
    BY DEF Next, Failure, Create, Delete, Loop, Initiate, Work, CreateWorkflows,
           CreateRuntimes, CreateNote, SendTask, AnswerBatch, LoadRuntime, StartCron,
           InsertTask, SendFirst, TaskThrows, CreateThrows, ServerCrash, ReadNote,
           DeleteTask, RemoveNote, Check, Admitted, Mark, Send, InitiateThrows, Receive,
           Sweep, Vanished, Stall, Finish, Terminate, Link, Ack, WorkerFails, AckOnly,
           EnqueueOnly, HalfSettled, Cleanup, rows, server, queues, worker, client, history,
           vars, Fault, Started
  <2>2. QED
    BY <2>1 DEF TypeInv, TypeOK
<1>6. QED
  BY <1>1, <1>2, <1>3, <1>4, <1>5

LEMMA ServerTypes ==
    ASSUME TypeInv, [Next]_vars
    PROVE  /\ pc' \in [Handlers -> {"new", "runtimes", "note", "calls", "done"}]
           /\ answer' \in [Handlers -> {"none", "ok", "error", "missing"}]
           /\ Stands'
<1> USE DEF TypeInv, TypeOK, Handlers, GoTo, Stands
<1>1. CASE UNCHANGED server
  BY <1>1 DEF server
<1>2. ASSUME NEW r \in Requests, Create(r) \/ CreateThrows(r)
      PROVE  /\ pc' \in [Handlers -> {"new", "runtimes", "note", "calls", "done"}]
             /\ answer' \in [Handlers -> {"none", "ok", "error", "missing"}]
             /\ Stands'
  <2>1. CASE CreateWorkflows(r) \/ CreateRuntimes(r) \/ CreateNote(r) \/ StartCron(r)
    BY <2>1, AdmissionAssumption DEF CreateWorkflows, CreateRuntimes, CreateNote, StartCron,
                                     Requests
  <2>2. CASE AnswerBatch(r) \/ LoadRuntime(r) \/ SendFirst(r) \/ CreateThrows(r)
    BY <2>2, AdmissionAssumption DEF AnswerBatch, LoadRuntime, SendFirst, CreateThrows
  <2>3. QED
    BY <1>2, <2>1, <2>2 DEF Create
<1>3. ASSUME NEW d \in Deletions, Delete(d)
      PROVE  /\ pc' \in [Handlers -> {"new", "runtimes", "note", "calls", "done"}]
             /\ answer' \in [Handlers -> {"none", "ok", "error", "missing"}]
             /\ Stands'
  BY <1>3, AdmissionAssumption DEF Delete, ReadNote, RemoveNote, Status
<1>4. ASSUME NEW c \in calls, NEW t \in c.rest,
             SendTask(c, t) \/ InsertTask(c, t) \/ DeleteTask(c, t) \/ TaskThrows(c, t)
      PROVE  /\ pc' \in [Handlers -> {"new", "runtimes", "note", "calls", "done"}]
             /\ answer' \in [Handlers -> {"none", "ok", "error", "missing"}]
             /\ Stands'
  BY <1>4 DEF SendTask, InsertTask, DeleteTask, TaskThrows
<1>5. ASSUME NEW h \in Handlers, ServerCrash(h)
      PROVE  /\ pc' \in [Handlers -> {"new", "runtimes", "note", "calls", "done"}]
             /\ answer' \in [Handlers -> {"none", "ok", "error", "missing"}]
             /\ Stands'
  BY <1>5 DEF ServerCrash
<1>6. QED
  BY <1>1, <1>2, <1>3, <1>4, <1>5, ServerMoves

\* Who makes and works off the calls: each step adds some, or takes a task off one.
LEMMA CallMoves ==
    ASSUME TypeInv, [Next]_vars
    PROVE  \/ calls' \subseteq calls /\ \A c \in calls \ calls' : pc'[c.by] = "done"
           \/ \E r \in Batches : CreateNote(r)
           \/ \E r \in Crons : StartCron(r)
           \/ \E d \in Deletions : ReadNote(d) /\ Target[d] \in notes
           \/ \E c \in calls : \E t \in c.rest :
                 \/ SendTask(c, t) \/ InsertTask(c, t) \/ DeleteTask(c, t)
                 \/ TaskThrows(c, t)
<1>1. CASE UNCHANGED server
  BY <1>1 DEF server
<1>2. ASSUME NEW h \in Handlers, ServerCrash(h)
      PROVE  calls' \subseteq calls /\ \A c \in calls \ calls' : pc'[c.by] = "done"
  BY <1>2 DEF ServerCrash, GoTo, TypeInv, TypeOK
<1>3. ASSUME NEW r \in Requests, Create(r) \/ CreateThrows(r)
      PROVE  \/ UNCHANGED calls
             \/ r \in Batches /\ CreateNote(r)
             \/ r \in Crons /\ StartCron(r)
  BY <1>3 DEF Create, CreateThrows, CreateWorkflows, CreateRuntimes, CreateNote,
              AnswerBatch, LoadRuntime, StartCron, SendFirst, TypeInv, Stands
<1>4. ASSUME NEW d \in Deletions, Delete(d)
      PROVE  UNCHANGED calls \/ (ReadNote(d) /\ Target[d] \in notes)
  BY <1>4 DEF Delete, ReadNote, RemoveNote
<1>5. QED
  BY <1>1, <1>2, <1>3, <1>4, ServerMoves

\* A handler that has made its calls does not go back.
LEMMA ForGood ==
    ASSUME TypeInv, [Next]_vars, NEW h \in Handlers, pc[h] \in {"calls", "done"}
    PROVE  pc'[h] \in {"calls", "done"}
<1> USE DEF TypeInv, TypeOK, GoTo
<1>1. CASE UNCHANGED server
  BY <1>1 DEF server
<1>2. ASSUME NEW r \in Requests, Create(r) \/ CreateThrows(r)
      PROVE  pc'[h] \in {"calls", "done"}
  BY <1>2 DEF Create, CreateThrows, CreateWorkflows, CreateRuntimes, CreateNote,
              AnswerBatch, LoadRuntime, StartCron, SendFirst, Started
<1>3. ASSUME NEW d \in Deletions, Delete(d)
      PROVE  pc'[h] \in {"calls", "done"}
  BY <1>3 DEF Delete, ReadNote, RemoveNote
<1>4. ASSUME NEW c \in calls, NEW t \in c.rest,
             SendTask(c, t) \/ InsertTask(c, t) \/ DeleteTask(c, t) \/ TaskThrows(c, t)
      PROVE  pc'[h] \in {"calls", "done"}
  BY <1>4 DEF SendTask, InsertTask, DeleteTask, TaskThrows
<1>5. ASSUME NEW g \in Handlers, ServerCrash(g)
      PROVE  pc'[h] \in {"calls", "done"}
  BY <1>5 DEF ServerCrash
<1>6. QED
  BY <1>1, <1>2, <1>3, <1>4, <1>5, ServerMoves

LEMMA CallTypes ==
    ASSUME TypeInv, [Next]_vars
    PROVE  /\ calls' \subseteq [by : Handlers, rest : SUBSET Tasks, loops : 1..Limit]
           /\ Tasked'
<1> DEFINE T == [by : Handlers, rest : SUBSET Tasks, loops : 1..Limit]
           Fits(c) ==
              /\ c.by \notin Loads
              /\ c.by \in Batches => c.rest \subseteq JobsOf(c.by) \X {"send"}
              /\ c.by \in Crons => c.rest \subseteq JobsOf(c.by) \X {"wf", "rt"}
              /\ c.by \in Deletions => c.rest \subseteq JobsOf(Target[c.by]) \X {"wf", "rt"}
<1>1. calls \subseteq T /\ \A c \in calls : Fits(c) /\ pc[c.by] \in {"calls", "done"}
  BY DEF TypeInv, TypeOK, Tasked
<1>2. ASSUME NEW c \in calls', c \notin calls
      PROVE  c \in T /\ Fits(c) /\ pc'[c.by] \in {"calls", "done"}
  <2> USE <1>2
  <2>1. pc \in [Handlers -> {"new", "runtimes", "note", "calls", "done"}]
    BY DEF TypeInv, TypeOK
  <2>2. CASE \E r \in Batches : CreateNote(r)
    <3>1. PICK r \in Batches : CreateNote(r)
      BY <2>2
    <3>2. /\ r \in Handlers /\ r \in Requests /\ r \notin Crons \cup Loads \cup Deletions
      BY AdmissionAssumption DEF Handlers, Requests
    <3>3. c = Call(r, JobsOf(r) \X {"send"}) /\ pc'[r] = "calls"
      BY <2>1, <3>1, <3>2 DEF CreateNote, GoTo
    <3> DEFINE e == Call(r, JobsOf(r) \X {"send"})
    <3>4. e \in T /\ e.by = r /\ e.rest = JobsOf(r) \X {"send"}
      BY <3>2, TaskFacts, CallFacts
    <3>5. c = e
      BY <3>3
    <3> HIDE DEF e
    <3>6. QED
      BY <3>2, <3>3, <3>4, <3>5
  <2>3. CASE \E r \in Crons : StartCron(r)
    <3>1. PICK r \in Crons : StartCron(r)
      BY <2>3
    <3>2. /\ r \in Handlers /\ r \in Requests /\ r \notin Batches \cup Loads \cup Deletions
      BY AdmissionAssumption DEF Handlers, Requests
    <3>3. c \in {Call(r, JobsOf(r) \X {"wf"}), Call(r, JobsOf(r) \X {"rt"})} /\ pc'[r] = "calls"
      BY <2>1, <3>1, <3>2 DEF StartCron, GoTo
    <3> DEFINE e == Call(r, JobsOf(r) \X {"wf"})
               f == Call(r, JobsOf(r) \X {"rt"})
    <3>4. /\ e \in T /\ e.by = r /\ e.rest = JobsOf(r) \X {"wf"}
          /\ f \in T /\ f.by = r /\ f.rest = JobsOf(r) \X {"rt"}
      BY <3>2, TaskFacts, CallFacts
    <3>5. c \in {e, f}
      BY <3>3
    <3> HIDE DEF e, f
    <3>6. QED
      BY <3>2, <3>3, <3>4, <3>5
  <2>4. CASE \E d \in Deletions : ReadNote(d) /\ Target[d] \in notes
    <3>1. PICK d \in Deletions : ReadNote(d) /\ Target[d] \in notes
      BY <2>4
    <3>2. /\ d \in Handlers /\ Target[d] \in Requests /\ d \notin Requests
      BY AdmissionAssumption DEF Handlers, Requests
    <3>3. c = Call(d, JobsOf(Target[d]) \X {"wf", "rt"}) /\ pc'[d] = "calls"
      BY <2>1, <3>1, <3>2 DEF ReadNote, GoTo
    <3> DEFINE e == Call(d, JobsOf(Target[d]) \X {"wf", "rt"})
    <3>4. e \in T /\ e.by = d /\ e.rest = JobsOf(Target[d]) \X {"wf", "rt"}
      BY <3>2, TaskFacts, CallFacts
    <3>5. c = e
      BY <3>3
    <3> HIDE DEF e
    <3>6. QED
      BY <3>2, <3>3, <3>4, <3>5 DEF Requests
  <2>5. ASSUME NEW e \in calls, NEW t \in e.rest,
               SendTask(e, t) \/ InsertTask(e, t) \/ DeleteTask(e, t) \/ TaskThrows(e, t)
        PROVE  c \in T /\ Fits(c) /\ pc'[c.by] \in {"calls", "done"}
    <3>1. PICK l \in {e.loops, e.loops - 1} : calls' = Without(e, t, l)
      BY <2>5 DEF SendTask, InsertTask, DeleteTask, TaskThrows
    <3>2. c \in T /\ c.by = e.by /\ c.rest = e.rest \ {t}
      BY <3>1, WithoutFacts
    <3>3. pc'[e.by] \in {"calls", "done"}
      BY <1>1, <2>1, <2>5 DEF SendTask, InsertTask, DeleteTask, TaskThrows, GoTo
    <3>4. Fits(e)
      BY <1>1
    <3>5. QED
      BY <3>2, <3>3, <3>4
  <2>6. QED
    BY <2>2, <2>3, <2>4, <2>5, CallMoves
<1>3. ASSUME NEW c \in calls', c \in calls PROVE pc'[c.by] \in {"calls", "done"}
  BY <1>1, <1>3, ForGood
<1>4. QED
  BY <1>1, <1>2, <1>3 DEF Tasked

LEMMA InitTypes == Init => TypeInv
<1> SUFFICES ASSUME Init PROVE TypeInv
  OBVIOUS
<1> USE DEF Init
<1>1. hit \in [Windows -> SUBSET Jobs] /\ spent \in [request : Nat, initiation : Nat, fault : Nat]
  OBVIOUS
<1>2. TypeOK
  BY <1>1 DEF TypeOK
<1>3. Tasked /\ Stands
  BY DEF Tasked, Stands, Handlers
<1>4. QED
  BY <1>2, <1>3 DEF TypeInv

LEMMA TypesStep == TypeInv /\ [Next]_vars => TypeInv'
  BY RowTypes, QueueTypes, WorkerTypes, ClientTypes, HistoryTypes, ServerTypes, CallTypes
  DEF TypeInv, TypeOK, RowTypeOK

\* The state of the admissions has its type.
THEOREM TypeCorrect == Spec => []TypeOK
<1>1. TypeInv => TypeOK
  BY DEF TypeInv
<1>2. QED
  BY InitTypes, TypesStep, <1>1, PTL DEF Spec
-------------------------------------------------------------------------------
(***************************************************************************)
(* Rows come before messages.                                              *)
(***************************************************************************)

\* Workflows that have both rows, or whose removal has begun.
Kept == (wf \cap rt) \cup gone

\* A call of h has the task of this kind for j before it.
Pending(h, j, kind) == \E c \in calls : c.by = h /\ <<j, kind>> \in c.rest

\* What the calls of a handler are about: rows that are there, or that go.
CallsInv ==
    \A c \in calls : /\ c.by \in Batches => JobsOf(c.by) \subseteq Kept
                     /\ c.by \in Deletions => JobsOf(Target[c.by]) \subseteq gone

\* How far the creation of the rows is.
CreationInv ==
    \A r \in Requests :
       /\ pc[r] = "new" => JobsOf(r) \cap (wf \cup rt) = {}
       /\ pc[r] = "runtimes" => JobsOf(r) \subseteq wf \cup gone /\ JobsOf(r) \cap rt = {}
       /\ pc[r] = "note" => JobsOf(r) \subseteq Kept
       /\ pc[r] = "calls" /\ r \in Batches => JobsOf(r) \subseteq Kept
       /\ pc[r] = "calls" /\ r \in Crons =>
             \A j \in JobsOf(r) : /\ j \in wf \cup gone \/ Pending(r, j, "wf")
                                  /\ j \in rt \cup gone \/ Pending(r, j, "rt")
       /\ pc[r] = "done" => r \in torn \/ JobsOf(r) \subseteq Kept

LEMMA HistoryGrows ==
    ASSUME TypeInv, [Next]_vars
    PROVE  /\ gone \subseteq gone' /\ torn \subseteq torn'
           /\ ran \subseteq ran' /\ failed \subseteq failed'
           /\ \A k \in Windows : hit[k] \subseteq hit'[k]
<1>1. /\ gone \subseteq gone' /\ torn \subseteq torn'
      /\ ran \subseteq ran' /\ failed \subseteq failed'
  BY DEF Next, Failure, Create, Delete, Loop, Initiate, Work, CreateWorkflows,
         CreateRuntimes, CreateNote, SendTask, AnswerBatch, LoadRuntime, StartCron,
         InsertTask, SendFirst, TaskThrows, CreateThrows, ServerCrash, ReadNote, DeleteTask,
         RemoveNote, Check, Admitted, Mark, Send, InitiateThrows, Receive, Sweep, Vanished,
         Stall, Finish, Terminate, Link, Ack, WorkerFails, AckOnly, EnqueueOnly,
         HalfSettled, Cleanup, rows, server, queues, worker, client, history, vars
<1>2. \/ UNCHANGED hit
      \/ \E c \in Clients, j \in Jobs : Admitted(c, j)
      \/ \E k \in Windows : \E j : Hit(k, j)
  BY DEF Next, Failure, Create, Delete, Loop, Initiate, Work, CreateWorkflows,
         CreateRuntimes, CreateNote, SendTask, AnswerBatch, LoadRuntime, StartCron,
         InsertTask, SendFirst, TaskThrows, CreateThrows, ServerCrash, ReadNote, DeleteTask,
         RemoveNote, Check, Admitted, Mark, Send, InitiateThrows, Receive, Sweep, Vanished,
         Stall, Finish, Terminate, Link, Ack, WorkerFails, AckOnly, EnqueueOnly,
         HalfSettled, Cleanup, rows, server, queues, worker, client, history, vars, Windows,
         Doubling
<1>3. hit \in [Windows -> SUBSET Jobs]
  BY DEF TypeInv, TypeOK
<1>4. \A k \in Windows : hit[k] \subseteq hit'[k]
  BY <1>2, <1>3 DEF Hit, Admitted
<1>5. QED
  BY <1>1, <1>4

\* A row goes only with a workflow that is gone.
LEMMA RowsKept ==
    ASSUME TypeInv, CallsInv, [Next]_vars
    PROVE  /\ wf \cup gone \subseteq (wf \cup gone)'
           /\ rt \cup gone \subseteq (rt \cup gone)'
           /\ Kept \subseteq Kept'
<1>1. wf \subseteq wf' \cup gone' /\ rt \subseteq rt' \cup gone'
  <2>1. ASSUME NEW c \in calls, NEW t \in c.rest, DeleteTask(c, t)
        PROVE  t[1] \in gone
    BY <2>1 DEF DeleteTask, CallsInv, TypeInv, Tasked
  <2>2. ASSUME NEW c \in calls, NEW t \in c.rest, InsertTask(c, t) \/ DeleteTask(c, t)
        PROVE  wf \subseteq wf' \cup gone /\ rt \subseteq rt' \cup gone
    BY <2>1, <2>2 DEF InsertTask, DeleteTask, Remove
  <2>3. ASSUME NEW r \in Requests,
               CreateWorkflows(r) \/ CreateRuntimes(r) \/ CreateNote(r) \/ LoadRuntime(r)
        PROVE  wf \subseteq wf' /\ rt \subseteq rt'
    BY <2>3 DEF CreateWorkflows, CreateRuntimes, CreateNote, LoadRuntime, CreateBatchOrNone,
                rows
  <2>4. CASE \E w \in Workers : Sweep(w)
    BY <2>4 DEF Sweep, Remove
  <2>5. CASE \E j \in Jobs : Cleanup(j)
    BY <2>5 DEF Cleanup, Remove
  <2>6. CASE \/ UNCHANGED <<wf, rt>>
             \/ \E d \in Deletions : RemoveNote(d)
             \/ \E c \in Clients : Mark(c)
             \/ \E w \in Workers : Finish(w) \/ Terminate(w)
    BY <2>6 DEF RemoveNote, Mark, Finish, Terminate, rows
  <2>7. QED
    BY <2>2, <2>3, <2>4, <2>5, <2>6, RowMoves, HistoryGrows
<1>2. QED
  BY <1>1, HistoryGrows DEF Kept

\* Whose step makes a row.
LEMMA RowsCome ==
    ASSUME TypeInv, [Next]_vars, NEW j \in Jobs
    PROVE  /\ j \in wf' \ wf =>
                 \/ CreateWorkflows(j[1])
                 \/ j[1] \in Crons /\ pc[j[1]] \in {"calls", "done"}
           /\ j \in rt' \ rt =>
                 \/ CreateRuntimes(j[1]) \/ LoadRuntime(j[1])
                 \/ j[1] \in Crons /\ pc[j[1]] \in {"calls", "done"}
<1>1. ASSUME NEW c \in calls, NEW t \in c.rest, InsertTask(c, t)
      PROVE  t[1][1] \in Crons /\ pc[t[1][1]] \in {"calls", "done"}
  <2>1. c.by \in Crons /\ c.rest \subseteq JobsOf(c.by) \X {"wf", "rt"}
    BY <1>1 DEF InsertTask, TypeInv, Tasked
  <2>2. t[1] \in JobsOf(c.by)
    BY <2>1
  <2>3. t[1][1] = c.by
    BY <2>1, <2>2, JobFacts DEF Requests
  <2>4. QED
    BY <2>1, <2>3 DEF TypeInv, Tasked
<1>2. CASE \E c \in calls : \E t \in c.rest : InsertTask(c, t)
  BY <1>1, <1>2 DEF InsertTask
<1>3. CASE \E c \in calls : \E t \in c.rest : DeleteTask(c, t)
  BY <1>3 DEF DeleteTask, Remove
<1>4. ASSUME NEW r \in Requests, CreateWorkflows(r) \/ CreateRuntimes(r) \/ LoadRuntime(r)
      PROVE  /\ j \in wf' \ wf => CreateWorkflows(j[1])
             /\ j \in rt' \ rt => CreateRuntimes(j[1]) \/ LoadRuntime(j[1])
  <2>1. j \in JobsOf(r) => j[1] = r
    BY JobFacts
  <2>2. CASE CreateWorkflows(r)
    <3>1. j \in wf' \ wf => j \in JobsOf(r)
      BY <2>2 DEF CreateWorkflows, CreateBatchOrNone
    <3>2. UNCHANGED rt
      BY <2>2 DEF CreateWorkflows
    <3>3. QED
      BY <2>1, <2>2, <3>1, <3>2
  <2>3. CASE CreateRuntimes(r)
    <3>1. j \in rt' \ rt => j \in JobsOf(r)
      BY <2>3 DEF CreateRuntimes, CreateBatchOrNone
    <3>2. UNCHANGED wf
      BY <2>3 DEF CreateRuntimes
    <3>3. QED
      BY <2>1, <2>3, <3>1, <3>2
  <2>4. CASE LoadRuntime(r)
    <3>1. j \in rt' \ rt => j \in JobsOf(r)
      BY <2>4 DEF LoadRuntime
    <3>2. UNCHANGED wf
      BY <2>4 DEF LoadRuntime
    <3>3. QED
      BY <2>1, <2>4, <3>1, <3>2
  <2>5. QED
    BY <1>4, <2>2, <2>3, <2>4
<1>5. CASE \/ UNCHANGED <<wf, rt>>
           \/ \E r \in Requests : CreateNote(r)
           \/ \E d \in Deletions : RemoveNote(d)
           \/ \E c \in Clients : Mark(c)
           \/ \E w \in Workers : Sweep(w) \/ Finish(w) \/ Terminate(w)
           \/ \E i \in Jobs : Cleanup(i)
  BY <1>5 DEF CreateNote, RemoveNote, Mark, Sweep, Finish, Terminate, Cleanup, Remove, rows
<1>6. QED
  BY <1>2, <1>3, <1>4, <1>5, RowMoves

\* How the handler of a creation goes on.
LEMMA CreationMoves ==
    ASSUME TypeInv, [Next]_vars, NEW r \in Requests
    PROVE  pc'[r] = pc[r] \/ Create(r) \/ (pc'[r] = "done" /\ r \in torn')
<1> USE DEF TypeInv, TypeOK, GoTo, Handlers
<1>1. CASE UNCHANGED server
  BY <1>1 DEF server
<1>2. ASSUME NEW s \in Requests, s # r, Create(s) \/ CreateThrows(s)
      PROVE  pc'[r] = pc[r]
  BY <1>2 DEF Create, CreateThrows, CreateWorkflows, CreateRuntimes, CreateNote,
              AnswerBatch, LoadRuntime, StartCron, SendFirst, Started
<1>3. ASSUME NEW d \in Deletions, Delete(d)
      PROVE  pc'[r] = pc[r]
  BY <1>3, AdmissionAssumption DEF Delete, ReadNote, RemoveNote
<1>4. ASSUME NEW c \in calls, NEW t \in c.rest,
             SendTask(c, t) \/ InsertTask(c, t) \/ DeleteTask(c, t) \/ TaskThrows(c, t)
      PROVE  pc'[r] = pc[r] \/ (pc'[r] = "done" /\ r \in torn')
  BY <1>4 DEF SendTask, InsertTask, DeleteTask, TaskThrows
<1>5. ASSUME NEW g \in Handlers, ServerCrash(g)
      PROVE  pc'[r] = pc[r] \/ (pc'[r] = "done" /\ r \in torn')
  BY <1>5 DEF ServerCrash
<1>6. CASE CreateThrows(r)
  BY <1>6 DEF CreateThrows
<1>7. QED
  BY <1>1, <1>2, <1>3, <1>4, <1>5, <1>6, ServerMoves

\* A task stays where it is until it is done or its handler has nothing left to do.
LEMMA PendingStays ==
    ASSUME TypeInv, [Next]_vars, NEW h \in Handlers, NEW j, NEW kind, Pending(h, j, kind)
    PROVE  \/ Pending(h, j, kind)' \/ pc'[h] = "done"
           \/ \E c \in calls : /\ c.by = h
                               /\ \/ SendTask(c, <<j, kind>>)
                                  \/ InsertTask(c, <<j, kind>>) \/ DeleteTask(c, <<j, kind>>)
<1>1. PICK e \in calls : e.by = h /\ <<j, kind>> \in e.rest
  BY DEF Pending
<1>2. CASE e \in calls'
  BY <1>1, <1>2 DEF Pending
<1>3. ASSUME e \notin calls' PROVE
           \/ pc'[h] = "done"
           \/ \E t \in e.rest : \/ SendTask(e, t) \/ InsertTask(e, t) \/ DeleteTask(e, t)
                                \/ TaskThrows(e, t)
  <2>1. CASE \/ \E r \in Batches : CreateNote(r)
             \/ \E r \in Crons : StartCron(r)
             \/ \E d \in Deletions : ReadNote(d) /\ Target[d] \in notes
    BY <1>1, <1>3, <2>1 DEF CreateNote, StartCron, ReadNote
  <2>2. ASSUME NEW c \in calls, c # e, NEW t \in c.rest, NEW l \in {c.loops, c.loops - 1}
        PROVE  e \in Without(c, t, l)
    BY <2>2, WithoutFacts
  <2>3. ASSUME NEW c \in calls, c # e, NEW t \in c.rest
        PROVE  ~(\/ SendTask(c, t) \/ InsertTask(c, t) \/ DeleteTask(c, t)
                 \/ TaskThrows(c, t))
    BY <1>3, <2>2, <2>3 DEF SendTask, InsertTask, DeleteTask, TaskThrows
  <2>4. QED
    BY <1>1, <1>3, <2>1, <2>3, CallMoves
<1>4. ASSUME NEW t \in e.rest, TaskThrows(e, t) PROVE pc'[h] = "done"
  BY <1>1, <1>4 DEF TaskThrows, GoTo, TypeInv, TypeOK, Tasked
<1>5. ASSUME NEW t \in e.rest, t # <<j, kind>>,
             SendTask(e, t) \/ InsertTask(e, t) \/ DeleteTask(e, t)
      PROVE  Pending(h, j, kind)'
  <2>1. calls' = Without(e, t, e.loops)
    BY <1>5 DEF SendTask, InsertTask, DeleteTask
  <2>2. <<j, kind>> \in e.rest \ {t} /\ e.loops \in {e.loops, e.loops - 1}
    BY <1>1, <1>5
  <2>3. \E f \in calls' : f.by = e.by /\ <<j, kind>> \in f.rest
    BY <2>1, <2>2, WithoutFacts
  <2>4. QED
    BY <1>1, <2>3 DEF Pending
<1>6. QED
  BY <1>1, <1>2, <1>3, <1>4, <1>5

\* A task comes to be before a handler only when it makes its calls.
LEMMA PendingComes ==
    ASSUME TypeInv, [Next]_vars, NEW h \in Handlers, NEW j, NEW kind, Pending(h, j, kind)'
    PROVE  \/ Pending(h, j, kind)
           \/ h \in Batches /\ CreateNote(h) /\ kind = "send"
           \/ h \in Crons /\ StartCron(h)
           \/ h \in Deletions /\ ReadNote(h) /\ Target[h] \in notes
<1>1. PICK e \in calls' : e.by = h /\ <<j, kind>> \in e.rest
  BY DEF Pending
<1>2. CASE e \in calls
  BY <1>1, <1>2 DEF Pending
<1>3. ASSUME NEW c \in calls, NEW t \in c.rest,
             SendTask(c, t) \/ InsertTask(c, t) \/ DeleteTask(c, t) \/ TaskThrows(c, t)
      PROVE  Pending(h, j, kind)
  <2>1. PICK l \in {c.loops, c.loops - 1} : calls' = Without(c, t, l)
    BY <1>3 DEF SendTask, InsertTask, DeleteTask, TaskThrows
  <2>2. e \in calls \/ (e.by = c.by /\ e.rest = c.rest \ {t})
    BY <1>1, <2>1, WithoutFacts
  <2>3. QED
    BY <1>1, <2>2 DEF Pending
<1>4. ASSUME NEW r \in Batches, CreateNote(r), e \notin calls
      PROVE  r = h /\ kind = "send"
  <2>1. r \in Handlers /\ r \in Requests
    BY DEF Handlers, Requests
  <2>2. e = Call(r, JobsOf(r) \X {"send"})
    BY <1>4 DEF CreateNote
  <2>3. e.by = r /\ e.rest = JobsOf(r) \X {"send"}
    BY <2>2 DEF Call
  <2>4. QED
    BY <1>1, <2>3
<1>5. ASSUME NEW r \in Crons, StartCron(r), e \notin calls
      PROVE  r = h
  <2>1. e \in {Call(r, JobsOf(r) \X {"wf"}), Call(r, JobsOf(r) \X {"rt"})}
    BY <1>5 DEF StartCron
  <2>2. QED
    BY <1>1, <2>1 DEF Call
<1>6. ASSUME NEW d \in Deletions, ReadNote(d), Target[d] \in notes, e \notin calls
      PROVE  d = h
  <2>1. e = Call(d, JobsOf(Target[d]) \X {"wf", "rt"})
    BY <1>6 DEF ReadNote
  <2>2. QED
    BY <1>1, <2>1 DEF Call
<1>7. QED
  BY <1>2, <1>3, <1>4, <1>5, <1>6, CallMoves

LEMMA CallsStep ==
    ASSUME TypeInv, CallsInv, CreationInv, [Next]_vars
    PROVE  CallsInv'
<1>1. Kept \subseteq Kept' /\ gone \subseteq gone'
  BY RowsKept, HistoryGrows
<1>2. ASSUME NEW h, \E c \in calls : c.by = h
      PROVE  /\ h \in Batches => JobsOf(h) \subseteq Kept'
             /\ h \in Deletions => JobsOf(Target[h]) \subseteq gone'
  BY <1>1, <1>2 DEF CallsInv
<1>3. ASSUME NEW c \in calls', c \notin calls
      PROVE  /\ c.by \in Batches => JobsOf(c.by) \subseteq Kept'
             /\ c.by \in Deletions => JobsOf(Target[c.by]) \subseteq gone'
  <2>1. CASE \E r \in Batches : CreateNote(r)
    <3>1. PICK r \in Batches : CreateNote(r)
      BY <2>1
    <3>2. c.by = r /\ pc[r] = "note" /\ r \in Requests /\ r \notin Deletions
      BY <1>3, <3>1, AdmissionAssumption DEF CreateNote, Call, Requests
    <3>3. QED
      BY <1>1, <3>2 DEF CreationInv
  <2>2. CASE \E r \in Crons : StartCron(r)
    <3>1. PICK r \in Crons : StartCron(r)
      BY <2>2
    <3>2. c.by = r /\ r \notin Batches /\ r \notin Deletions
      BY <1>3, <3>1, AdmissionAssumption DEF StartCron, Call, Requests
    <3>3. QED
      BY <3>2
  <2>3. CASE \E d \in Deletions : ReadNote(d) /\ Target[d] \in notes
    <3>1. PICK d \in Deletions : ReadNote(d) /\ Target[d] \in notes
      BY <2>3
    <3>2. c.by = d /\ d \notin Batches /\ JobsOf(Target[d]) \subseteq gone'
      BY <1>3, <3>1, AdmissionAssumption DEF ReadNote, Call, Requests
    <3>3. QED
      BY <3>2
  <2>4. ASSUME NEW e \in calls, NEW t \in e.rest,
               SendTask(e, t) \/ InsertTask(e, t) \/ DeleteTask(e, t) \/ TaskThrows(e, t)
        PROVE  c.by = e.by
    <3>1. PICK l \in {e.loops, e.loops - 1} : calls' = Without(e, t, l)
      BY <2>4 DEF SendTask, InsertTask, DeleteTask, TaskThrows
    <3>2. QED
      BY <1>3, <3>1, WithoutFacts
  <2>5. QED
    BY <1>2, <1>3, <2>1, <2>2, <2>3, <2>4, CallMoves
<1>4. QED
  BY <1>2, <1>3 DEF CallsInv

\* The rows of a cron job come, or are still before its loops.
LEMMA CronCreates ==
    ASSUME TypeInv, CallsInv, CreationInv, [Next]_vars,
           NEW r \in Crons, pc'[r] = "calls", NEW j \in JobsOf(r)
    PROVE  /\ j \in wf' \cup gone' \/ Pending(r, j, "wf")'
           /\ j \in rt' \cup gone' \/ Pending(r, j, "rt")'
<1>1. r \in Requests /\ r \in Handlers /\ r \notin Batches \cup Loads \cup Deletions
  BY AdmissionAssumption DEF Requests, Handlers
<1>2. CASE pc[r] = "calls"
  <2>1. /\ j \in wf \cup gone \/ Pending(r, j, "wf")
        /\ j \in rt \cup gone \/ Pending(r, j, "rt")
    BY <1>1, <1>2 DEF CreationInv
  <2>2. ASSUME NEW kind \in {"wf", "rt"}, NEW c \in calls, c.by = r,
               \/ SendTask(c, <<j, kind>>)
               \/ InsertTask(c, <<j, kind>>) \/ DeleteTask(c, <<j, kind>>)
        PROVE  IF kind = "wf" THEN j \in wf' ELSE j \in rt'
    BY <1>1, <2>2 DEF SendTask, InsertTask, DeleteTask
  <2>3. Pending(r, j, "wf") => Pending(r, j, "wf")' \/ j \in wf'
    BY <1>1, <2>2, PendingStays
  <2>4. Pending(r, j, "rt") => Pending(r, j, "rt")' \/ j \in rt'
    BY <1>1, <2>2, PendingStays
  <2>5. QED
    BY <2>1, <2>3, <2>4, RowsKept
<1>3. CASE StartCron(r)
  <2> DEFINE e == Call(r, JobsOf(r) \X {"wf"})
             f == Call(r, JobsOf(r) \X {"rt"})
  <2>1. e \in calls' /\ f \in calls'
    BY <1>3 DEF StartCron
  <2>2. e.by = r /\ <<j, "wf">> \in e.rest /\ f.by = r /\ <<j, "rt">> \in f.rest
    BY DEF Call
  <2> HIDE DEF e, f
  <2>3. QED
    BY <2>1, <2>2 DEF Pending
<1>4. CASE Create(r) /\ ~StartCron(r)
  BY <1>1, <1>4 DEF Create, CreateWorkflows, CreateRuntimes, CreateNote, AnswerBatch,
                    LoadRuntime, SendFirst, GoTo, TypeInv, TypeOK, Stands
<1>5. QED
  BY <1>1, <1>2, <1>3, <1>4, CreationMoves

LEMMA CreationStep ==
    ASSUME TypeInv, CallsInv, CreationInv, [Next]_vars
    PROVE  CreationInv'
<1> SUFFICES ASSUME NEW r \in Requests
             PROVE  /\ pc'[r] = "new" => JobsOf(r) \cap (wf' \cup rt') = {}
                    /\ pc'[r] = "runtimes" => /\ JobsOf(r) \subseteq wf' \cup gone'
                                              /\ JobsOf(r) \cap rt' = {}
                    /\ pc'[r] = "note" => JobsOf(r) \subseteq Kept'
                    /\ pc'[r] = "calls" /\ r \in Batches => JobsOf(r) \subseteq Kept'
                    /\ pc'[r] = "done" => r \in torn' \/ JobsOf(r) \subseteq Kept'
  BY CronCreates DEF CreationInv
<1>1. r \in Handlers /\ pc \in [Handlers -> {"new", "runtimes", "note", "calls", "done"}]
  BY DEF TypeInv, TypeOK, Handlers
<1>2. JobsOf(r) \subseteq Jobs /\ \A j \in JobsOf(r) : j[1] = r
  BY JobFacts
<1>3. CASE CreateWorkflows(r)
  <2>1. /\ pc[r] = "new" /\ pc'[r] = "runtimes"
        /\ wf' = CreateBatchOrNone(wf, JobsOf(r)) /\ rt' = rt
    BY <1>1, <1>3 DEF CreateWorkflows, Started, GoTo
  <2>2. QED
    BY <2>1 DEF CreationInv, CreateBatchOrNone
<1>4. CASE CreateRuntimes(r)
  <2>1. /\ pc[r] = "runtimes" /\ pc'[r] = "note"
        /\ rt' = CreateBatchOrNone(rt, JobsOf(r)) /\ wf' = wf /\ gone' = gone
    BY <1>1, <1>4 DEF CreateRuntimes, GoTo, history
  <2>2. QED
    BY <2>1 DEF CreationInv, CreateBatchOrNone, Kept
<1>5. CASE LoadRuntime(r)
  <2>1. /\ pc[r] = "runtimes" /\ pc'[r] = "done"
        /\ rt' = rt \cup JobsOf(r) /\ wf' = wf /\ gone' = gone
    BY <1>1, <1>5 DEF LoadRuntime, GoTo, history
  <2>2. QED
    BY <2>1 DEF CreationInv, Kept
<1>6. CASE CreateNote(r) \/ AnswerBatch(r)
  <2>1. \/ pc[r] = "note" /\ pc'[r] = "calls"
        \/ pc[r] = "calls" /\ pc'[r] = "done" /\ r \in Batches
    BY <1>1, <1>6 DEF CreateNote, AnswerBatch, Returned, GoTo
  <2>2. QED
    BY <2>1, RowsKept DEF CreationInv
<1>7. CASE StartCron(r)
  BY <1>1, <1>7, AdmissionAssumption DEF StartCron, GoTo
<1>8. CASE SendFirst(r)
  <2>1. /\ r \in Crons /\ pc[r] = "calls" /\ pc'[r] = "done"
        /\ \A c \in calls : c.by # r
    BY <1>1, <1>8 DEF SendFirst, Returned, GoTo
  <2>2. JobsOf(r) \subseteq (wf \cup gone) \cap (rt \cup gone)
    BY <2>1 DEF CreationInv, Pending
  <2>3. QED
    BY <2>1, <2>2, RowsKept DEF Kept
<1>9. CASE pc'[r] = pc[r] /\ ~Create(r)
  <2>1. CASE pc[r] = "new"
    <3>1. ASSUME NEW j \in JobsOf(r) PROVE j \notin wf' \cup rt'
      BY <1>2, <1>9, <2>1, RowsCome DEF CreationInv, Create
    <3>2. QED
      BY <1>9, <2>1, <3>1
  <2>2. CASE pc[r] = "runtimes"
    <3>1. ASSUME NEW j \in JobsOf(r) PROVE j \notin rt'
      BY <1>2, <1>9, <2>2, RowsCome DEF CreationInv, Create
    <3>2. QED
      BY <1>9, <2>2, <3>1, RowsKept DEF CreationInv
  <2>3. CASE pc[r] \in {"note", "calls", "done"}
    BY <1>9, <2>3, RowsKept, HistoryGrows DEF CreationInv
  <2>4. QED
    BY <1>1, <2>1, <2>2, <2>3
<1>10. CASE pc'[r] = "done" /\ r \in torn'
  BY <1>10
<1>11. QED
  BY <1>3, <1>4, <1>5, <1>6, <1>7, <1>8, <1>9, <1>10, CreationMoves DEF Create
-------------------------------------------------------------------------------
\* Somebody has a message of j, or is to send one.
Messaged(j) == root[j] > 0 \/ \E w \in Workers : job[w] = j
Meant(j) == Messaged(j) \/ \E c \in Clients : want[c] = j

LEMMA MessagesCounted ==
    ASSUME TypeInv, NEW j \in Jobs
    PROVE  Messages(j) \in Nat /\ (Messages(j) > 0 <=> Messaged(j))
<1> DEFINE W == {w \in Workers : job[w] = j}
<1>1. IsFiniteSet(W)
  BY FS_Subset, AdmissionAssumption
<1>2. Cardinality(W) \in Nat /\ (Cardinality(W) = 0 <=> W = {})
  BY <1>1, FS_CardinalityType, FS_EmptySet
<1>3. root[j] \in Nat
  BY DEF TypeInv, TypeOK
<1>4. Messages(j) = root[j] + Cardinality(W)
  BY DEF Messages
<1>5. W # {} <=> \E w \in Workers : job[w] = j
  OBVIOUS
<1> HIDE DEF W
<1>6. QED
  BY <1>2, <1>3, <1>4, <1>5 DEF Messaged

\* How the messages in the queue become more or less.
LEMMA QueueMoves ==
    ASSUME TypeInv, [Next]_vars, NEW j \in Jobs, root'[j] # root[j]
    PROVE  \/ /\ root'[j] = root[j] + 1
              /\ \/ \E c \in calls : <<j, "send">> \in c.rest /\ SendTask(c, <<j, "send">>)
                 \/ j = <<j[1], 1>> /\ SendFirst(j[1])
                 \/ \E c \in Clients : want[c] = j /\ Send(c)
                 \/ \E w \in Workers : job[w] = j /\ (Vanished(w) \/ WorkerFails(w))
                 \/ \E w \in Workers : Next1(job[w]) = j /\ Link(w)
           \/ root'[j] = root[j] + 2 /\ \E w \in Workers : job[w] = j /\ EnqueueOnly(w)
           \/ root'[j] = root[j] - 1 /\ root[j] > 0 /\ \E w \in Workers : Receive(w, j)
<1>1. root \in [Jobs -> Nat]
  BY DEF TypeInv, TypeOK
<1>2. \/ \E c \in calls : \E t \in c.rest : SendTask(c, t)
      \/ \E r \in Requests : SendFirst(r)
      \/ \E c \in Clients : Send(c)
      \/ \E w \in Workers : Vanished(w) \/ WorkerFails(w) \/ Link(w) \/ EnqueueOnly(w)
      \/ \E w \in Workers : \E i \in Jobs : Receive(w, i)
  BY DEF Next, Failure, Create, Delete, Loop, Initiate, Work, CreateWorkflows,
         CreateRuntimes, CreateNote, SendTask, AnswerBatch, LoadRuntime, StartCron,
         InsertTask, SendFirst, TaskThrows, CreateThrows, ServerCrash, ReadNote, DeleteTask,
         RemoveNote, Check, Admitted, Mark, Send, InitiateThrows, Receive, Sweep, Vanished,
         Stall, Finish, Terminate, Link, Ack, WorkerFails, AckOnly, EnqueueOnly,
         HalfSettled, Cleanup, rows, server, queues, worker, client, history, vars
<1>3. ASSUME NEW c \in calls, NEW t \in c.rest, SendTask(c, t)
      PROVE  root'[j] = root[j] + 1 /\ <<j, "send">> \in c.rest /\ SendTask(c, <<j, "send">>)
  <2>1. t = <<t[1], t[2]>> /\ t[2] = "send"
    BY <1>3 DEF SendTask, TypeInv, TypeOK, Tasks
  <2>2. t[1] = j /\ root'[j] = root[j] + 1
    BY <1>1, <1>3 DEF SendTask, Enqueue
  <2>3. QED
    BY <1>3, <2>1, <2>2
<1>4. ASSUME NEW r \in Requests, SendFirst(r)
      PROVE  root'[j] = root[j] + 1 /\ j = <<j[1], 1>> /\ SendFirst(j[1])
  <2>1. j = <<r, 1>> /\ root'[j] = root[j] + 1
    BY <1>1, <1>4 DEF SendFirst, Enqueue
  <2>2. QED
    BY <1>4, <2>1
<1>5. ASSUME NEW c \in Clients, Send(c)
      PROVE  root'[j] = root[j] + 1 /\ want[c] = j
  BY <1>1, <1>5 DEF Send, Enqueue
<1>6. ASSUME NEW w \in Workers, Vanished(w) \/ WorkerFails(w)
      PROVE  root'[j] = root[j] + 1 /\ job[w] = j
  BY <1>1, <1>6 DEF Vanished, WorkerFails, Enqueue
<1>7. ASSUME NEW w \in Workers, Link(w)
      PROVE  root'[j] = root[j] + 1 /\ Next1(job[w]) = j
  BY <1>1, <1>7 DEF Link, Enqueue
<1>8. ASSUME NEW w \in Workers, NEW i \in Jobs, Receive(w, i)
      PROVE  root'[j] = root[j] - 1 /\ root[j] > 0 /\ Receive(w, j)
  BY <1>1, <1>8 DEF Receive
<1>9. ASSUME NEW w \in Workers, EnqueueOnly(w)
      PROVE  root'[j] = root[j] + 2 /\ job[w] = j
  BY <1>1, <1>9 DEF EnqueueOnly
<1>10. QED
  BY <1>2, <1>3, <1>4, <1>5, <1>6, <1>7, <1>8, <1>9

\* How workers and clients take up a workflow.
LEMMA Takes ==
    ASSUME TypeInv, [Next]_vars, NEW j \in Jobs
    PROVE  /\ \A w \in Workers : job'[w] = j => job[w] = j \/ Receive(w, j)
           /\ \A c \in Clients : want'[c] = j => want[c] = j \/ Check(c, j)
<1>1. /\ None \notin Jobs /\ job \in [Workers -> Jobs \cup {None}]
      /\ want \in [Clients -> Jobs \cup {None}]
  BY AdmissionAssumption DEF TypeInv, TypeOK
<1>2. ASSUME NEW v \in Workers, WorkerStep(v), NEW w \in Workers, job'[w] = j
      PROVE  job[w] = j \/ Receive(w, j)
  <2>1. CASE \E i \in Jobs : Receive(v, i)
    BY <1>1, <1>2, <2>1 DEF Receive
  <2>2. CASE \/ Sweep(v) \/ Vanished(v) \/ Ack(v) \/ WorkerFails(v)
           \/ AckOnly(v) \/ EnqueueOnly(v)
    BY <1>1, <1>2, <2>2 DEF Sweep, Vanished, Ack, WorkerFails, AckOnly, EnqueueOnly,
                            HalfSettled, Return
  <2>3. CASE Stall(v) \/ Finish(v) \/ Terminate(v) \/ Link(v)
    BY <1>2, <2>3 DEF Stall, Finish, Terminate, Link
  <2>4. QED
    BY <1>2, <2>1, <2>2, <2>3 DEF WorkerStep, Work
<1>3. ASSUME NEW d \in Clients, ClientStep(d), NEW c \in Clients, want'[c] = j
      PROVE  want[c] = j \/ Check(c, j)
  <2>1. CASE \E i \in Jobs : Check(d, i)
    <3>1. PICK i \in Jobs : Check(d, i)
      BY <2>1
    <3>2. want' = [want EXCEPT ![d] = i]
      BY <3>1 DEF Check, Admitted
    <3>3. QED
      BY <1>1, <1>3, <3>1, <3>2
  <2>2. CASE Mark(d) \/ Send(d) \/ InitiateThrows(d)
    BY <1>1, <1>3, <2>2 DEF Mark, Send, InitiateThrows, Release
  <2>3. QED
    BY <1>3, <2>1, <2>2 DEF ClientStep, Initiate
<1>4. QED
  BY <1>2, <1>3, OthersMove DEF worker, client

LEMMA MessagedComes ==
    ASSUME TypeInv, [Next]_vars, NEW j \in Jobs, Messaged(j)', ~Messaged(j)
    PROVE  \/ \E c \in calls : <<j, "send">> \in c.rest /\ SendTask(c, <<j, "send">>)
           \/ j = <<j[1], 1>> /\ SendFirst(j[1])
           \/ \E c \in Clients : want[c] = j /\ Send(c)
           \/ \E w \in Workers : Next1(job[w]) = j /\ Link(w)
<1>1. root[j] \in Nat /\ root[j] = 0 /\ \A w \in Workers : job[w] # j
  BY DEF Messaged, TypeInv, TypeOK
<1>2. \A w \in Workers : ~Receive(w, j)
  BY <1>1 DEF Receive
<1>3. root'[j] # root[j]
  BY <1>1, <1>2, Takes DEF Messaged
<1>4. QED
  BY <1>1, <1>2, <1>3, QueueMoves
-------------------------------------------------------------------------------
\* The rows of a workflow that is meant to run are there, with those of all runs of its
\* request, unless a client was faster.
Ready(j) == JobsOf(j[1]) \subseteq Kept \/ Behind({"unmarked"}, j)

MessageInv == \A j \in Jobs : Meant(j) => Ready(j)

RowsInv == CallsInv /\ CreationInv /\ MessageInv

\* A window once open stays so, and for the runs behind too.
LEMMA BehindStays ==
    ASSUME TypeInv, [Next]_vars, NEW j \in Jobs, NEW ks \in SUBSET Windows
    PROVE  /\ Behind(ks, j) => Behind(ks, j)'
           /\ HasNext(j) /\ Behind(ks, j) => Behind(ks, Next1(j))
<1>1. \A k \in ks : hit[k] \subseteq hit'[k]
  BY HistoryGrows
<1>2. j[2] \in Nat /\ (HasNext(j) => Next1(j)[1] = j[1] /\ Next1(j)[2] = j[2] + 1)
  BY JobFacts
<1>3. Behind(ks, j) => Behind(ks, j)'
  BY <1>1 DEF Behind
<1>4. ASSUME HasNext(j), Behind(ks, j) PROVE Behind(ks, Next1(j))
  <2>1. PICK i \in 1..j[2], k \in ks : <<j[1], i>> \in hit[k]
    BY <1>4 DEF Behind
  <2>2. i \in 1..Next1(j)[2]
    BY <1>2, <1>4, <2>1
  <2>3. QED
    BY <1>2, <1>4, <2>1, <2>2 DEF Behind
<1>5. QED
  BY <1>3, <1>4

LEMMA ReadyStays ==
    ASSUME TypeInv, CallsInv, [Next]_vars, NEW j \in Jobs, Ready(j)
    PROVE  Ready(j)' /\ (HasNext(j) => Ready(Next1(j))')
<1>1. {"unmarked"} \in SUBSET Windows
  BY DEF Windows, Doubling
<1>2. Kept \subseteq Kept'
  BY RowsKept
<1>3. HasNext(j) => Next1(j) \in Jobs /\ Next1(j)[1] = j[1]
  BY JobFacts
<1>4. Behind({"unmarked"}, j) => /\ Behind({"unmarked"}, j)'
                                 /\ HasNext(j) => Behind({"unmarked"}, Next1(j))'
  BY <1>1, <1>3, BehindStays
<1>5. QED
  BY <1>2, <1>3, <1>4 DEF Ready

LEMMA MessageStep ==
    ASSUME TypeInv, RowsInv, [Next]_vars
    PROVE  MessageInv'
<1> SUFFICES ASSUME NEW j \in Jobs, Meant(j)' PROVE Ready(j)'
  BY DEF MessageInv
<1> USE DEF RowsInv
<1>1. CASE Meant(j)
  BY <1>1, ReadyStays DEF MessageInv
<1>2. ASSUME NEW c \in calls, <<j, "send">> \in c.rest, SendTask(c, <<j, "send">>)
      PROVE  Ready(j)'
  <2>1. c.by \in Batches /\ j \in JobsOf(c.by)
    <3>1. c.by \in Handlers /\ c.by \notin Loads
      BY DEF TypeInv, TypeOK, Tasked
    <3>2. c.by \notin Crons /\ c.by \notin Deletions
      BY <1>2 DEF TypeInv, Tasked
    <3>3. c.by \in Batches
      BY <3>1, <3>2 DEF Handlers, Requests
    <3>4. QED
      BY <1>2, <3>3 DEF TypeInv, Tasked
  <2>2. j[1] = c.by
    BY <2>1, JobFacts DEF Requests
  <2>3. QED
    BY <2>1, <2>2, RowsKept DEF CallsInv, Ready
<1>3. CASE j = <<j[1], 1>> /\ SendFirst(j[1])
  <2>1. /\ j[1] \in Crons /\ j[1] \in Requests /\ pc[j[1]] = "calls"
        /\ \A c \in calls : c.by # j[1]
    BY <1>3, JobFacts DEF SendFirst, Returned
  <2>2. JobsOf(j[1]) \subseteq (wf \cup gone) \cap (rt \cup gone)
    BY <2>1 DEF CreationInv, Pending
  <2>3. QED
    BY <2>2, RowsKept DEF Ready, Kept
<1>4. ASSUME NEW w \in Workers, Next1(job[w]) = j, Link(w) PROVE Ready(j)'
  <2>1. job[w] \in Jobs /\ HasNext(job[w]) /\ Meant(job[w])
    BY <1>4 DEF Link, TypeInv, TypeOK, Meant, Messaged
  <2>2. QED
    BY <1>4, <2>1, ReadyStays DEF MessageInv
<1>5. ASSUME NEW c \in Clients, Check(c, j) PROVE Ready(j)'
  <2>1. hit \in [Windows -> SUBSET Jobs]
    BY DEF TypeInv, TypeOK
  <2>2. CASE j[1] \in Loads
    <3>1. j \in wf \cap rt /\ JobsOf(j[1]) = {j}
      BY <1>5, <2>2, JobFacts DEF Check, Known
    <3>2. QED
      BY <3>1, RowsKept DEF Ready, Kept
  <2>3. CASE j[1] \notin Loads
    <3>1. j \in hit'["unmarked"]
      BY <1>5, <2>3 DEF Check, Admitted, Windows, Doubling
    <3>2. QED
      BY <3>1, JobFacts DEF Ready, Behind
  <2>4. QED
    BY <2>2, <2>3
<1>6. ASSUME ~Meant(j)
      PROVE  \/ \E c \in calls : <<j, "send">> \in c.rest /\ SendTask(c, <<j, "send">>)
             \/ j = <<j[1], 1>> /\ SendFirst(j[1])
             \/ \E w \in Workers : Next1(job[w]) = j /\ Link(w)
             \/ \E c \in Clients : Check(c, j)
  BY <1>6, MessagedComes, Takes DEF Meant
<1>7. QED
  BY <1>1, <1>2, <1>3, <1>4, <1>5, <1>6

LEMMA InitRows == Init => RowsInv
<1> SUFFICES ASSUME Init PROVE RowsInv
  OBVIOUS
<1>1. \A j \in Jobs : ~Meant(j)
  BY AdmissionAssumption DEF Init, Meant, Messaged
<1>2. CallsInv /\ CreationInv
  BY DEF Init, CallsInv, CreationInv, Handlers
<1>3. QED
  BY <1>1, <1>2 DEF RowsInv, MessageInv

LEMMA RowsStep == TypeInv /\ RowsInv /\ [Next]_vars => RowsInv'
  BY CallsStep, CreationStep, MessageStep DEF RowsInv

\* A message never comes before the rows of its workflow, unless a client initiated the
\* first run of a cron job that was still being created.
THEOREM RowsFirst == Spec => []RowsBeforeMessage
<1>1. TypeInv /\ RowsInv => RowsBeforeMessage
  <2> SUFFICES ASSUME TypeInv, RowsInv, NEW j \in Jobs \ gone, Messages(j) > 0
               PROVE  j \in wf \cap rt \/ Behind({"unmarked"}, j)
    BY DEF RowsBeforeMessage
  <2>1. Meant(j)
    BY MessagesCounted DEF Meant
  <2>2. j \in JobsOf(j[1])
    BY JobFacts
  <2>3. QED
    BY <2>1, <2>2 DEF RowsInv, MessageInv, Ready, Kept
<1>2. QED
  BY InitTypes, TypesStep, InitRows, RowsStep, <1>1, PTL DEF Spec
-------------------------------------------------------------------------------
(***************************************************************************)
(* No row is out of reach.                                                 *)
(***************************************************************************)

\* The rows of a batch are named by its note until they are deleted.
Noted ==
    \A r \in Batches :
       pc[r] \in {"calls", "done"} => \/ r \in notes \cup torn
                                      \/ JobsOf(r) \cap (wf \cup rt) = {}

\* How far a deletion is.
DeletionInv ==
    \A d \in Deletions :
       /\ pc[d] # "new" => pc[Target[d]] \in {"calls", "done"}
       /\ pc[d] = "calls" /\ Target[d] \in notes =>
             \A j \in JobsOf(Target[d]) : /\ j \in wf => Pending(d, j, "wf")
                                          /\ j \in rt => Pending(d, j, "rt")
       /\ answer[d] = "ok" => /\ pc[d] = "done"
                              /\ JobsOf(Target[d]) \cap (wf \cup rt) = {}

NotesInv == Noted /\ DeletionInv

LEMMA NoteMoves ==
    ASSUME [Next]_vars, NEW r
    PROVE  /\ r \in notes' \ notes => CreateNote(r)
           /\ r \in notes \ notes' =>
                 \E d \in Deletions : Target[d] = r /\ RemoveNote(d)
<1>1. \/ UNCHANGED notes
      \/ \E s \in Requests : CreateNote(s)
      \/ \E d \in Deletions : RemoveNote(d)
  BY DEF Next, Failure, Create, Delete, Loop, Initiate, Work, CreateWorkflows,
         CreateRuntimes, CreateNote, SendTask, AnswerBatch, LoadRuntime, StartCron,
         InsertTask, SendFirst, TaskThrows, CreateThrows, ServerCrash, ReadNote, DeleteTask,
         RemoveNote, Check, Admitted, Mark, Send, InitiateThrows, Receive, Sweep, Vanished,
         Stall, Finish, Terminate, Link, Ack, WorkerFails, AckOnly, EnqueueOnly,
         HalfSettled, Cleanup, rows, server, queues, worker, client, history, vars
<1>2. QED
  BY <1>1 DEF CreateNote, RemoveNote

\* How the handler of a deletion goes on.
LEMMA DeletionMoves ==
    ASSUME TypeInv, [Next]_vars, NEW d \in Deletions
    PROVE  \/ pc'[d] = pc[d] /\ answer'[d] = answer[d]
           \/ Delete(d)
           \/ pc[d] = "calls" /\ pc'[d] = "done" /\ answer'[d] \in {answer[d], "error"}
<1> USE DEF TypeInv, TypeOK, GoTo, Handlers
<1>1. CASE UNCHANGED server
  BY <1>1 DEF server
<1>2. ASSUME NEW r \in Requests, Create(r) \/ CreateThrows(r)
      PROVE  pc'[d] = pc[d] /\ answer'[d] = answer[d]
  <2>1. r # d
    BY AdmissionAssumption
  <2>2. QED
    BY <1>2, <2>1 DEF Create, CreateThrows, CreateWorkflows, CreateRuntimes, CreateNote,
                      AnswerBatch, LoadRuntime, StartCron, SendFirst, Started
<1>3. ASSUME NEW e \in Deletions, e # d, Delete(e)
      PROVE  pc'[d] = pc[d] /\ answer'[d] = answer[d]
  BY <1>3 DEF Delete, ReadNote, RemoveNote
<1>4. ASSUME NEW c \in calls, NEW t \in c.rest,
             SendTask(c, t) \/ InsertTask(c, t) \/ DeleteTask(c, t) \/ TaskThrows(c, t)
      PROVE  \/ pc'[d] = pc[d] /\ answer'[d] = answer[d]
             \/ pc[d] = "calls" /\ pc'[d] = "done" /\ answer'[d] = "error"
  BY <1>4 DEF SendTask, InsertTask, DeleteTask, TaskThrows
<1>5. ASSUME NEW g \in Handlers, ServerCrash(g)
      PROVE  \/ pc'[d] = pc[d] /\ answer'[d] = answer[d]
             \/ pc[d] = "calls" /\ pc'[d] = "done" /\ answer'[d] = answer[d]
  BY <1>5 DEF ServerCrash, Stands
<1>6. QED
  BY <1>1, <1>2, <1>3, <1>4, <1>5, ServerMoves

\* Once a batch is created no row of it comes.
LEMMA NoRowsComeBack ==
    ASSUME TypeInv, [Next]_vars, NEW r \in Batches, pc[r] \in {"calls", "done"}
    PROVE  JobsOf(r) \cap wf' \subseteq wf /\ JobsOf(r) \cap rt' \subseteq rt
<1>1. r \in Requests /\ r \notin Crons
  BY AdmissionAssumption DEF Requests
<1>2. \A j \in JobsOf(r) : j \in Jobs /\ j[1] = r
  BY <1>1, JobFacts
<1>3. ~CreateWorkflows(r) /\ ~CreateRuntimes(r) /\ ~LoadRuntime(r)
  BY DEF CreateWorkflows, CreateRuntimes, LoadRuntime, Started
<1>4. QED
  BY <1>1, <1>2, <1>3, RowsCome

\* A deletion whose loops have returned has deleted all rows.
LEMMA Emptied ==
    ASSUME NotesInv, NEW d \in Deletions, RemoveNote(d), Target[d] \in notes
    PROVE  JobsOf(Target[d]) \cap (wf' \cup rt') = {}
<1>1. pc[d] = "calls" /\ \A c \in calls : c.by # d
  BY DEF RemoveNote, Returned
<1>2. \A j : ~Pending(d, j, "wf") /\ ~Pending(d, j, "rt")
  BY <1>1 DEF Pending
<1>3. \A j \in JobsOf(Target[d]) : j \notin wf /\ j \notin rt
  BY <1>1, <1>2 DEF NotesInv, DeletionInv
<1>4. UNCHANGED <<wf, rt>>
  BY DEF RemoveNote, rows
<1>5. QED
  BY <1>3, <1>4

LEMMA NotedStep ==
    ASSUME TypeInv, NotesInv, [Next]_vars
    PROVE  Noted'
<1> SUFFICES ASSUME NEW r \in Batches, pc'[r] \in {"calls", "done"}
             PROVE  \/ r \in notes' \cup torn'
                    \/ JobsOf(r) \cap (wf' \cup rt') = {}
  BY DEF Noted
<1>1. CASE pc[r] \in {"calls", "done"}
  <2>1. CASE r \in torn
    BY <2>1, HistoryGrows
  <2>2. CASE r \in notes
    BY <2>2, NoteMoves, Emptied
  <2>3. CASE JobsOf(r) \cap (wf \cup rt) = {}
    BY <1>1, <2>3, NoRowsComeBack
  <2>4. QED
    BY <1>1, <2>1, <2>2, <2>3 DEF NotesInv, Noted
<1>2. CASE pc[r] \notin {"calls", "done"}
  <2>1. r \in Requests /\ r \in Handlers /\ r \notin Crons \cup Loads
    BY AdmissionAssumption DEF Requests, Handlers
  <2>2. Create(r) => CreateNote(r)
    BY <1>2, <2>1 DEF Create, CreateWorkflows, CreateRuntimes, CreateNote, AnswerBatch,
                      LoadRuntime, StartCron, SendFirst, Returned, GoTo, TypeInv, TypeOK
  <2>3. CASE CreateNote(r)
    BY <2>3 DEF CreateNote
  <2>4. QED
    BY <1>2, <2>1, <2>2, <2>3, CreationMoves
<1>3. QED
  BY <1>1, <1>2

LEMMA DeletionStep ==
    ASSUME TypeInv, NotesInv, [Next]_vars
    PROVE  DeletionInv'
<1> SUFFICES ASSUME NEW d \in Deletions
             PROVE  /\ pc'[d] # "new" => pc'[Target[d]] \in {"calls", "done"}
                    /\ pc'[d] = "calls" /\ Target[d] \in notes' =>
                          \A j \in JobsOf(Target[d]) : /\ j \in wf' => Pending(d, j, "wf")'
                                                       /\ j \in rt' => Pending(d, j, "rt")'
                    /\ answer'[d] = "ok" => /\ pc'[d] = "done"
                                            /\ JobsOf(Target[d]) \cap (wf' \cup rt') = {}
  BY DEF DeletionInv
<1> DEFINE b == Target[d]
<1>1. /\ b \in Batches /\ b \in Handlers /\ d \in Handlers
      /\ d \notin Batches \cup Crons \cup Loads
  BY AdmissionAssumption DEF Requests, Handlers
<1>2. /\ pc[d] # "new" => pc[b] \in {"calls", "done"}
      /\ pc[d] = "calls" /\ b \in notes =>
             \A j \in JobsOf(b) : /\ j \in wf => Pending(d, j, "wf")
                                  /\ j \in rt => Pending(d, j, "rt")
      /\ answer[d] = "ok" => pc[d] = "done" /\ JobsOf(b) \cap (wf \cup rt) = {}
  BY DEF NotesInv, DeletionInv
<1>3. /\ pc \in [Handlers -> {"new", "runtimes", "note", "calls", "done"}]
      /\ answer \in [Handlers -> {"none", "ok", "error", "missing"}]
  BY DEF TypeInv, TypeOK
<1>4. pc'[d] # "new" => pc[b] \in {"calls", "done"} /\ pc'[b] \in {"calls", "done"}
  <2>1. Delete(d) => pc[b] \in {"calls", "done"}
    BY <1>2 DEF Delete, ReadNote, RemoveNote, Returned
  <2>2. QED
    BY <1>1, <1>2, <2>1, DeletionMoves, ForGood
<1>5. ASSUME pc'[d] = "calls", b \in notes'
      PROVE  \A j \in JobsOf(b) : /\ j \in wf' => Pending(d, j, "wf")'
                                  /\ j \in rt' => Pending(d, j, "rt")'
  <2>1. b \in notes
    BY <1>4, <1>5, NoteMoves DEF CreateNote
  <2>2. CASE pc[d] = "calls"
    <3>1. JobsOf(b) \cap wf' \subseteq wf /\ JobsOf(b) \cap rt' \subseteq rt
      BY <1>1, <1>4, <1>5, NoRowsComeBack
    <3>2. ASSUME NEW kind \in {"wf", "rt"}, NEW j \in JobsOf(b), Pending(d, j, kind)
          PROVE  Pending(d, j, kind)' \/ IF kind = "wf" THEN j \notin wf' ELSE j \notin rt'
      <4>1. ASSUME NEW c \in calls, c.by = d,
                   \/ SendTask(c, <<j, kind>>)
                   \/ InsertTask(c, <<j, kind>>) \/ DeleteTask(c, <<j, kind>>)
            PROVE  IF kind = "wf" THEN j \notin wf' ELSE j \notin rt'
        BY <1>1, <4>1 DEF SendTask, InsertTask, DeleteTask, Remove
      <4>2. QED
        BY <1>1, <1>5, <3>2, <4>1, PendingStays
    <3>3. ASSUME NEW j \in JobsOf(b)
          PROVE  /\ j \in wf' => Pending(d, j, "wf")'
                 /\ j \in rt' => Pending(d, j, "rt")'
      <4>1. j \in wf' => Pending(d, j, "wf")
        BY <1>2, <2>1, <2>2, <3>1
      <4>2. j \in rt' => Pending(d, j, "rt")
        BY <1>2, <2>1, <2>2, <3>1
      <4>3. QED
        BY <3>2, <4>1, <4>2
    <3>4. QED
      BY <3>3
  <2>3. CASE ReadNote(d)
    <3> DEFINE e == Call(d, JobsOf(b) \X {"wf", "rt"})
    <3>1. e \in calls'
      BY <2>1, <2>3 DEF ReadNote
    <3>2. e.by = d /\ e.rest = JobsOf(b) \X {"wf", "rt"}
      BY DEF Call
    <3> HIDE DEF e
    <3>3. QED
      BY <3>1, <3>2 DEF Pending
  <2>4. ~RemoveNote(d)
    BY <1>1, <1>3, <1>5 DEF RemoveNote, GoTo
  <2>5. QED
    BY <1>5, <2>2, <2>3, <2>4, DeletionMoves DEF Delete
<1>6. ASSUME answer'[d] = "ok"
      PROVE  pc'[d] = "done" /\ JobsOf(b) \cap (wf' \cup rt') = {}
  <2>1. CASE answer[d] = "ok"
    <3>1. pc[d] = "done" /\ JobsOf(b) \cap (wf \cup rt) = {} /\ pc[b] \in {"calls", "done"}
      BY <1>2, <2>1
    <3>2. pc'[d] = "done"
      BY <1>1, <1>3, <3>1, DeletionMoves DEF Delete, ReadNote, RemoveNote, Returned
    <3>3. QED
      BY <1>1, <3>1, <3>2, NoRowsComeBack
  <2>2. CASE answer[d] # "ok"
    <3>1. RemoveNote(d)
      BY <1>6, <2>2, DeletionMoves DEF Delete, ReadNote
    <3>2. pc'[d] = "done" /\ Status(d) = "ok"
      BY <1>1, <1>3, <1>6, <3>1 DEF RemoveNote, GoTo
    <3>3. QED
      BY <3>1, <3>2, Emptied DEF Status
  <2>3. QED
    BY <2>1, <2>2
<1>7. QED
  BY <1>4, <1>5, <1>6

LEMMA InitNotes == Init => NotesInv
  BY AdmissionAssumption DEF Init, NotesInv, Noted, DeletionInv, Handlers, Requests

LEMMA NotesStep == TypeInv /\ NotesInv /\ [Next]_vars => NotesInv'
  BY NotedStep, DeletionStep DEF NotesInv

\* Every row is named by a note, or of a workflow that has both its rows, unless a fault
\* hit its creation or its removal began; and what was deleted with a 200 is gone.
THEOREM NoneOrphaned == Spec => []NoOrphans
<1>1. TypeInv /\ RowsInv /\ NotesInv => NoOrphans
  <2> SUFFICES ASSUME TypeInv, RowsInv, NotesInv PROVE NoOrphans
    OBVIOUS
  <2>1. pc \in [Handlers -> {"new", "runtimes", "note", "calls", "done"}]
    BY DEF TypeInv, TypeOK
  <2>2. ASSUME NEW r \in (Batches \ notes) \ torn, JobsOf(r) \cap (wf \cup rt) # {}
        PROVE  pc[r] \in {"runtimes", "note"}
    BY <2>1, <2>2 DEF Requests, Handlers, RowsInv, CreationInv, NotesInv, Noted
  <2>3. ASSUME NEW j \in (wf \ rt) \cup (rt \ wf)
        PROVE  j \in gone \/ j[1] \in torn \/ pc[j[1]] \in {"runtimes", "calls"}
    <3>1. j \in Jobs
      BY DEF TypeInv, TypeOK
    <3>2. j[1] \in Requests /\ j \in JobsOf(j[1])
      BY <3>1, JobFacts
    <3>3. QED
      BY <2>1, <2>3, <3>2 DEF Handlers, RowsInv, CreationInv, Kept
  <2>4. QED
    BY <2>2, <2>3 DEF NotesInv, DeletionInv, NoOrphans
<1>2. QED
  BY InitTypes, TypesStep, InitRows, RowsStep, InitNotes, NotesStep, <1>1, PTL DEF Spec
-------------------------------------------------------------------------------
(***************************************************************************)
(* One message drives a workflow.                                          *)
(***************************************************************************)

\* Runs of a cron job are linked in their order.
ChainInv ==
    /\ \A w \in Workers : wpc[w] \in {"link", "linked"} => job[w] \in ran
    /\ \A c \in Clients : want[c] # None => First(want[c])
    /\ \A j \in Jobs : HasNext(j) /\ Messaged(Next1(j)) => j \in ran

\* A workflow that says it is initiated has a message, or a client about to send it.
FlagInv ==
    \A j \in initiated \ (hit["stranded"] \cup hit["lost"]) :
       \/ root[j] > 0
       \/ \E w \in Workers : job[w] = j /\ wpc[w] \in {"work", "sweep", "stuck"}
       \/ \E c \in Clients : want[c] = j /\ cpc[c] = "send"

\* A worker or a client that does not move keeps what it has.
LEMMA Stays ==
    ASSUME TypeInv, [Next]_vars
    PROVE  /\ \A w \in Workers : (wpc'[w] = wpc[w] /\ job'[w] = job[w]) \/ WorkerStep(w)
           /\ \A c \in Clients : (cpc'[c] = cpc[c] /\ want'[c] = want[c]) \/ ClientStep(c)
<1>1. ASSUME NEW v \in Workers, WorkerStep(v), NEW w \in Workers, v # w
      PROVE  wpc'[w] = wpc[w] /\ job'[w] = job[w]
  <2>1. CASE \E i \in Jobs : Receive(v, i)
    BY <1>1, <2>1 DEF Receive, Message, TypeInv, TypeOK
  <2>2. CASE \/ Sweep(v) \/ Vanished(v) \/ Ack(v) \/ WorkerFails(v)
           \/ AckOnly(v) \/ EnqueueOnly(v)
    BY <1>1, <2>2 DEF Sweep, Vanished, Ack, WorkerFails, AckOnly, EnqueueOnly, HalfSettled,
                      Message, Return, TypeInv, TypeOK
  <2>3. CASE Stall(v) \/ Finish(v) \/ Terminate(v) \/ Link(v)
    BY <1>1, <2>3 DEF Stall, Finish, Terminate, Link, Message, TypeInv, TypeOK
  <2>4. QED
    BY <1>1, <2>1, <2>2, <2>3 DEF WorkerStep, Work
<1>2. ASSUME NEW d \in Clients, ClientStep(d), NEW c \in Clients, d # c
      PROVE  cpc'[c] = cpc[c] /\ want'[c] = want[c]
  <2>1. CASE \E i \in Jobs : Check(d, i)
    <3>1. PICK i \in Jobs : Check(d, i)
      BY <2>1
    <3>2. cpc' = [cpc EXCEPT ![d] = "mark"] /\ want' = [want EXCEPT ![d] = i]
      BY <3>1 DEF Check, Admitted
    <3>3. QED
      BY <1>2, <3>2 DEF TypeInv, TypeOK
  <2>2. CASE Mark(d) \/ Send(d) \/ InitiateThrows(d)
    BY <1>2, <2>2 DEF Mark, Send, InitiateThrows, Release, TypeInv, TypeOK
  <2>3. QED
    BY <1>2, <2>1, <2>2 DEF ClientStep, Initiate
<1>3. QED
  BY <1>1, <1>2, OthersMove DEF worker, client

\* The workflow of a send task is of a batch.
LEMMA SendsOfBatches ==
    ASSUME TypeInv, NEW c \in calls, NEW j \in Jobs, <<j, "send">> \in c.rest
    PROVE  c.by \in Batches /\ j[1] = c.by
<1>1. c.by \in Handlers /\ c.by \notin Loads
  BY DEF TypeInv, TypeOK, Tasked
<1>2. c.by \notin Crons /\ c.by \notin Deletions
  BY DEF TypeInv, Tasked
<1>3. c.by \in Batches
  BY <1>1, <1>2 DEF Handlers, Requests
<1>4. j \in JobsOf(c.by)
  BY <1>3 DEF TypeInv, Tasked
<1>5. QED
  BY <1>3, <1>4, JobFacts DEF Requests

LEMMA ChainStep ==
    ASSUME TypeInv, ChainInv, [Next]_vars
    PROVE  ChainInv'
<1>1. ASSUME NEW w \in Workers, wpc'[w] \in {"link", "linked"}
      PROVE  job'[w] \in ran'
  <2>1. CASE wpc'[w] = wpc[w] /\ job'[w] = job[w]
    BY <1>1, <2>1, HistoryGrows DEF ChainInv
  <2>2. CASE Finish(w) \/ Link(w)
    BY <2>2 DEF Finish, Link, ChainInv, history
  <2>3. CASE (\E j \in Jobs : Receive(w, j)) \/ Stall(w) \/ Terminate(w)
    BY <1>1, <2>3 DEF Receive, Stall, Terminate, Message, TypeInv, TypeOK
  <2>4. CASE \/ Sweep(w) \/ Vanished(w) \/ Ack(w) \/ WorkerFails(w)
           \/ AckOnly(w) \/ EnqueueOnly(w)
    BY <1>1, <2>4 DEF Sweep, Vanished, Ack, WorkerFails, AckOnly, EnqueueOnly, HalfSettled,
                      Return, Message, TypeInv, TypeOK
  <2>5. QED
    BY <2>1, <2>2, <2>3, <2>4, Stays DEF WorkerStep, Work
<1>2. ASSUME NEW c \in Clients, want'[c] # None
      PROVE  First(want'[c])
  <2>1. want'[c] \in Jobs
    BY <1>2, ClientTypes
  <2>2. want[c] = want'[c] \/ Check(c, want'[c])
    BY <2>1, Takes
  <2>3. QED
    BY <1>2, <2>2 DEF ChainInv, Check
<1>3. ASSUME NEW j \in Jobs, HasNext(j), Messaged(Next1(j))'
      PROVE  j \in ran'
  <2> DEFINE i == Next1(j)
  <2>1. /\ i \in Jobs /\ i[1] \in Crons /\ i[2] # 1 /\ i[1] \notin Batches
        /\ j = <<j[1], j[2]>> /\ j[1] = i[1] /\ j[2] = i[2] - 1
    BY <1>3, JobFacts, AdmissionAssumption DEF HasNext
  <2> HIDE DEF i
  <2>2. CASE Messaged(i)
    BY <1>3, <2>2, HistoryGrows DEF ChainInv, i
  <2>3. ~First(i) /\ i # <<i[1], 1>>
    BY <2>1 DEF First
  <2>4. ASSUME NEW w \in Workers, Next1(job[w]) = i, Link(w)
        PROVE  j \in ran
    <3>1. job[w] \in ran /\ job[w] \in Jobs
      BY <2>4 DEF ChainInv, Link, TypeInv, TypeOK
    <3>2. job[w][1] = i[1] /\ job[w][2] = i[2] - 1 /\ job[w] = <<job[w][1], job[w][2]>>
      BY <2>4, <3>1, JobFacts DEF Next1
    <3>3. QED
      BY <2>1, <3>1, <3>2
  <2>5. ASSUME ~Messaged(i)
        PROVE  \E w \in Workers : Next1(job[w]) = i /\ Link(w)
    <3>1. Messaged(i)'
      BY <1>3 DEF i, Messaged
    <3>2. \A c \in Clients : want[c] # i
      BY <2>1, <2>3, AdmissionAssumption DEF ChainInv
    <3>3. QED
      BY <2>1, <2>3, <2>5, <3>1, <3>2, MessagedComes, SendsOfBatches
  <2>6. QED
    BY <2>2, <2>4, <2>5, HistoryGrows
<1>4. QED
  BY <1>1, <1>2, <1>3 DEF ChainInv

LEMMA FlagStep ==
    ASSUME TypeInv, FlagInv, [Next]_vars
    PROVE  FlagInv'
<1> SUFFICES ASSUME NEW j \in initiated', j \notin hit'["stranded"] \cup hit'["lost"]
             PROVE  \/ root'[j] > 0
                    \/ \E w \in Workers : job'[w] = j /\ wpc'[w] \in {"work", "sweep", "stuck"}
                    \/ \E c \in Clients : want'[c] = j /\ cpc'[c] = "send"
  BY DEF FlagInv
<1>1. j \in Jobs /\ root[j] \in Nat /\ root'[j] \in Nat
  BY RowTypes, QueueTypes DEF TypeInv, TypeOK, RowTypeOK
<1>2. j \notin hit["stranded"] \cup hit["lost"]
  BY HistoryGrows DEF Windows, Doubling
<1>3. j \in initiated \/ \E c \in Clients : Mark(c) /\ want[c] = j /\ j \in wf
  <2>1. \/ initiated' \subseteq initiated
        \/ \E c \in Clients : Mark(c) /\ want[c] \in wf /\ initiated' = initiated \cup {want[c]}
    BY DEF Next, Failure, Create, Delete, Loop, Initiate, Work, CreateWorkflows,
           CreateRuntimes, CreateNote, SendTask, AnswerBatch, LoadRuntime, StartCron,
           InsertTask, SendFirst, TaskThrows, CreateThrows, ServerCrash, ReadNote,
           DeleteTask, RemoveNote, Check, Admitted, Mark, Send, InitiateThrows, Receive,
           Sweep, Vanished, Stall, Finish, Terminate, Link, Ack, WorkerFails, AckOnly,
           EnqueueOnly, HalfSettled, Cleanup, rows, server, queues, worker, client, history,
           vars, Remove
  <2>2. QED
    BY <2>1
<1>4. ASSUME NEW c \in Clients, Mark(c), want[c] = j, j \in wf
      PROVE  want'[c] = j /\ cpc'[c] = "send"
  BY <1>4 DEF Mark, TypeInv, TypeOK
<1>5. CASE j \in initiated /\ root[j] > 0
  <2>1. ASSUME NEW w \in Workers, Receive(w, j)
        PROVE  job'[w] = j /\ wpc'[w] \in {"work", "sweep", "stuck"}
    BY <2>1 DEF Receive, Message, TypeInv, TypeOK
  <2>2. \/ root'[j] = root[j] \/ root'[j] = root[j] + 1 \/ root'[j] = root[j] + 2
        \/ \E w \in Workers : Receive(w, j)
    BY <1>1, QueueMoves
  <2>3. QED
    BY <1>1, <1>5, <2>1, <2>2
<1>6. ASSUME j \in initiated, NEW w \in Workers, job[w] = j,
             wpc[w] \in {"work", "sweep", "stuck"}
      PROVE  root'[j] > 0 \/ (job'[w] = j /\ wpc'[w] \in {"work", "sweep", "stuck"})
  <2>1. CASE Sweep(w) \/ Finish(w) \/ Terminate(w)
    BY <1>6, <2>1 DEF Sweep, Finish, Terminate, Remove
  <2>2. CASE Vanished(w) \/ WorkerFails(w) \/ EnqueueOnly(w)
    BY <1>1, <1>6, <2>2 DEF Vanished, WorkerFails, EnqueueOnly, Enqueue, TypeInv, TypeOK
  <2>3. CASE (\E i \in Jobs : Receive(w, i)) \/ Link(w) \/ Ack(w)
    BY <1>6, <2>3 DEF Receive, Link, Ack
  <2>4. CASE Stall(w)
    BY <1>6, <2>4 DEF Stall, Message, TypeInv, TypeOK
  <2>5. CASE AckOnly(w)
    BY <1>6, <2>5 DEF AckOnly, Hit, Windows, Doubling, TypeInv, TypeOK
  <2>6. QED
    BY <1>6, <2>1, <2>2, <2>3, <2>4, <2>5, Stays DEF WorkerStep, Work
<1>7. ASSUME j \in initiated, NEW c \in Clients, want[c] = j, cpc[c] = "send"
      PROVE  root'[j] > 0 \/ (want'[c] = j /\ cpc'[c] = "send")
  <2>1. CASE Send(c)
    BY <1>1, <1>7, <2>1 DEF Send, Enqueue, TypeInv, TypeOK
  <2>2. CASE InitiateThrows(c)
    BY <1>7, <2>2 DEF InitiateThrows, Hit, Windows, Doubling, TypeInv, TypeOK
  <2>3. CASE (\E i \in Jobs : Check(c, i)) \/ Mark(c)
    BY <1>7, <2>3 DEF Check, Mark
  <2>4. QED
    BY <1>7, <2>1, <2>2, <2>3, Stays DEF ClientStep, Initiate
<1>8. QED
  BY <1>2, <1>3, <1>4, <1>5, <1>6, <1>7 DEF FlagInv
-------------------------------------------------------------------------------
\* No window was open for j through which a second message comes.
Clean(j) == ~Behind(Doubling, j)

\* The loops of a batch send its messages once.
OneCall == \A c, d \in calls : c.by = d.by /\ c.by \in Batches => c = d

\* The message of j is still to come from the request that creates it.
Unsent(j) ==
    \/ /\ j[1] \in Batches
       /\ pc[j[1]] \in {"new", "runtimes", "note"} \/ Pending(j[1], j, "send")
    \/ j[1] \in Crons /\ pc[j[1]] # "done"
    \/ j[1] \in Loads /\ pc[j[1]] = "new"

\* It is in the queue or with one worker.
Lone(j) ==
    /\ root[j] <= 1
    /\ \A w \in Workers : job[w] = j => root[j] = 0
    /\ \A w, v \in Workers : job[w] = j /\ job[v] = j => w = v

\* It is loaded, and one client is about to send it.
Wanted(j) ==
    \A c \in Clients : want[c] = j =>
       /\ j[1] \in Loads /\ pc[j[1]] # "new"
       /\ ~Messaged(j)
       /\ \A d \in Clients : want[d] = j => d = c
       /\ cpc[c] = "send" /\ j \in wf => j \in initiated

\* The request of another client for it does not pass.
Flagged(j) == j[1] \in Loads /\ Messaged(j) /\ j \in wf => j \in initiated \cup ran \cup failed

\* The runs before it have had theirs.
Led(j) ==
    Messaged(j) =>
       \A p \in Jobs : p[1] = j[1] /\ j[1] \in Crons /\ p[2] < j[2] =>
          root[p] = 0 /\ \A w \in Workers : job[w] = p => wpc[w] = "linked"

Single(j) == Lone(j) /\ (Unsent(j) => ~Messaged(j)) /\ Wanted(j) /\ Flagged(j) /\ Led(j)

SingleInv == OneCall /\ \A j \in Jobs : Clean(j) => Single(j)

\* A message of j comes, which is not one that goes back.
Source(j) ==
    \/ \E c \in calls : <<j, "send">> \in c.rest /\ SendTask(c, <<j, "send">>)
    \/ j = <<j[1], 1>> /\ SendFirst(j[1])
    \/ \E c \in Clients : want[c] = j /\ Send(c)
    \/ \E w \in Workers : Next1(job[w]) = j /\ Link(w)

LEMMA CleanAhead ==
    ASSUME NEW j \in Jobs, NEW p \in Jobs, p[1] = j[1], p[2] <= j[2], Clean(j)
    PROVE  Clean(p)
<1> SUFFICES ASSUME NEW i \in 1..p[2], NEW k \in Doubling,
                    <<p[1], i>> \in hit[k]
             PROVE  FALSE
  BY DEF Clean, Behind
<1>1. p[2] \in Nat /\ j[2] \in Nat
  BY JobFacts
<1>2. i \in 1..j[2]
  BY <1>1
<1>3. QED
  BY <1>2 DEF Clean, Behind

LEMMA CleanBefore ==
    ASSUME TypeInv, [Next]_vars, NEW j \in Jobs, Clean(j)'
    PROVE  /\ Clean(j)
           /\ \A p \in Jobs : p[1] = j[1] /\ p[2] <= j[2] => Clean(p)' /\ Clean(p)
<1>1. \A i \in Jobs : Clean(i)' => Clean(i)
  <2>1. Doubling \in SUBSET Windows
    BY DEF Windows
  <2>2. \A i \in Jobs : Behind(Doubling, i) => Behind(Doubling, i)'
    BY <2>1, BehindStays
  <2>3. QED
    BY <2>2 DEF Clean
<1>2. ASSUME NEW p \in Jobs, p[1] = j[1], p[2] <= j[2] PROVE Clean(p)'
  <2> SUFFICES ASSUME NEW i \in 1..p[2], NEW k \in Doubling,
                      <<p[1], i>> \in hit'[k]
               PROVE  FALSE
    BY DEF Clean, Behind
  <2>1. p[2] \in Nat /\ j[2] \in Nat
    BY JobFacts
  <2>2. i \in 1..j[2]
    BY <1>2, <2>1
  <2>3. QED
    BY <1>2, <2>2 DEF Clean, Behind
<1>3. QED
  BY <1>1, <1>2

\* Whose run a worker links.
LEMMA LinkFacts ==
    ASSUME TypeInv, NEW w \in Workers, NEW j \in Jobs, Link(w), Next1(job[w]) = j
    PROVE  /\ job[w] \in Jobs /\ job[w][1] = j[1] /\ job[w][2] = j[2] - 1
           /\ j[1] \in Crons /\ Messaged(job[w]) /\ wpc[w] = "link"
<1>1. wpc[w] = "link" /\ job[w] \in Jobs /\ HasNext(job[w])
  BY DEF Link, TypeInv, TypeOK
<1>2. j[1] = job[w][1] /\ j[2] = job[w][2] + 1 /\ job[w][2] \in Nat
  BY <1>1, JobFacts
<1>3. QED
  BY <1>1, <1>2 DEF HasNext, Messaged

\* Before a message of j comes there was none, and then there is one.
LEMMA SourceFacts ==
    ASSUME TypeInv, [Next]_vars, SingleInv, NEW j \in Jobs, Clean(j), Source(j)
    PROVE  ~Messaged(j) /\ root'[j] = 1 /\ (\A w \in Workers : job'[w] # j)
<1>1. Single(j)
  BY DEF SingleInv
<1>2. root \in [Jobs -> Nat]
  BY DEF TypeInv, TypeOK
<1>3. ASSUME NEW c \in calls, <<j, "send">> \in c.rest, SendTask(c, <<j, "send">>)
      PROVE  ~Messaged(j) /\ root'[j] = root[j] + 1
  <2>1. Unsent(j)
    BY <1>3, SendsOfBatches DEF Unsent, Pending
  <2>2. QED
    BY <1>1, <1>2, <1>3, <2>1 DEF Single, SendTask, Enqueue
<1>4. CASE j = <<j[1], 1>> /\ SendFirst(j[1])
  <2>1. Unsent(j)
    BY <1>4 DEF SendFirst, Returned, Unsent
  <2>2. root' = [root EXCEPT ![j] = @ + 1]
    BY <1>4 DEF SendFirst, Enqueue
  <2>3. ~Messaged(j) /\ root'[j] = root[j] + 1
    BY <1>1, <1>2, <2>1, <2>2 DEF Single
  <2>4. QED
    BY <2>3, <1>2, Takes DEF Messaged, Receive
<1>5. ASSUME NEW c \in Clients, want[c] = j, Send(c)
      PROVE  ~Messaged(j) /\ root'[j] = root[j] + 1
  BY <1>1, <1>2, <1>5 DEF Single, Wanted, Send, Enqueue
<1>6. ASSUME NEW w \in Workers, Next1(job[w]) = j, Link(w)
      PROVE  ~Messaged(j) /\ root'[j] = root[j] + 1
  <2>1. /\ job[w] \in Jobs /\ job[w][1] = j[1] /\ job[w][2] = j[2] - 1
        /\ j[1] \in Crons /\ wpc[w] = "link"
    BY <1>6, LinkFacts
  <2>2. j[2] \in Nat
    BY JobFacts
  <2>3. ~Messaged(j)
    BY <1>1, <2>1, <2>2 DEF Single, Led
  <2>4. QED
    BY <1>2, <1>6, <2>3 DEF Link, Enqueue
<1>7. ~Messaged(j) => root[j] = 0 /\ \A w \in Workers : job[w] # j /\ ~Receive(w, j)
  BY <1>2 DEF Messaged, Receive
<1>8. QED
  BY <1>3, <1>4, <1>5, <1>6, <1>7, Takes DEF Source

LEMMA OneCallStep ==
    ASSUME TypeInv, OneCall, [Next]_vars
    PROVE  OneCall'
<1>1. ASSUME NEW c \in calls, NEW t \in c.rest,
             SendTask(c, t) \/ InsertTask(c, t) \/ DeleteTask(c, t) \/ TaskThrows(c, t)
      PROVE  OneCall'
  <2>1. PICK l \in {c.loops, c.loops - 1} : calls' = Without(c, t, l)
    BY <1>1 DEF SendTask, InsertTask, DeleteTask, TaskThrows
  <2> DEFINE e0 == [c EXCEPT !.rest = @ \ {t}, !.loops = l]
  <2>2. calls' \subseteq (calls \ {c}) \cup {e0}
    BY <2>1 DEF Without
  <2>3. c.by = e0.by
    BY DEF TypeInv, TypeOK
  <2> HIDE DEF e0
  <2>4. QED
    BY <2>2, <2>3 DEF OneCall
<1>2. ASSUME NEW r \in Batches, CreateNote(r)
      PROVE  OneCall'
  <2> DEFINE e == Call(r, JobsOf(r) \X {"send"})
  <2>1. calls' = calls \cup {e} /\ pc[r] = "note"
    BY <1>2 DEF CreateNote
  <2>2. e.by = r
    BY DEF Call
  <2> HIDE DEF e
  <2>3. \A c \in calls : c.by # r
    BY <2>1 DEF TypeInv, Tasked
  <2>4. QED
    BY <2>1, <2>2, <2>3 DEF OneCall
<1>3. ASSUME \/ \E r \in Crons : StartCron(r)
             \/ \E d \in Deletions : ReadNote(d) /\ Target[d] \in notes
      PROVE  OneCall'
  <2>1. \A c \in calls' \ calls : c.by \in Crons \cup Deletions
    BY <1>3 DEF StartCron, ReadNote, Call
  <2>2. Batches \cap (Crons \cup Deletions) = {}
    BY AdmissionAssumption DEF Requests
  <2>3. QED
    BY <2>1, <2>2 DEF OneCall
<1>4. QED
  BY <1>1, <1>2, <1>3, CallMoves DEF OneCall

\* Two messages instead of one open a window.
LEMMA NotTwice ==
    ASSUME TypeInv, NEW j \in Jobs, Clean(j)'
    PROVE  \A w \in Workers : job[w] = j => ~EnqueueOnly(w)
<1> SUFFICES ASSUME NEW w \in Workers, job[w] = j, EnqueueOnly(w) PROVE FALSE
  OBVIOUS
<1>1. j \in hit'["twice"]
  BY DEF EnqueueOnly, Hit, Windows, Doubling, TypeInv, TypeOK
<1>2. j = <<j[1], j[2]>> /\ j[2] \in 1..j[2]
  BY JobFacts
<1>3. QED
  BY <1>1, <1>2 DEF Clean, Behind, Doubling

LEMMA LoneStep ==
    ASSUME TypeInv, [Next]_vars, SingleInv, NEW j \in Jobs, Clean(j), Clean(j)'
    PROVE  Lone(j)'
<1>1. Lone(j)
  BY DEF SingleInv, Single
<1>2. root[j] \in Nat /\ None \notin Jobs
  BY AdmissionAssumption DEF TypeInv, TypeOK
<1>3. CASE Source(j)
  BY <1>3, SourceFacts DEF Lone
<1>4. ASSUME NEW w \in Workers, Receive(w, j)
      PROVE  Lone(j)'
  <2>1. root[j] = 1 /\ root'[j] = 0
    BY <1>1, <1>2, <1>4 DEF Lone, Receive, TypeInv, TypeOK
  <2>2. \A v \in Workers : job[v] # j
    BY <1>1, <2>1 DEF Lone
  <2>3. job' = [job EXCEPT ![w] = j]
    BY <1>4 DEF Receive
  <2>4. \A v \in Workers : job'[v] = j => v = w
    BY <2>2, <2>3 DEF TypeInv, TypeOK
  <2>5. QED
    BY <2>1, <2>4 DEF Lone
<1>5. ASSUME NEW w \in Workers, job[w] = j, Vanished(w) \/ WorkerFails(w),
             \A v \in Workers : ~Receive(v, j), root'[j] = root[j] + 1
      PROVE  Lone(j)'
  <2>1. root'[j] = 1 /\ \A v \in Workers : job[v] = j => v = w
    BY <1>1, <1>2, <1>5 DEF Lone
  <2>2. job'[w] # j
    BY <1>2, <1>5 DEF Vanished, WorkerFails, Return, TypeInv, TypeOK
  <2>3. \A v \in Workers : job'[v] # j
    BY <1>5, <2>1, <2>2, Takes
  <2>4. QED
    BY <2>1, <2>3 DEF Lone
<1>6. CASE root'[j] = root[j] /\ \A v \in Workers : ~Receive(v, j)
  <2>1. \A v \in Workers : job'[v] = j => job[v] = j
    BY <1>6, Takes
  <2>2. QED
    BY <1>1, <1>6, <2>1 DEF Lone
<1>7. \A w \in Workers : job[w] = j => ~EnqueueOnly(w)
  BY NotTwice
<1>8. QED
  BY <1>3, <1>4, <1>5, <1>6, <1>7, QueueMoves DEF Source

\* A request does not start again.
LEMMA StartsOnce ==
    ASSUME TypeInv, [Next]_vars, NEW r \in Requests
    PROVE  /\ pc'[r] = "new" => pc[r] = "new"
           /\ pc'[r] \in {"new", "runtimes", "note"} => pc[r] \in {"new", "runtimes", "note"}
           /\ pc'[r] # "done" => pc[r] # "done"
<1>1. r \in Handlers /\ pc \in [Handlers -> {"new", "runtimes", "note", "calls", "done"}]
  BY DEF TypeInv, TypeOK, Handlers
<1>2. Create(r) => pc[r] # "done" /\ pc'[r] # "new"
  BY <1>1 DEF Create, CreateWorkflows, CreateRuntimes, CreateNote, AnswerBatch, LoadRuntime,
              StartCron, SendFirst, Started, Returned, GoTo
<1>3. pc[r] \in {"calls", "done"} => pc'[r] \in {"calls", "done"}
  BY <1>1, ForGood
<1>4. QED
  BY <1>1, <1>2, <1>3, CreationMoves

LEMMA UnsentStep ==
    ASSUME TypeInv, [Next]_vars, SingleInv, NEW j \in Jobs, Clean(j), Unsent(j)'
    PROVE  ~Messaged(j)'
<1>1. j[1] \in Requests /\ j[1] \in Handlers
  BY JobFacts DEF Handlers
<1>2. Single(j) /\ OneCall
  BY DEF SingleInv
<1>3. /\ Batches \cap Crons = {} /\ Batches \cap Loads = {} /\ Crons \cap Loads = {}
      /\ Requests \cap Deletions = {}
  BY AdmissionAssumption
<1>4. Unsent(j)
  <2>1. Pending(j[1], j, "send")' /\ j[1] \in Batches =>
           Pending(j[1], j, "send") \/ pc[j[1]] = "note"
    BY <1>1, <1>3, PendingComes DEF CreateNote
  <2>2. QED
    BY <1>1, <2>1, StartsOnce DEF Unsent
<1>5. ~Messaged(j)
  BY <1>2, <1>4 DEF Single
<1>6. ASSUME NEW c \in calls, <<j, "send">> \in c.rest, SendTask(c, <<j, "send">>)
      PROVE  ~Unsent(j)'
  <2>1. c.by \in Batches /\ j[1] = c.by
    BY <1>6, SendsOfBatches
  <2>2. pc'[j[1]] \in {"calls", "done"}
    BY <1>1, <2>1, ForGood DEF TypeInv, Tasked
  <2>3. calls' = Without(c, <<j, "send">>, c.loops)
    BY <1>6 DEF SendTask
  <2>4. ASSUME NEW e \in calls', e.by = j[1] PROVE <<j, "send">> \notin e.rest
    <3>1. e \in calls \ {c} \/ (e.by = c.by /\ e.rest = c.rest \ {<<j, "send">>})
      BY <1>6, <2>3, WithoutFacts
    <3>2. QED
      BY <1>2, <2>1, <2>4, <3>1 DEF OneCall
  <2>5. ~Pending(j[1], j, "send")'
    BY <2>4 DEF Pending
  <2>6. QED
    BY <1>3, <2>1, <2>2, <2>5 DEF Unsent
<1>7. ASSUME j = <<j[1], 1>>, SendFirst(j[1])
      PROVE  ~Unsent(j)'
  <2>1. j[1] \in Crons /\ pc'[j[1]] = "done"
    BY <1>1, <1>7 DEF SendFirst, GoTo, TypeInv, TypeOK
  <2>2. QED
    BY <1>3, <2>1 DEF Unsent
<1>8. ASSUME NEW c \in Clients, want[c] = j, Send(c)
      PROVE  ~Unsent(j)'
  BY <1>1, <1>2, <1>3, <1>8, StartsOnce DEF Single, Wanted, Unsent
<1>9. ASSUME NEW w \in Workers, Next1(job[w]) = j, Link(w)
      PROVE  ~Unsent(j)
  <2> DEFINE p == job[w]
  <2>1. p \in Jobs /\ p[1] = j[1] /\ p[2] = j[2] - 1 /\ j[1] \in Crons /\ Messaged(p)
    BY <1>9, LinkFacts
  <2> HIDE DEF p
  <2>2. Clean(p)
    <3>1. p[2] <= j[2]
      BY <2>1, JobFacts
    <3>2. QED
      BY <2>1, <3>1, CleanAhead
  <2>3. ~Unsent(p)
    BY <2>1, <2>2 DEF SingleInv, Single
  <2>4. QED
    BY <1>3, <2>1, <2>3 DEF Unsent
<1>10. ~Source(j)
  BY <1>4, <1>6, <1>7, <1>8, <1>9 DEF Source
<1>11. QED
  BY <1>5, <1>10, MessagedComes DEF Source

\* How the flag of a workflow goes.
LEMMA FlagGoes ==
    ASSUME TypeInv, [Next]_vars, NEW j \in initiated, j \notin initiated', j \in wf'
    PROVE  \E w \in Workers : job[w] = j /\ j \in ran' \cup failed'
<1>1. \/ initiated \subseteq initiated'
      \/ \E ws, rs : Remove(ws, rs)
      \/ \E w \in Workers : Finish(w) \/ Terminate(w)
  BY DEF Next, Failure, Create, Delete, Loop, Initiate, Work, CreateWorkflows,
         CreateRuntimes, CreateNote, SendTask, AnswerBatch, LoadRuntime, StartCron,
         InsertTask, SendFirst, TaskThrows, CreateThrows, ServerCrash, ReadNote, DeleteTask,
         RemoveNote, Check, Admitted, Mark, Send, InitiateThrows, Receive, Sweep, Vanished,
         Stall, Finish, Terminate, Link, Ack, WorkerFails, AckOnly, EnqueueOnly,
         HalfSettled, Cleanup, rows, server, queues, worker, client, history, vars
<1>2. \A ws, rs : ~Remove(ws, rs)
  BY DEF Remove
<1>3. QED
  BY <1>1, <1>2 DEF Finish, Terminate

\* Whom the checks let pass while no window opens.
LEMMA CheckFacts ==
    ASSUME TypeInv, CreationInv, SingleInv, NEW c \in Clients, NEW j \in Jobs, Check(c, j),
           Clean(j), Clean(j)'
    PROVE  /\ j[1] \in Loads /\ pc[j[1]] # "new" /\ ~Messaged(j)
           /\ want' = [want EXCEPT ![c] = j] /\ cpc'[c] = "mark"
           /\ \A o \in Clients : want[o] # j
<1>1. /\ j \in Known /\ j \notin ran /\ j \notin initiated /\ Admitted(c, j)
      /\ UNCHANGED <<root, job>>
  BY DEF Check, queues, worker
<1>2. want' = [want EXCEPT ![c] = j] /\ cpc'[c] = "mark"
  BY <1>1 DEF Admitted, TypeInv, TypeOK
<1>3. ASSUME NEW k \in Doubling
      PROVE  j \notin hit'[k]
  <2>1. j = <<j[1], j[2]>> /\ j[2] \in 1..j[2]
    BY JobFacts
  <2>2. QED
    BY <2>1 DEF Clean, Behind
<1>4. /\ ~\E o \in Clients : want[o] = j
      /\ j[1] \in Loads
      /\ ~(j \in failed /\ Messages(j) > 0)
  <2>1. /\ {"raced", "unmarked", "early"} \subseteq Windows
        /\ {"raced", "unmarked", "early"} \subseteq Doubling
    BY DEF Windows, Doubling
  <2>2. j \notin hit'["raced"] /\ j \notin hit'["unmarked"] /\ j \notin hit'["early"]
    BY <1>3, <2>1
  <2>3. hit'["raced"] = IF \E o \in Clients : want[o] = j
                        THEN hit["raced"] \cup {j} ELSE hit["raced"]
    BY <1>1, <2>1 DEF Admitted
  <2>4. hit'["unmarked"] = IF j[1] \notin Loads
                           THEN hit["unmarked"] \cup {j} ELSE hit["unmarked"]
    BY <1>1, <2>1 DEF Admitted
  <2>5. hit'["early"] = IF j \in failed /\ Messages(j) > 0
                        THEN hit["early"] \cup {j} ELSE hit["early"]
    BY <1>1, <2>1 DEF Admitted
  <2>6. QED
    BY <2>2, <2>3, <2>4, <2>5
<1>5. j \in wf /\ pc[j[1]] # "new"
  BY <1>1, JobFacts DEF Known, CreationInv
<1>6. ~Messaged(j)
  BY <1>1, <1>4, <1>5, MessagesCounted DEF SingleInv, Single, Flagged
<1>7. QED
  BY <1>2, <1>4, <1>5, <1>6

LEMMA WantedStep ==
    ASSUME TypeInv, CreationInv, [Next]_vars, SingleInv, NEW j \in Jobs, Clean(j), Clean(j)'
    PROVE  Wanted(j)'
<1> SUFFICES ASSUME NEW c \in Clients, want'[c] = j
             PROVE  /\ j[1] \in Loads /\ pc'[j[1]] # "new"
                    /\ ~Messaged(j)'
                    /\ \A d \in Clients : want'[d] = j => d = c
                    /\ cpc'[c] = "send" /\ j \in wf' => j \in initiated'
  BY DEF Wanted
<1>1. Single(j) /\ j[1] \in Requests /\ j # None
  BY JobFacts, AdmissionAssumption DEF SingleInv
<1>2. CASE want[c] = j
  <2>1. /\ j[1] \in Loads /\ pc[j[1]] # "new"
        /\ ~Messaged(j)
        /\ \A d \in Clients : want[d] = j => d = c
        /\ cpc[c] = "send" /\ j \in wf => j \in initiated
    BY <1>1, <1>2 DEF Single, Wanted
  <2>2. pc'[j[1]] # "new"
    BY <1>1, <2>1, StartsOnce
  <2>3. ~Source(j)
    <3>1. ~\E d \in Clients : want[d] = j /\ Send(d)
      BY <1>1, <2>1 DEF Send, Release, TypeInv, TypeOK
    <3>2. j[1] \notin Batches \cup Crons
      BY <2>1, AdmissionAssumption
    <3>3. QED
      BY <3>1, <3>2, SendsOfBatches, LinkFacts DEF Source, SendFirst
  <2>4. ~Messaged(j)'
    BY <2>1, <2>3, MessagedComes DEF Source
  <2>5. \A d \in Clients : want'[d] = j => d = c
    <3>1. \A d \in Clients : ~Check(d, j)
      BY <1>2, CheckFacts
    <3>2. QED
      BY <2>1, <3>1, Takes
  <2>6. ASSUME cpc'[c] = "send", j \in wf' PROVE j \in initiated'
    <3>1. CASE cpc[c] = "send"
      <4>1. ~CreateWorkflows(j[1]) /\ j[1] \notin Crons
        BY <2>1, AdmissionAssumption DEF CreateWorkflows, Started
      <4>2. j \in wf
        BY <2>6, <4>1, RowsCome
      <4>3. QED
        BY <2>1, <2>6, <3>1, <4>2, FlagGoes DEF Messaged
    <3>2. CASE cpc[c] # "send"
      <4>1. Mark(c)
        <5>1. ~(\E i \in Jobs : Check(c, i)) /\ ~Send(c) /\ ~InitiateThrows(c)
          BY <1>1, <1>2, <2>6 DEF Check, Admitted, Send, InitiateThrows, Release, TypeInv,
                                  TypeOK
        <5>2. QED
          BY <2>6, <3>2, <5>1, Stays DEF ClientStep, Initiate
      <4>2. QED
        BY <1>2, <2>6, <4>1 DEF Mark, Release, TypeInv, TypeOK
    <3>3. QED
      BY <3>1, <3>2
  <2>7. QED
    BY <2>1, <2>2, <2>4, <2>5, <2>6
<1>3. CASE want[c] # j
  <2>1. Check(c, j)
    BY <1>3, Takes
  <2>2. /\ j[1] \in Loads /\ pc[j[1]] # "new" /\ ~Messaged(j)
        /\ want' = [want EXCEPT ![c] = j] /\ cpc'[c] = "mark"
        /\ \A o \in Clients : want[o] # j
    BY <2>1, CheckFacts
  <2>3. ~Messaged(j)'
    BY <2>1, <2>2 DEF Check, queues, worker, Messaged
  <2>4. \A d \in Clients : want'[d] = j => d = c
    BY <2>2 DEF TypeInv, TypeOK
  <2>5. pc'[j[1]] # "new"
    BY <1>1, <2>2, StartsOnce
  <2>6. QED
    BY <2>2, <2>3, <2>4, <2>5
<1>4. QED
  BY <1>2, <1>3

LEMMA FlaggedStep ==
    ASSUME TypeInv, [Next]_vars, SingleInv, NEW j \in Jobs, Clean(j)
    PROVE  Flagged(j)'
<1> SUFFICES ASSUME j[1] \in Loads, Messaged(j)', j \in wf'
             PROVE  j \in initiated' \cup ran' \cup failed'
  BY DEF Flagged
<1>1. Single(j) /\ j[1] \notin Batches \cup Crons
  BY AdmissionAssumption DEF SingleInv
<1>2. CASE Messaged(j)
  <2>1. pc[j[1]] # "new"
    BY <1>1, <1>2 DEF Single, Unsent
  <2>2. j \in wf
    BY <1>1, <2>1, RowsCome DEF CreateWorkflows, Started
  <2>3. j \in initiated \cup ran \cup failed
    BY <1>1, <1>2, <2>2 DEF Single, Flagged
  <2>4. QED
    BY <2>3, FlagGoes, HistoryGrows
<1>3. CASE ~Messaged(j)
  <2>1. PICK c \in Clients : want[c] = j /\ Send(c)
    BY <1>1, <1>3, MessagedComes, SendsOfBatches, LinkFacts DEF SendFirst
  <2>2. j \in wf /\ cpc[c] = "send" /\ UNCHANGED initiated
    BY <2>1 DEF Send, rows
  <2>3. QED
    BY <1>1, <2>1, <2>2 DEF Single, Wanted
<1>4. QED
  BY <1>2, <1>3

LEMMA LedStep ==
    ASSUME TypeInv, [Next]_vars, SingleInv, NEW j \in Jobs, Clean(j), Clean(j)'
    PROVE  Led(j)'
<1> SUFFICES ASSUME Messaged(j)', NEW p \in Jobs, p[1] = j[1], j[1] \in Crons, p[2] < j[2]
             PROVE  root'[p] = 0 /\ \A w \in Workers : job'[w] = p => wpc'[w] = "linked"
  BY DEF Led
<1>1. p[2] \in Nat \ {0} /\ j[2] \in Nat /\ p[1] \notin Batches \cup Loads
  BY JobFacts, AdmissionAssumption
<1>2. Clean(p) /\ Clean(p)' /\ p # j
  BY <1>1, CleanBefore
<1>3. Single(j) /\ Single(p)
  BY <1>2 DEF SingleInv
<1>4. root[p] \in Nat /\ None \notin Jobs
  BY AdmissionAssumption DEF TypeInv, TypeOK
<1>5. CASE Messaged(j)
  <2>1. root[p] = 0 /\ \A w \in Workers : job[w] = p => wpc[w] = "linked"
    BY <1>3, <1>5 DEF Single, Led
  <2>2. ~SendFirst(p[1])
    BY <1>3, <1>5 DEF Single, Unsent, SendFirst, Returned
  <2>3. ASSUME NEW w \in Workers, Next1(job[w]) = p, Link(w)
        PROVE  FALSE
    <3> DEFINE q == job[w]
    <3>1. q \in Jobs /\ q[1] = p[1] /\ q[2] = p[2] - 1 /\ wpc[w] = "link"
      BY <2>3, LinkFacts
    <3>2. q[2] < j[2]
      BY <1>1, <3>1
    <3>3. QED
      BY <1>3, <1>5, <3>1, <3>2 DEF Single, Led
  <2>4. ASSUME NEW w \in Workers, job[w] = p
        PROVE  /\ ~Vanished(w) /\ ~WorkerFails(w) /\ ~EnqueueOnly(w)
               /\ job'[w] # p \/ wpc'[w] = "linked"
    <3>1. wpc[w] = "linked"
      BY <2>1, <2>4
    <3>2. ~WorkerFails(w)
      <4>1. ASSUME WorkerFails(w) PROVE Next1(p) \in hit'["relinked"]
        BY <2>4, <3>1, <4>1 DEF WorkerFails, Hit, Windows, Doubling, TypeInv, TypeOK
      <4>2. HasNext(p)
        BY <2>4, <3>1 DEF TypeInv, TypeOK
      <4>3. Next1(p) = <<j[1], p[2] + 1>> /\ p[2] + 1 \in 1..j[2]
        BY <1>1 DEF Next1
      <4>4. Next1(p) \notin hit'["relinked"]
        BY <4>3 DEF Clean, Behind, Doubling
      <4>5. QED
        BY <4>1, <4>4
    <3>3. ~Vanished(w)
      BY <3>1 DEF Vanished
    <3>4. /\ ~Sweep(w) /\ ~Stall(w) /\ ~Finish(w) /\ ~Terminate(w) /\ ~Link(w)
          /\ ~AckOnly(w) /\ ~EnqueueOnly(w) /\ \A i \in Jobs : ~Receive(w, i)
      BY <3>1 DEF Sweep, Stall, Finish, Terminate, Link, AckOnly, EnqueueOnly, HalfSettled,
                  Receive
    <3>5. Ack(w) => job'[w] # p
      BY <1>4 DEF Ack, Return, TypeInv, TypeOK
    <3>6. QED
      BY <3>1, <3>2, <3>3, <3>4, <3>5, Stays DEF WorkerStep, Work
  <2>5. \A w \in Workers : ~Receive(w, p)
    BY <2>1 DEF Receive
  <2>6. ~\E c \in Clients : want[c] = p /\ Send(c)
    BY <1>1, <1>3 DEF Single, Wanted
  <2>7. root'[p] = root[p]
    BY <1>1, <2>2, <2>3, <2>4, <2>5, <2>6, QueueMoves, SendsOfBatches
  <2>8. QED
    BY <2>1, <2>4, <2>5, <2>7, Takes
<1>6. CASE ~Messaged(j)
  <2>1. ~(j = <<j[1], 1>>)
    BY <1>1
  <2>2. ~\E c \in Clients : want[c] = j /\ Send(c)
    BY <1>1, <1>3 DEF Single, Wanted
  <2>3. PICK w \in Workers : Next1(job[w]) = j /\ Link(w)
    BY <1>1, <1>6, <2>1, <2>2, MessagedComes, SendsOfBatches
  <2> DEFINE q == job[w]
  <2>4. q \in Jobs /\ q[1] = j[1] /\ q[2] = j[2] - 1 /\ Messaged(q) /\ wpc[w] = "link"
    BY <2>3, LinkFacts
  <2>5. Clean(q)
    <3>1. q[2] <= j[2]
      BY <1>1, <2>4
    <3>2. QED
      BY <2>4, <3>1, CleanBefore
  <2>6. Single(q)
    BY <2>4, <2>5 DEF SingleInv
  <2>7. root'[p] = root[p] /\ UNCHANGED job /\ wpc' = [wpc EXCEPT ![w] = "linked"]
    BY <1>2, <2>3 DEF Link, Enqueue, Message, TypeInv, TypeOK
  <2>8. wpc'[w] = "linked" /\ \A v \in Workers : v # w => wpc'[v] = wpc[v]
    BY <2>7 DEF TypeInv, TypeOK
  <2>9. CASE p = q
    <3>1. root[p] = 0 /\ \A v \in Workers : job[v] = p => v = w
      BY <2>6, <2>9 DEF Single, Lone
    <3>2. QED
      BY <2>7, <2>8, <3>1
  <2>10. CASE p # q
    <3>1. p[2] < q[2]
      <4>1. p = <<p[1], p[2]>> /\ q = <<q[1], q[2]>>
        BY <2>4, JobFacts
      <4>2. QED
        BY <1>1, <2>4, <2>10, <4>1
    <3>2. root[p] = 0 /\ \A v \in Workers : job[v] = p => wpc[v] = "linked"
      BY <2>4, <2>6, <3>1 DEF Single, Led
    <3>3. QED
      BY <2>7, <2>8, <3>2
  <2>11. QED
    BY <2>9, <2>10
<1>7. QED
  BY <1>5, <1>6

\* The inductive invariant of OneMessage, next to the others.
DrivenInv == ChainInv /\ FlagInv /\ SingleInv

LEMMA DrivenStep ==
    ASSUME TypeInv, RowsInv, DrivenInv, [Next]_vars
    PROVE  DrivenInv'
<1> USE DEF DrivenInv, RowsInv
<1>1. OneCall'
  BY OneCallStep DEF SingleInv
<1>2. ASSUME NEW j \in Jobs, Clean(j)'
      PROVE  Single(j)'
  <2>1. Clean(j)
    BY <1>2, CleanBefore
  <2>2. QED
    BY <1>2, <2>1, LoneStep, UnsentStep, WantedStep, FlaggedStep, LedStep DEF Single
<1>3. SingleInv'
  BY <1>1, <1>2 DEF SingleInv
<1>4. QED
  BY <1>3, ChainStep, FlagStep

LEMMA InitDriven == Init => DrivenInv
<1> SUFFICES ASSUME Init PROVE DrivenInv
  OBVIOUS
<1>1. \A j \in Jobs : /\ ~Messaged(j) /\ root[j] = 0
                      /\ \A w \in Workers : job[w] # j
                      /\ \A c \in Clients : want[c] # j
  BY AdmissionAssumption DEF Init, Messaged
<1>2. SingleInv
  BY <1>1 DEF Init, SingleInv, OneCall, Single, Lone, Wanted, Flagged, Led
<1>3. ChainInv /\ FlagInv
  BY <1>1, JobFacts DEF Init, ChainInv, FlagInv
<1>4. QED
  BY <1>2, <1>3 DEF DrivenInv

\* A workflow is driven by one message, unless a window was open, and the runs of a cron
\* job are linked in their order.
THEOREM OneDrives == Spec => []OneMessage
<1>1. TypeInv /\ DrivenInv => OneMessage
  <2> SUFFICES ASSUME TypeInv, DrivenInv PROVE OneMessage
    OBVIOUS
  <2>1. ASSUME NEW j \in Jobs, j \in initiated \ (hit["stranded"] \cup hit["lost"])
        PROVE  Messages(j) > 0 \/ \E c \in Clients : want[c] = j /\ cpc[c] = "send"
    BY <2>1, MessagesCounted DEF DrivenInv, FlagInv, Messaged
  <2>2. ASSUME NEW j \in Jobs, Clean(j)
        PROVE  Messages(j) <= 1
    <3> DEFINE W == {w \in Workers : job[w] = j}
    <3>1. /\ root[j] <= 1 /\ root[j] \in Nat
          /\ W # {} => root[j] = 0
          /\ \A w, v \in W : w = v
      BY <2>2 DEF DrivenInv, SingleInv, Single, Lone, TypeInv, TypeOK
    <3>2. CASE W = {}
      <4>1. Cardinality(W) = 0
        BY <3>2, FS_EmptySet
      <4>2. QED
        BY <3>1, <4>1 DEF Messages
    <3>3. CASE W # {}
      <4>1. PICK w \in W : W = {w}
        BY <3>1, <3>3
      <4>2. Cardinality(W) = 1
        BY <4>1, FS_Singleton
      <4>3. QED
        BY <3>1, <3>3, <4>2 DEF Messages
    <3>4. QED
      BY <3>2, <3>3
  <2>3. ChainOrder
    <3>1. ASSUME NEW j \in Jobs, HasNext(j), Messages(Next1(j)) > 0
          PROVE  j \in ran
      <4>1. Next1(j) \in Jobs
        BY <3>1, JobFacts
      <4>2. QED
        BY <3>1, <4>1, MessagesCounted DEF DrivenInv, ChainInv
    <3>2. QED
      BY <3>1 DEF ChainOrder
  <2>4. QED
    BY <2>1, <2>2, <2>3 DEF OneMessage, Clean
<1>2. QED
  BY InitTypes, TypesStep, InitRows, RowsStep, InitDriven, DrivenStep, <1>1, PTL DEF Spec
===============================================================================
