--------------------------- MODULE RemoteWorkerProofs ---------------------------
(***************************************************************************)
(* Theorems about RemoteWorker, for any workflow, workers and balances,    *)
(* and any number of starts, answers and crashes.                          *)
(*                                                                         *)
(* In order: the types; that somebody moves a workflow that has begun      *)
(* (TokenInv); that there is one message (RoundInv); and what follows for  *)
(* the rows when one worker at a time has it (OrderInv, GoodInv, OnceInv). *)
(* All but the first two are for an owner who does one thing at a time.    *)
(***************************************************************************)
EXTENDS RemoteWorker, FiniteSetTheorems, TLAPS

\* The elements of a sequence over S are in S.
LEMMA ElemsType ==
    ASSUME NEW S, NEW s \in Seq(S)
    PROVE  Elems(s) \in SUBSET S
BY DEF Elems

\* Taking the head off a duplicate-free queue takes it out of its elements.
LEMMA TailFacts ==
    ASSUME NEW S, NEW s \in Seq(S), s # <<>>
    PROVE  /\ Head(s) \in S
           /\ Head(s) \in Elems(s)
           /\ Tail(s) \in Seq(S)
           /\ \A i \in DOMAIN Tail(s) : i + 1 \in DOMAIN s /\ Tail(s)[i] = s[i + 1]
           /\ Elems(s) = {Head(s)} \cup Elems(Tail(s))
           /\ Distinct(s) => Distinct(Tail(s)) /\ Head(s) \notin Elems(Tail(s))
<1>1. /\ Head(s) \in S /\ Head(s) = s[1] /\ Tail(s) \in Seq(S)
      /\ 1 \in DOMAIN s
      /\ \A i \in DOMAIN Tail(s) : i + 1 \in DOMAIN s /\ Tail(s)[i] = s[i + 1]
      /\ \A j \in DOMAIN s : j = 1 \/ (j - 1 \in DOMAIN Tail(s) /\ Tail(s)[j - 1] = s[j])
  OBVIOUS
<1>2. Elems(s) = {Head(s)} \cup Elems(Tail(s))
  <2>1. ASSUME NEW x \in Elems(s) PROVE x \in {Head(s)} \cup Elems(Tail(s))
    <3>1. PICK j \in DOMAIN s : s[j] = x
      BY <2>1 DEF Elems
    <3>2. QED
      BY <1>1, <3>1 DEF Elems
  <2>2. ASSUME NEW x \in Elems(Tail(s)) PROVE x \in Elems(s)
    BY <1>1, <2>2 DEF Elems
  <2>3. QED
    BY <1>1, <2>1, <2>2 DEF Elems
<1>3. ASSUME Distinct(s) PROVE Distinct(Tail(s)) /\ Head(s) \notin Elems(Tail(s))
  <2>1. ASSUME NEW i \in DOMAIN Tail(s), NEW j \in DOMAIN Tail(s), Tail(s)[i] = Tail(s)[j]
        PROVE  i = j
    <3>1. i + 1 = j + 1
      BY <1>1, <1>3, <2>1 DEF Distinct
    <3>2. i \in Int /\ j \in Int
      BY <1>1
    <3>3. QED
      BY <3>1, <3>2
  <2>2. ASSUME NEW i \in DOMAIN Tail(s), Tail(s)[i] = Head(s) PROVE FALSE
    <3>1. i + 1 = 1 /\ i \in 1..Len(Tail(s))
      BY <1>1, <1>3, <2>2 DEF Distinct
    <3>2. QED
      BY <3>1
  <2>3. QED
    BY <2>1, <2>2 DEF Distinct, Elems
<1>4. QED
  BY <1>1, <1>2, <1>3 DEF Elems

\* InOrderOf holds arrangements of the given set: all of it, each element once.
LEMMA InOrderFacts ==
    ASSUME NEW S, NEW allowed \in Seq(S), NEW new, IsFiniteSet(new),
           NEW f \in InOrderOf(allowed, new)
    PROVE  /\ f \in Seq(new)
           /\ Distinct(f)
           /\ Elems(f) = new
<1> DEFINE k == Cardinality(new)
<1>1. k \in Nat
  BY FS_CardinalityType
<1>2. f \in [1..k -> new] /\ DOMAIN f = 1..k
  BY DEF InOrderOf
<1>3. \A i, j \in 1..k : i < j => Before(allowed, f[i], f[j])
  BY <1>2 DEF InOrderOf
<1>4. ASSUME NEW a PROVE ~Before(allowed, a, a)
  <2>1. \A m \in DOMAIN allowed : m \in 1..m
    OBVIOUS
  <2>2. QED
    BY <2>1 DEF Before
<1>5. \A i, j \in 1..k : f[i] = f[j] => i = j
  <2>1. SUFFICES ASSUME NEW i \in 1..k, NEW j \in 1..k, f[i] = f[j], i # j
                 PROVE  FALSE
    OBVIOUS
  <2>2. i < j \/ j < i
    BY <2>1
  <2>3. QED
    BY <1>3, <1>4, <2>1, <2>2
<1>6. f \in Seq(new) /\ Distinct(f)
  BY <1>1, <1>2, <1>5 DEF Distinct
<1>7. f \in Surjection(1..k, new)
  <2>1. f \in Injection(1..k, new)
    BY <1>2, <1>5 DEF Injection, IsInjective
  <2>2. IsFiniteSet(1..k) /\ Cardinality(1..k) = k
    BY <1>1, FS_Interval
  <2>3. QED
    BY <2>1, <2>2, FS_Injection
<1>8. Elems(f) = new
  BY <1>2, <1>7 DEF Elems, Surjection
<1>9. QED
  BY <1>6, <1>8

(***************************************************************************)
(* What the loop of _scheduleChildren leaves behind: the queue it found,   *)
(* still duplicate-free, followed by exactly the new children.             *)
(***************************************************************************)
LEMMA ScheduledFacts ==
    ASSUME NEW S, IsFiniteSet(S),
           NEW old \in Seq(S), NEW seen, NEW allowed \in Seq(S),
           NEW q \in Scheduled(old, seen, allowed)
    PROVE  /\ q \in Seq(S)
           /\ Elems(q) = Elems(old) \cup NewChildren(old, seen, allowed)
           /\ \A i \in DOMAIN old : i \in DOMAIN q /\ q[i] = old[i]
           /\ \A i \in DOMAIN q \ DOMAIN old : q[i] \notin seen
           /\ Distinct(old) => Distinct(q)
<1> DEFINE new == NewChildren(old, seen, allowed)
<1>1. new \in SUBSET S /\ IsFiniteSet(new)
  <2>1. new \in SUBSET S
    BY ElemsType DEF NewChildren
  <2>2. QED
    BY <2>1, FS_Subset
<1>2. PICK f \in InOrderOf(allowed, new) : q = old \o f
  BY DEF Scheduled
<1>3. f \in Seq(new) /\ Distinct(f) /\ Elems(f) = new
  BY <1>1, <1>2, InOrderFacts
<1>4. f \in Seq(S)
  BY <1>1, <1>3
<1>5. /\ q \in Seq(S)
      /\ Len(q) = Len(old) + Len(f)
      /\ \A i \in 1..Len(old) : q[i] = old[i]
      /\ \A i \in (Len(old) + 1)..Len(q) : i - Len(old) \in 1..Len(f)
                                             /\ q[i] = f[i - Len(old)]
      /\ \A i \in 1..Len(f) : i + Len(old) \in 1..Len(q) /\ q[i + Len(old)] = f[i]
  BY <1>2, <1>4
<1>6. /\ DOMAIN q = 1..Len(q) /\ DOMAIN old = 1..Len(old) /\ DOMAIN f = 1..Len(f)
      /\ Len(old) \in Nat /\ Len(f) \in Nat
  BY <1>4, <1>5
<1>7. Elems(q) = Elems(old) \cup new
  <2>1. ASSUME NEW x \in Elems(q) PROVE x \in Elems(old) \cup Elems(f)
    <3>1. PICK i \in 1..Len(q) : q[i] = x
      BY <1>6, <2>1 DEF Elems
    <3>2. CASE i <= Len(old)
      <4>1. i \in 1..Len(old)
        BY <1>6, <3>2
      <4>2. x = old[i] /\ i \in DOMAIN old
        BY <1>5, <1>6, <3>1, <4>1
      <4>3. QED
        BY <4>2 DEF Elems
    <3>3. CASE i > Len(old)
      <4>1. i \in (Len(old) + 1)..Len(q)
        BY <1>5, <1>6, <3>3
      <4>2. i - Len(old) \in DOMAIN f /\ x = f[i - Len(old)]
        BY <1>5, <1>6, <3>1, <4>1
      <4>3. QED
        BY <4>2 DEF Elems
    <3>4. QED
      BY <1>6, <3>2, <3>3
  <2>2. ASSUME NEW x \in Elems(old) PROVE x \in Elems(q)
    <3>1. PICK i \in 1..Len(old) : old[i] = x
      BY <1>6, <2>2 DEF Elems
    <3>2. i \in 1..Len(q) /\ q[i] = x
      BY <1>5, <1>6, <3>1
    <3>3. QED
      BY <1>6, <3>2 DEF Elems
  <2>3. ASSUME NEW x \in Elems(f) PROVE x \in Elems(q)
    <3>1. PICK i \in 1..Len(f) : f[i] = x
      BY <1>6, <2>3 DEF Elems
    <3>2. i + Len(old) \in 1..Len(q) /\ q[i + Len(old)] = x
      BY <1>5, <3>1
    <3>3. QED
      BY <1>6, <3>2 DEF Elems
  <2>4. QED
    BY <1>3, <2>1, <2>2, <2>3
<1>8. \A i \in DOMAIN old : i \in DOMAIN q /\ q[i] = old[i]
  BY <1>5, <1>6
<1>9. \A i \in DOMAIN q \ DOMAIN old : q[i] \in new
  <2>1. ASSUME NEW i \in DOMAIN q \ DOMAIN old PROVE q[i] \in new
    <3>1. i \in (Len(old) + 1)..Len(q)
      BY <1>5, <1>6
    <3>2. QED
      BY <1>3, <1>5, <1>6, <3>1 DEF Elems
  <2>2. QED
    BY <2>1
<1>10. ASSUME Distinct(old) PROVE Distinct(q)
  <2>1. SUFFICES ASSUME NEW i \in 1..Len(q), NEW j \in 1..Len(q), q[i] = q[j], i < j
                 PROVE  FALSE
    BY <1>6 DEF Distinct
  <2>2. CASE j <= Len(old)
    <3>1. i \in 1..Len(old) /\ j \in 1..Len(old) /\ i # j
      BY <1>6, <2>1, <2>2
    <3>2. old[i] = old[j]
      BY <1>5, <2>1, <3>1
    <3>3. QED
      BY <1>6, <1>10, <3>1, <3>2 DEF Distinct
  <2>3. CASE i > Len(old)
    <3>1. /\ i \in (Len(old) + 1)..Len(q) /\ j \in (Len(old) + 1)..Len(q)
          /\ i - Len(old) # j - Len(old)
      BY <1>5, <1>6, <2>1, <2>3
    <3>2. /\ i - Len(old) \in 1..Len(f) /\ j - Len(old) \in 1..Len(f)
          /\ f[i - Len(old)] = f[j - Len(old)]
      BY <1>5, <2>1, <3>1
    <3>3. QED
      BY <1>3, <1>6, <3>1, <3>2 DEF Distinct
  <2>4. CASE i <= Len(old) /\ j > Len(old)
    <3>1. i \in DOMAIN old /\ j \in DOMAIN q \ DOMAIN old
      BY <1>6, <2>1, <2>4
    <3>2. q[i] \in Elems(old)
      BY <1>8, <3>1 DEF Elems
    <3>3. QED
      BY <1>9, <2>1, <3>1, <3>2 DEF NewChildren
  <2>5. QED
    BY <1>6, <2>1, <2>2, <2>3, <2>4
<1>11. QED
  BY <1>5, <1>7, <1>8, <1>9, <1>10 DEF NewChildren

-------------------------------------------------------------------------------
\* Where a handler still has its message, for certain.
Has == {"isLocked", "lock", "loadWf", "loadRt", "clock", "save", "unlock", "charge", "ask",
        "terminate", "terminated", "finish", "link", "linked", "stuck"}

\* What a worker holds and has to do, where its handler stands.
Held ==
    \A w \in Workers :
       /\ pc[w] \in Has => w \in holds
       /\ pc[w] = "cleanup" => w \notin holds
       /\ pc[w] = "save" => todo[w] \subseteq {"wf", "rt"}
       /\ pc[w] = "next" => todo[w] \subseteq {"enqueue", "ack"}
       /\ pc[w] = "asked" => todo[w] \subseteq {"release", "ack"}
       /\ pc[w] \in {"save", "next", "asked"} => todo[w] # {}
       /\ pc[w] \in {"next", "asked"} => (w \in holds <=> "ack" \in todo[w])

\* What it has loaded.
Loaded ==
    \A w \in Workers :
       /\ pc[w] \in {"clock", "ask", "terminate"} =>
             /\ lwf[w] # None /\ lwf[w].trace < MaxTrace
             /\ lrt[w] # None /\ ~IsFinished(lrt[w])
       /\ pc[w] = "save" => lwf[w] # None /\ lrt[w] # None
       /\ pc[w] \in {"clock", "save"} => lwf[w].progress
       /\ pc[w] \in {"save", "unlock", "charge"} => at[w] \in Nodes

\* What a request has read, and has yet to do.
Asking ==
    \A c \in Clients :
       /\ "initiate" \in cpc[c] => cpc[c] = {"initiate"}
       /\ "answer" \in cpc[c] => /\ csaw[c] # None
                                 /\ csaw[c].expecting # None
                                 /\ "enqueue" \in cpc[c] \/ "early" \in windows

\* The inductive invariant of the types.
TypeInv == TypeOK /\ Held /\ Loaded /\ Asking

\* A worker that a step leaves alone.
Still(w) ==
    /\ UNCHANGED <<pc[w], lwf[w], lrt[w], todo[w], at[w]>>
    /\ w \in holds' <=> w \in holds

LEMMA OthersStill ==
    ASSUME TypeInv, NEW w \in Workers, Handler(w) \/ Crash(w), NEW v \in Workers \ {w}
    PROVE  Still(v)
<1> USE
  DEF TypeInv, TypeOK, worker, Handler, Receive, IsLocked, Lock, LoadWf, LoadRt, ClockWaits,
      ClockTerminates, ClockRuns, ClockSkips, SaveWf, SaveRt, Unlock, Charge, EnqueueNext,
      Ack, Ask, ReleaseAsked, Terminate, Finish, Link, AckEnded, EnqueueEnded, Crash,
      Throws, Requeue, Return, DoneReturn, Done, GoTo
<1>1. pc'[v] = pc[v]
  OBVIOUS
<1>2. lwf'[v] = lwf[v]
  OBVIOUS
<1>3. lrt'[v] = lrt[v]
  OBVIOUS
<1>4. todo'[v] = todo[v]
  OBVIOUS
<1>5. at'[v] = at[v]
  OBVIOUS
<1>6. v \in holds' <=> v \in holds
  OBVIOUS
<1>7. QED
  BY <1>1, <1>2, <1>3, <1>4, <1>5, <1>6 DEF Still

\* A step is of one worker, of a request, or of the time.
LEMMA WhoMoves ==
    ASSUME TypeInv, [Next]_vars
    PROVE  \/ \E w \in Workers : /\ Handler(w) \/ Crash(w)
                                 /\ \A v \in Workers \ {w} : Still(v)
           \/ UNCHANGED worker
<1>1. CASE \E w \in Workers : Handler(w) \/ Crash(w)
  BY <1>1, OthersStill
<1>2. CASE UNCHANGED vars \/ Cleanup \/ LockExpires \/ Elsewhere
  BY <1>2 DEF vars, Cleanup, CleanupReceive, CleanupDelete, LockExpires, Elsewhere
<1>3. CASE \E c \in Clients : CheckInitiate(c) \/ CheckAnswer(c) \/ Request(c)
  BY <1>3 DEF CheckInitiate, CheckAnswer, Request, Initiate, SaveAnswer, EnqueueRequest
<1>4. QED
  BY <1>1, <1>2, <1>3 DEF Next

\* What a worker has before it when it clocks.
LEMMA TurnFacts ==
    ASSUME TypeInv, NEW w \in Workers, pc[w] \in {"clock", "ask", "terminate"}
    PROVE  /\ lwf[w] \in Row /\ lwf[w].trace + 1 \in 0..MaxTrace
           /\ lrt[w] \in RuntimeRow /\ lrt[w].queue # <<>>
           /\ Turn(w) \in Nodes /\ Rest(w) \in Seq(Nodes) /\ Visited(w) \in SUBSET Nodes
<1>1. lwf[w] \in Row /\ lrt[w] \in RuntimeRow /\ lrt[w].queue # <<>>
  BY DEF TypeInv, TypeOK, Loaded, IsFinished
<1>2. lwf[w].trace + 1 \in 0..MaxTrace
  BY <1>1, WorkerAssumption DEF TypeInv, Loaded, Row
<1>3. Turn(w) \in Nodes /\ Rest(w) \in Seq(Nodes)
  <2>1. lrt[w].queue \in Seq(Nodes)
    BY <1>1 DEF RuntimeRow
  <2>2. QED
    BY <1>1, <2>1 DEF Turn, Rest
<1>4. Visited(w) \in SUBSET Nodes
  BY <1>1, <1>3 DEF Visited, RuntimeRow
<1>5. QED
  BY <1>1, <1>2, <1>3, <1>4

LEMMA BootFacts ==
    ASSUME NEW r \in RuntimeRow
    PROVE  Boot(r) \in RuntimeRow
<1>1. <<Entry>> \in Seq(Nodes)
  BY WorkerAssumption
<1>2. QED
  BY <1>1 DEF Boot, RuntimeRow

\* The row of the workflow, as a worker writes it.
LEMMA RowWritten ==
    ASSUME TypeInv, NEW w \in Workers, Handler(w) \/ Crash(w)
    PROVE  wf' \in Row \cup {None}
<1>1. wf \in Row \cup {None}
  BY DEF TypeInv, TypeOK
<1>2. \/ UNCHANGED wf
      \/ wf' = None
      \/ Lock(w) \/ SaveWf(w) \/ Unlock(w) \/ Ask(w) \/ ReleaseAsked(w)
      \/ Terminate(w) \/ Finish(w)
  BY DEF rows, Handler, Receive, IsLocked, Lock, LoadWf, LoadRt, ClockWaits,
         ClockTerminates, ClockRuns, ClockSkips, SaveWf, SaveRt, Unlock, Charge,
         EnqueueNext, Ack, Ask, ReleaseAsked, Terminate, Finish, Link, AckEnded,
         EnqueueEnded, Crash, Throws, Requeue, Return, DoneReturn, Done, GoTo
<1>3. CASE Throws(w)
  BY <1>1, <1>3 DEF Throws, rows
<1>4. CASE Lock(w) \/ Unlock(w) \/ ReleaseAsked(w) \/ Finish(w)
  BY <1>1, <1>4 DEF Lock, Unlock, ReleaseAsked, Finish, Row, Throws, rows
<1>5. CASE Ask(w) /\ ~Throws(w)
  <2>1. PICK n \in Nodes, t \in 0..MaxTrace :
           wf # None /\ wf' = [wf EXCEPT !.expecting = n, !.trace = t]
    BY <1>5, TurnFacts DEF Ask
  <2>2. QED
    BY <1>1, <2>1 DEF Row
<1>6. CASE Terminate(w) /\ ~Throws(w)
  <2>1. PICK t \in 0..MaxTrace :
           /\ wf # None
           /\ wf' = [wf EXCEPT !.progress = FALSE, !.initiated = FALSE, !.terminated = TRUE,
                               !.lock = None, !.trace = t]
    BY <1>6, TurnFacts DEF Terminate
  <2>2. QED
    BY <1>1, <2>1 DEF Row
<1>7. CASE SaveWf(w) /\ ~Throws(w)
  <2> DEFINE stored == IF lwf[w].stored = {} THEN wf.stored ELSE lwf[w].stored
             asked  == IF lwf[w].expecting = None THEN wf.expecting ELSE lwf[w].expecting
             lock   == IF lwf[w].lock = None THEN wf.lock ELSE lwf[w].lock
  <2>1. wf \in Row /\ lwf[w] \in Row
    BY <1>1, <1>7 DEF SaveWf, TypeInv, TypeOK, Loaded
  <2>2. wf' = [lwf[w] EXCEPT !.stored = stored, !.expecting = asked, !.lock = lock]
    BY <1>7, <2>1 DEF SaveWf
  <2>3. stored \in SUBSET Nodes /\ asked \in Nodes \cup {None} /\ lock \in Workers \cup {None}
    BY <2>1 DEF Row
  <2> HIDE DEF stored, asked, lock
  <2>4. QED
    BY <2>1, <2>2, <2>3 DEF Row
<1>8. QED
  BY <1>1, <1>2, <1>3, <1>4, <1>5, <1>6, <1>7

\* The row in its memory.
LEMMA RowLoaded ==
    ASSUME TypeInv, NEW w \in Workers, Handler(w) \/ Crash(w)
    PROVE  lwf' \in [Workers -> Row \cup {None}]
<1>1. lwf \in [Workers -> Row \cup {None}] /\ wf \in Row \cup {None}
  BY DEF TypeInv, TypeOK
<1>2. \/ UNCHANGED lwf
      \/ lwf' = [lwf EXCEPT ![w] = None]
      \/ lwf' = [lwf EXCEPT ![w] = wf]
      \/ lwf[w] # None /\ lwf' = [lwf EXCEPT ![w].progress = TRUE]
      \/ ClockRuns(w) \/ ClockSkips(w)
  BY DEF worker, Handler, Receive, IsLocked, Lock, LoadWf, LoadRt, ClockWaits,
         ClockTerminates, ClockRuns, ClockSkips, SaveWf, SaveRt, Unlock, Charge,
         EnqueueNext, Ack, Ask, ReleaseAsked, Terminate, Finish, Link, AckEnded,
         EnqueueEnded, Crash, Throws, Requeue, Return, DoneReturn, Done, GoTo
<1>3. CASE lwf[w] # None /\ lwf' = [lwf EXCEPT ![w].progress = TRUE]
  <2>1. [lwf[w] EXCEPT !.progress = TRUE] \in Row
    BY <1>1, <1>3 DEF Row
  <2>2. QED
    BY <1>1, <1>3, <2>1
<1>4. CASE ClockRuns(w)
  <2>1. [lwf[w] EXCEPT !.executed = @ \cup {Turn(w)}, !.trace = @ + 1] \in Row
    BY <1>4, TurnFacts DEF Row, ClockRuns
  <2>2. QED
    BY <1>1, <1>4, <2>1 DEF ClockRuns
<1>5. CASE ClockSkips(w)
  <2>1. [lwf[w] EXCEPT !.trace = @ + 1] \in Row
    BY <1>5, TurnFacts DEF Row, ClockSkips
  <2>2. QED
    BY <1>1, <1>5, <2>1 DEF ClockSkips
<1>6. QED
  BY <1>1, <1>2, <1>3, <1>4, <1>5

\* What a clock leaves of the runtime.
LEMMA ClockFacts ==
    ASSUME TypeInv, NEW w \in Workers, ClockRuns(w) \/ ClockSkips(w)
    PROVE  \E q \in Seq(Nodes) :
              /\ lrt' = [lrt EXCEPT ![w] = After(w, q)]
              /\ After(w, q) \in RuntimeRow
              /\ ClockRuns(w) => q \in Scheduled(Rest(w), Visited(w), Outgoing[Turn(w)])
              /\ ClockSkips(w) => q = Rest(w)
<1>1. /\ pc[w] = "clock"
      /\ Turn(w) \in Nodes /\ Rest(w) \in Seq(Nodes) /\ Visited(w) \in SUBSET Nodes
  BY TurnFacts DEF ClockRuns, ClockSkips
<1>2. ASSUME NEW q \in Seq(Nodes) PROVE After(w, q) \in RuntimeRow
  BY <1>1 DEF After, RuntimeRow
<1>3. CASE ClockRuns(w)
  <2>1. PICK q \in Scheduled(Rest(w), Visited(w), Outgoing[Turn(w)]) :
           lrt' = [lrt EXCEPT ![w] = After(w, q)]
    BY <1>3 DEF ClockRuns
  <2>2. Outgoing[Turn(w)] \in Seq(Nodes)
    BY <1>1, WorkerAssumption
  <2>3. q \in Seq(Nodes)
    BY <1>1, <2>2, ScheduledFacts, WorkerAssumption
  <2>4. ~ClockSkips(w)
    BY <1>3 DEF ClockRuns, ClockSkips
  <2>5. QED
    BY <1>2, <2>1, <2>3, <2>4
<1>4. CASE ClockSkips(w)
  <2>1. ~ClockRuns(w)
    BY <1>4 DEF ClockRuns, ClockSkips
  <2>2. QED
    BY <1>1, <1>2, <1>4, <2>1 DEF ClockSkips
<1>5. QED
  BY <1>3, <1>4

LEMMA RuntimeLoaded ==
    ASSUME TypeInv, NEW w \in Workers, Handler(w) \/ Crash(w)
    PROVE  lrt' \in [Workers -> RuntimeRow \cup {None}]
<1>1. lrt \in [Workers -> RuntimeRow \cup {None}] /\ rt \in RuntimeRow \cup {None}
  BY DEF TypeInv, TypeOK
<1>2. \/ UNCHANGED lrt
      \/ Return(w)
      \/ LoadRt(w)
      \/ ClockRuns(w) \/ ClockSkips(w)
  BY DEF worker, Handler, Receive, IsLocked, Lock, LoadWf, LoadRt, ClockWaits,
         ClockTerminates, ClockRuns, ClockSkips, SaveWf, SaveRt, Unlock, Charge,
         EnqueueNext, Ack, Ask, ReleaseAsked, Terminate, Finish, Link, AckEnded,
         EnqueueEnded, Crash, Throws, Requeue, Return, DoneReturn, Done, GoTo
<1>3. CASE LoadRt(w)
  BY <1>1, <1>3, BootFacts DEF LoadRt, Throws, Requeue, Return
<1>4. CASE ClockRuns(w) \/ ClockSkips(w)
  BY <1>1, <1>4, ClockFacts
<1>5. QED
  BY <1>1, <1>2, <1>3, <1>4 DEF Return
-------------------------------------------------------------------------------
LEMMA InitTypes == Init => TypeInv
<1> SUFFICES ASSUME Init PROVE TypeInv
  OBVIOUS
<1>1. wf \in Row
  BY WorkerAssumption DEF Init, Row
<1>2. rt \in RuntimeRow
  BY DEF Init, RuntimeRow
<1>3. TypeOK
  BY <1>1, <1>2, WorkerAssumption DEF Init, TypeOK, Pcs
<1>4. QED
  BY <1>3 DEF TypeInv, Init, Held, Loaded, Asking, Has

LEMMA HeldStep == ASSUME TypeInv, [Next]_vars PROVE Held'
<1> DEFINE Here(v) ==
             /\ pc[v] \in Has => v \in holds
             /\ pc[v] = "cleanup" => v \notin holds
             /\ pc[v] = "save" => todo[v] \subseteq {"wf", "rt"}
             /\ pc[v] = "next" => todo[v] \subseteq {"enqueue", "ack"}
             /\ pc[v] = "asked" => todo[v] \subseteq {"release", "ack"}
             /\ pc[v] \in {"save", "next", "asked"} => todo[v] # {}
             /\ pc[v] \in {"next", "asked"} => (v \in holds <=> "ack" \in todo[v])
<1>1. ASSUME NEW w \in Workers, Handler(w) \/ Crash(w)
      PROVE  Here(w)'
  <2>1. Here(w)
    BY DEF TypeInv, Held
  <2> USE <1>1, <2>1
    DEF TypeInv, TypeOK, Has, worker, Handler, Receive, IsLocked, Lock, LoadWf, LoadRt,
        ClockWaits, ClockTerminates, ClockRuns, ClockSkips, SaveWf, SaveRt, Unlock, Charge,
        EnqueueNext, Ack, Ask, ReleaseAsked, Terminate, Finish, Link, AckEnded,
        EnqueueEnded, Crash, Throws, Requeue, Return, DoneReturn, Done, GoTo
  <2>2. pc'[w] \in Has => w \in holds'
    OBVIOUS
  <2>3. pc'[w] = "cleanup" => w \notin holds'
    OBVIOUS
  <2>4. pc'[w] = "save" => todo'[w] \subseteq {"wf", "rt"}
    OBVIOUS
  <2>5. pc'[w] = "next" => todo'[w] \subseteq {"enqueue", "ack"}
    OBVIOUS
  <2>6. pc'[w] = "asked" => todo'[w] \subseteq {"release", "ack"}
    OBVIOUS
  <2>7. pc'[w] \in {"save", "next", "asked"} => todo'[w] # {}
    <3>1. \A call \in todo[w] : todo[w] # {call} => todo[w] \ {call} # {}
      OBVIOUS
    <3>2. \/ pc'[w] \notin {"save", "next", "asked"}
          \/ UNCHANGED <<pc[w], todo[w]>>
          \/ \E call \in todo[w] : todo[w] # {call} /\ todo'[w] = todo[w] \ {call}
          \/ todo'[w] \in {{"wf", "rt"}, {"enqueue", "ack"}, {"release", "ack"}}
      OBVIOUS
    <3>3. QED
      BY <3>1, <3>2
  <2>8. pc'[w] \in {"next", "asked"} /\ w \in holds' => "ack" \in todo'[w]
    <3>1. CASE Ack(w)
      BY <3>1
    <3>2. CASE EnqueueNext(w)
      BY <3>2
    <3>3. CASE ReleaseAsked(w)
      BY <3>3
    <3>4. CASE Charge(w) \/ Ask(w)
      BY <3>4
    <3>5. CASE Crash(w)
      BY <3>5
    <3>6. QED
      BY <3>1, <3>2, <3>3, <3>4, <3>5
  <2>10. pc'[w] \in {"next", "asked"} /\ "ack" \in todo'[w] => w \in holds'
    OBVIOUS
  <2>9. QED
    BY <2>2, <2>3, <2>4, <2>5, <2>6, <2>7, <2>8, <2>10
<1>2. \A w \in Workers : Here(w)
  BY DEF TypeInv, Held
<1>3. \A v \in Workers : Still(v) => Here(v)'
  BY <1>2 DEF Still
<1> HIDE DEF Here
<1>4. UNCHANGED worker => \A v \in Workers : Still(v)
  BY DEF worker, Still
<1>5. \A v \in Workers : Here(v)'
  BY <1>1, <1>3, <1>4, WhoMoves
<1> USE DEF Here
<1>6. QED
  BY <1>5 DEF Held

LEMMA LoadedStep == ASSUME TypeInv, [Next]_vars PROVE Loaded'
<1> DEFINE Here(v) ==
             /\ pc[v] \in {"clock", "ask", "terminate"} =>
                   /\ lwf[v] # None /\ lwf[v].trace < MaxTrace
                   /\ lrt[v] # None /\ ~IsFinished(lrt[v])
             /\ pc[v] = "save" => lwf[v] # None /\ lrt[v] # None
             /\ pc[v] \in {"clock", "save"} => lwf[v].progress
             /\ pc[v] \in {"save", "unlock", "charge"} => at[v] \in Nodes
<1>1. ASSUME NEW w \in Workers, Handler(w) \/ Crash(w)
      PROVE  Here(w)'
  <2>1. /\ Here(w) /\ lwf \in [Workers -> Row \cup {None}] /\ DOMAIN at = Workers
        /\ lrt \in [Workers -> RuntimeRow \cup {None}] /\ pc \in [Workers -> Pcs]
        /\ rt \in RuntimeRow \cup {None}
    BY DEF TypeInv, TypeOK, Loaded
  <2>2. \/ /\ UNCHANGED <<lwf[w], lrt[w], at[w]>>
           /\ pc'[w] \notin {"clock", "save"}
           /\ pc'[w] \in {"ask", "terminate"} => pc[w] = "clock"
           /\ pc'[w] \in {"unlock", "charge"} => pc[w] \in {"save", "unlock"}
        \/ pc'[w] = pc[w] /\ UNCHANGED <<lwf[w], lrt[w], at[w]>>
        \/ pc'[w] \in {"idle", "loadRt", "link", "linked"}
        \/ LoadRt(w) \/ ClockRuns(w) \/ ClockSkips(w)
    BY <1>1, <2>1 DEF worker, Handler, Receive, IsLocked, Lock, LoadWf, LoadRt, ClockWaits,
                      ClockTerminates, ClockRuns, ClockSkips, SaveWf, SaveRt, Unlock,
                      Charge, EnqueueNext, Ack, Ask, ReleaseAsked, Terminate, Finish, Link,
                      AckEnded, EnqueueEnded, Crash, Throws, Requeue, Return, DoneReturn,
                      Done, GoTo
  <2>3. CASE LoadRt(w)
    <3>1. CASE Throws(w)
      BY <2>1, <3>1 DEF Throws, Requeue, Return, GoTo
    <3>2. CASE ~Throws(w)
      <4>1. /\ lwf[w] \in Row /\ Boot(rt) \in RuntimeRow
            /\ lwf'[w] = [lwf[w] EXCEPT !.progress = TRUE] /\ lrt'[w] = Boot(rt)
            /\ pc'[w] = IF IsFinished(Boot(rt)) THEN "finish"
                        ELSE IF lwf[w].trace >= MaxTrace THEN "stuck" ELSE "clock"
        BY <2>1, <2>3, <3>2, BootFacts DEF LoadRt, GoTo
      <4>2. lwf'[w] \in Row /\ lwf'[w].trace = lwf[w].trace
        BY <4>1 DEF Row
      <4>3. lwf[w].trace \in Nat /\ MaxTrace \in Nat
        BY <4>1, WorkerAssumption DEF Row
      <4>4. lwf'[w] # None /\ lrt'[w] # None /\ lwf'[w].progress
        BY <4>1, <4>2, NoneAssumption DEF Row
      <4>5. QED
        BY <4>1, <4>2, <4>3, <4>4
    <3>3. QED
      BY <3>1, <3>2
  <2>4. CASE ClockRuns(w) \/ ClockSkips(w)
    <3>1. /\ lwf[w] \in Row /\ lwf[w].trace + 1 \in 0..MaxTrace /\ Turn(w) \in Nodes
      BY <2>4, TurnFacts DEF ClockRuns, ClockSkips
    <3>2. PICK q \in Seq(Nodes) :
             /\ lrt' = [lrt EXCEPT ![w] = After(w, q)]
             /\ After(w, q) \in RuntimeRow
      BY <2>4, ClockFacts
    <3>3. pc'[w] = "save" /\ at'[w] = Turn(w) /\ lrt'[w] = After(w, q)
      BY <2>1, <2>4, <3>2 DEF ClockRuns, ClockSkips, GoTo
    <3>4. lwf'[w] \in Row /\ lwf'[w].progress
      <4>1. CASE ClockRuns(w)
        <5>1. lwf'[w] = [lwf[w] EXCEPT !.executed = @ \cup {Turn(w)}, !.trace = @ + 1]
          BY <2>1, <4>1 DEF ClockRuns
        <5>2. QED
          BY <2>1, <3>1, <4>1, <5>1 DEF Row, ClockRuns
      <4>2. CASE ClockSkips(w)
        <5>1. lwf'[w] = [lwf[w] EXCEPT !.trace = @ + 1]
          BY <2>1, <4>2 DEF ClockSkips
        <5>2. QED
          BY <2>1, <3>1, <4>2, <5>1 DEF Row, ClockSkips
      <4>3. QED
        BY <2>4, <4>1, <4>2
    <3>5. QED
      BY <3>1, <3>2, <3>3, <3>4, NoneAssumption
  <2>5. QED
    BY <2>1, <2>2, <2>3, <2>4 DEF IsFinished
<1>2. \A w \in Workers : Here(w)
  BY DEF TypeInv, Loaded
<1>3. \A v \in Workers : Still(v) => Here(v)'
  BY <1>2 DEF Still
<1> HIDE DEF Here
<1>4. UNCHANGED worker => \A v \in Workers : Still(v)
  BY DEF worker, Still
<1>5. \A v \in Workers : Here(v)'
  BY <1>1, <1>3, <1>4, WhoMoves
<1> USE DEF Here
<1>6. QED
  BY <1>5 DEF Loaded

\* What a worker leaves alone.
LEMMA WorkersKeep ==
    ASSUME NEW w \in Workers, Handler(w) \/ Crash(w)
    PROVE  UNCHANGED client /\ windows \subseteq windows'
BY DEF history, Handler, Receive, IsLocked, Lock, LoadWf, LoadRt, ClockWaits,
       ClockTerminates, ClockRuns, ClockSkips, SaveWf, SaveRt, Unlock, Charge, EnqueueNext,
       Ack, Ask, ReleaseAsked, Terminate, Finish, Link, AckEnded, EnqueueEnded, Crash,
       Throws, Requeue, Return, DoneReturn, Done, GoTo

LEMMA AskingStep == ASSUME TypeInv, [Next]_vars PROVE Asking'
<1>1. CASE \E w \in Workers : Handler(w) \/ Crash(w)
  BY <1>1, WorkersKeep DEF TypeInv, Asking, client
<1>2. CASE UNCHANGED vars \/ Cleanup \/ LockExpires \/ Elsewhere
  BY <1>2 DEF vars, Cleanup, CleanupReceive, CleanupDelete, LockExpires, Elsewhere, TypeInv, Asking,
              client, history
<1>3. CASE \E c \in Clients : CheckInitiate(c) \/ CheckAnswer(c) \/ Request(c)
  <2>1. PICK c \in Clients : CheckInitiate(c) \/ CheckAnswer(c) \/ Request(c)
    BY <1>3
  <2>2. /\ cpc \in [Clients -> SUBSET {"initiate", "answer", "enqueue"}]
        /\ csaw \in [Clients -> Row \cup {None}]
    BY DEF TypeInv, TypeOK
  <2>3. CASE CheckInitiate(c)
    BY <2>2, <2>3 DEF CheckInitiate, TypeInv, Asking, history
  <2>4. CASE CheckAnswer(c)
    BY <2>2, <2>4 DEF CheckAnswer, TypeInv, Asking, history
  <2>5. CASE Initiate(c)
    BY <2>2, <2>5 DEF Initiate, TypeInv, Asking, history
  <2>6. CASE SaveAnswer(c)
    BY <2>2, <2>6 DEF SaveAnswer, TypeInv, Asking, history
  <2>7. CASE EnqueueRequest(c)
    BY <2>2, <2>7 DEF EnqueueRequest, TypeInv, Asking
  <2>8. QED
    BY <2>1, <2>3, <2>4, <2>5, <2>6, <2>7 DEF Request
<1>4. QED
  BY <1>1, <1>2, <1>3 DEF Next

\* A worker changes what it changes within its type ...
LEMMA WorkerTypes ==
    ASSUME TypeInv, NEW w \in Workers, Handler(w) \/ Crash(w)
    PROVE  TypeOK'
<1> USE DEF TypeInv, TypeOK
<1>1. wf' \in Row \cup {None}
  BY RowWritten
<1>2. rt' \in RuntimeRow \cup {None}
  <2>1. UNCHANGED rt \/ SaveRt(w) \/ rt' = None
    BY DEF rows, Handler, Receive, IsLocked, Lock, LoadWf, LoadRt, ClockWaits,
           ClockTerminates, ClockRuns, ClockSkips, SaveWf, SaveRt, Unlock, Charge,
           EnqueueNext, Ack, Ask, ReleaseAsked, Terminate, Finish, Link, AckEnded,
           EnqueueEnded, Crash, Throws, Requeue, Return, DoneReturn, Done, GoTo
  <2>2. QED
    BY <2>1 DEF SaveRt
<1>3. root' \in Nat /\ ended' \in Nat /\ cleaning' \subseteq {"wf", "rt"} /\ credits' \in Nat
  BY DEF queues, Handler, Receive, IsLocked, Lock, LoadWf, LoadRt, ClockWaits,
         ClockTerminates, ClockRuns, ClockSkips, SaveWf, SaveRt, Unlock, Charge,
         EnqueueNext, Ack, Ask, ReleaseAsked, Terminate, Finish, Link, AckEnded,
         EnqueueEnded, Crash, Throws, Requeue, Return, DoneReturn, Done, GoTo
<1>4. pc' \in [Workers -> Pcs]
  BY DEF Pcs, worker, Handler, Receive, IsLocked, Lock, LoadWf, LoadRt, ClockWaits,
         ClockTerminates, ClockRuns, ClockSkips, SaveWf, SaveRt, Unlock, Charge,
         EnqueueNext, Ack, Ask, ReleaseAsked, Terminate, Finish, Link, AckEnded,
         EnqueueEnded, Crash, Throws, Requeue, Return, DoneReturn, Done, GoTo
<1>5. holds' \subseteq Workers /\ DOMAIN at' = Workers
  BY DEF worker, Handler, Receive, IsLocked, Lock, LoadWf, LoadRt, ClockWaits,
         ClockTerminates, ClockRuns, ClockSkips, SaveWf, SaveRt, Unlock, Charge,
         EnqueueNext, Ack, Ask, ReleaseAsked, Terminate, Finish, Link, AckEnded,
         EnqueueEnded, Crash, Throws, Requeue, Return, DoneReturn, Done, GoTo
<1>6. lwf' \in [Workers -> Row \cup {None}] /\ lrt' \in [Workers -> RuntimeRow \cup {None}]
  BY RowLoaded, RuntimeLoaded
<1>7. todo' \in [Workers -> SUBSET {"wf", "rt", "enqueue", "ack", "release"}]
  BY DEF worker, Handler, Receive, IsLocked, Lock, LoadWf, LoadRt, ClockWaits,
         ClockTerminates, ClockRuns, ClockSkips, SaveWf, SaveRt, Unlock, Charge,
         EnqueueNext, Ack, Ask, ReleaseAsked, Terminate, Finish, Link, AckEnded,
         EnqueueEnded, Crash, Throws, Requeue, Return, DoneReturn, Done, GoTo
<1>8. \A v \in Workers : pc'[v] = "idle" => v \notin holds' /\ todo'[v] = {}
  BY DEF worker, Handler, Receive, IsLocked, Lock, LoadWf, LoadRt, ClockWaits,
         ClockTerminates, ClockRuns, ClockSkips, SaveWf, SaveRt, Unlock, Charge,
         EnqueueNext, Ack, Ask, ReleaseAsked, Terminate, Finish, Link, AckEnded,
         EnqueueEnded, Crash, Throws, Requeue, Return, DoneReturn, Done, GoTo
<1>9. ran' \in [Nodes -> Nat] /\ blind' \subseteq Nodes /\ drawn' = drawn
  <2>1. UNCHANGED drawn /\ (UNCHANGED <<ran, blind>> \/ ClockRuns(w))
    BY DEF history, Handler, Receive, IsLocked, Lock, LoadWf, LoadRt, ClockWaits,
           ClockTerminates, ClockRuns, ClockSkips, SaveWf, SaveRt, Unlock, Charge,
           EnqueueNext, Ack, Ask, ReleaseAsked, Terminate, Finish, Link, AckEnded,
           EnqueueEnded, Crash, Throws, Requeue, Return, DoneReturn, Done, GoTo
  <2>2. QED
    BY <2>1, TurnFacts DEF ClockRuns
<1>10. charged' \in [Nodes -> Nat] 
  BY DEF history, Handler, Receive, IsLocked, Lock, LoadWf, LoadRt, ClockWaits,
         ClockTerminates, ClockRuns, ClockSkips, SaveWf, SaveRt, Unlock, Charge,
         EnqueueNext, Ack, Ask, ReleaseAsked, Terminate, Finish, Link, AckEnded,
         EnqueueEnded, Crash, Throws, Requeue, Return, DoneReturn, Done, GoTo
<1>11. windows' \subseteq {"unsaved", "torn", "unpaid", "twice", "lost", "early"}
  BY DEF Windows, history, Handler, Receive, IsLocked, Lock, LoadWf, LoadRt, ClockWaits,
         ClockTerminates, ClockRuns, ClockSkips, SaveWf, SaveRt, Unlock, Charge,
         EnqueueNext, Ack, Ask, ReleaseAsked, Terminate, Finish, Link, AckEnded,
         EnqueueEnded, Crash, Throws, Requeue, Return, DoneReturn, Done, GoTo
<1>12. QED
  BY <1>1, <1>2, <1>3, <1>4, <1>5, <1>6, <1>7, <1>8, <1>9, <1>10, <1>11, WorkersKeep
  DEF client

\* ... and so does a request.
LEMMA RequestTypes ==
    ASSUME TypeInv, NEW c \in Clients, CheckInitiate(c) \/ CheckAnswer(c) \/ Request(c)
    PROVE  TypeOK'
<1> USE DEF TypeInv, TypeOK
<1>1. wf' \in Row \cup {None}
  <2>1. UNCHANGED wf \/ Initiate(c) \/ SaveAnswer(c)
    BY DEF CheckInitiate, CheckAnswer, Request, EnqueueRequest, rows
  <2>2. CASE Initiate(c)
    BY <2>2 DEF Initiate, Row
  <2>3. CASE SaveAnswer(c)
    <3>1. csaw[c] \in Row /\ csaw[c].expecting # None
      BY <2>3 DEF SaveAnswer, Asking
    <3>2. PICK s \in SUBSET Nodes :
             wf' = IF wf = None THEN None ELSE [wf EXCEPT !.stored = s, !.expecting = None]
      <4>1. csaw[c].stored \cup {csaw[c].expecting} \in SUBSET Nodes
        BY <3>1 DEF Row
      <4>2. QED
        BY <2>3, <4>1 DEF SaveAnswer
    <3>3. QED
      BY <3>2 DEF Row
  <2>4. QED
    BY <2>1, <2>2, <2>3
<1>2. /\ UNCHANGED <<rt, ended, cleaning, credits, worker, ran, charged, blind, drawn>>
      /\ root' \in Nat
  BY DEF CheckInitiate, CheckAnswer, Request, Initiate, SaveAnswer, EnqueueRequest, rows, queues,
         history
<1>3. cpc' \in [Clients -> SUBSET {"initiate", "answer", "enqueue"}]
  BY DEF CheckInitiate, CheckAnswer, Request, Initiate, SaveAnswer, EnqueueRequest
<1>4. csaw' \in [Clients -> Row \cup {None}]
  BY DEF CheckInitiate, CheckAnswer, Request, Initiate, SaveAnswer, EnqueueRequest
<1>5. windows' \subseteq {"unsaved", "torn", "unpaid", "twice", "lost", "early"}
  BY DEF CheckInitiate, CheckAnswer, Request, Initiate, SaveAnswer, EnqueueRequest, history
<1>6. QED
  BY <1>1, <1>2, <1>3, <1>4, <1>5 DEF worker

\* ... and what time and the cleanup do.
LEMMA OtherTypes ==
    ASSUME TypeInv, UNCHANGED vars \/ Cleanup \/ LockExpires \/ Elsewhere
    PROVE  TypeOK'
<1>1. wf' \in Row \cup {None} /\ rt' \in RuntimeRow \cup {None}
  <2>1. wf \in Row \cup {None} /\ rt \in RuntimeRow \cup {None}
    BY DEF TypeInv, TypeOK
  <2>2. CASE LockExpires
    BY <2>1, <2>2 DEF LockExpires, Row
  <2>3. QED
    BY <2>1, <2>2 DEF vars, rows, Cleanup, CleanupReceive, CleanupDelete, Elsewhere
<1>2. /\ UNCHANGED <<root, worker, client, ran, charged, blind, windows>>
      /\ ended' \in Nat /\ cleaning' \subseteq {"wf", "rt"}
  BY DEF TypeInv, TypeOK, vars, Cleanup, CleanupReceive, CleanupDelete, LockExpires, Elsewhere,
         queues, history
<1>3. UNCHANGED <<pc, holds, lwf, lrt, todo, at, cpc, csaw>>
  BY <1>2 DEF worker, client
<1>4. credits' \in Nat /\ drawn' \subseteq Nodes
  <2>1. credits \in Nat /\ drawn \subseteq Nodes /\ \A w \in Workers : Owes(w) => at[w] \in Nodes
    BY DEF TypeInv, TypeOK, Loaded, Owes
  <2>2. CASE Elsewhere
    <3>1. /\ credits' \in Balances
          /\ drawn' = drawn \cup {at[w] : w \in {v \in Workers : Owes(v) /\ credits' = 0}}
      BY <2>2 DEF Elsewhere
    <3>2. QED
      BY <2>1, <3>1, WorkerAssumption
  <2>3. CASE UNCHANGED vars \/ Cleanup \/ LockExpires
    BY <2>1, <2>3 DEF vars, Cleanup, CleanupReceive, CleanupDelete, LockExpires, history
  <2>4. QED
    BY <2>2, <2>3
<1>5. QED
  BY <1>1, <1>2, <1>3, <1>4 DEF TypeInv, TypeOK

LEMMA TypesStep == ASSUME TypeInv, [Next]_vars PROVE TypeInv'
<1>1. TypeOK'
  BY WorkerTypes, RequestTypes, OtherTypes DEF Next
<1>2. QED
  BY <1>1, HeldStep, LoadedStep, AskingStep DEF TypeInv

\* Every variable keeps its type, the trace its maximum.
THEOREM TypeCorrect == Spec => []TypeOK
<1>1. TypeInv => TypeOK
  BY DEF TypeInv
<1>2. QED
  BY InitTypes, TypesStep, <1>1, PTL DEF Spec
-------------------------------------------------------------------------------
\* The worker has the message that moves the workflow: the one it was sent, or the next
\* one, not enqueued yet.
Bears(w) == \/ pc[w] \in Has \ {"terminated"}
            \/ pc[w] = "next" /\ "enqueue" \in todo[w]

\* A request that still has a message to send.
Due(c) == cpc[c] \cap {"initiate", "enqueue"} # {}

\* A workflow that has begun, and whose messages are all accounted for.
Begun == /\ wf # None /\ wf.initiated /\ wf.expecting = None
         /\ windows \cap {"lost", "early"} = {}

Moves(w) == Bears(w) /\ pc[w] \notin {"link", "linked"}

\* Somebody will move the workflow.
Token == \/ root > 0
         \/ \E w \in Workers : Moves(w)
         \/ \E c \in Clients : Due(c)

\* The inductive invariant of NoStranded.
TokenInv == Begun => Token

\* A worker passes the token on, or the workflow has ended or asks.
LEMMA TokenPassed ==
    ASSUME TypeInv, NEW w \in Workers, Handler(w) \/ Crash(w), Moves(w), Begun'
    PROVE  root' > 0 \/ Moves(w)'
<1>1. /\ root \in Nat /\ pc \in [Workers -> Pcs]
      /\ todo \in [Workers -> SUBSET {"wf", "rt", "enqueue", "ack", "release"}]
  BY DEF TypeInv, TypeOK
<1>2. /\ pc[w] \in Has => w \in holds
      /\ pc[w] = "next" => (w \in holds <=> "ack" \in todo[w])
      /\ pc[w] = "next" => todo[w] \subseteq {"enqueue", "ack"}
  BY DEF TypeInv, Held
<1>3. CASE Throws(w) /\ pc[w] # "next"
  <2>1. pc[w] \in Has
    BY <1>3 DEF Moves, Bears
  <2>2. QED
    BY <1>1, <1>2, <1>3, <2>1 DEF Throws, Requeue
<1>4. CASE Crash(w)
  <2>1. pc[w] \in Has \/ "ack" \in todo[w] \/ "lost" \in windows'
    <3>1. CASE pc[w] = "next" /\ "ack" \notin todo[w]
      <4>1. todo[w] = {"enqueue"}
        BY <1>2, <3>1 DEF Moves, Bears, Has
      <4>2. Windows(w) = {"lost"}
        BY <3>1, <4>1 DEF Windows
      <4>3. QED
        BY <1>4, <4>2 DEF Crash
    <3>2. QED
      BY <3>1 DEF Moves, Bears
  <2>2. w \in holds
    BY <1>2, <2>1 DEF Moves, Bears, Begun
  <2>3. QED
    BY <1>1, <1>4, <2>2 DEF Crash, Requeue
<1>5. CASE EnqueueNext(w)
  BY <1>1, <1>5 DEF EnqueueNext
<1>6. CASE Ack(w)
  BY <1>1, <1>6 DEF Ack, DoneReturn, Moves, Bears, Has
<1>7. CASE Ask(w) /\ ~Throws(w)
  <2>1. Turn(w) \in Nodes
    BY <1>7, TurnFacts DEF Ask
  <2>2. wf \in Row \cup {None}
    BY DEF TypeInv, TypeOK
  <2>3. wf'.expecting = Turn(w)
    BY <1>7, <2>2 DEF Ask, Row
  <2>4. QED
    BY <2>1, <2>3, WorkerAssumption DEF Begun
<1>8. CASE (Terminate(w) \/ Finish(w)) /\ ~Throws(w)
  <2>1. wf \in Row \cup {None}
    BY DEF TypeInv, TypeOK
  <2>2. ~wf'.initiated
    BY <1>8, <2>1 DEF Terminate, Finish, Row
  <2>3. QED
    BY <2>2 DEF Begun
<1>9. CASE \/ /\ ~Throws(w)
              /\ IsLocked(w) \/ Lock(w) \/ LoadRt(w) \/ SaveWf(w) \/ Unlock(w) \/ Charge(w)
           \/ LoadWf(w) \/ ClockWaits(w) \/ ClockTerminates(w) \/ ClockRuns(w) \/ ClockSkips(w)
           \/ SaveRt(w)
  <2>1. \/ pc'[w] \in Has \ {"terminated", "link", "linked"}
        \/ pc'[w] = "next" /\ "enqueue" \in todo'[w]
    BY <1>1, <1>9 DEF Has, Handler, Receive, IsLocked, Lock, LoadWf, LoadRt, ClockWaits,
                      ClockTerminates, ClockRuns, ClockSkips, SaveWf, SaveRt, Unlock,
                      Charge, EnqueueNext, Ack, Ask, ReleaseAsked, Terminate, Finish, Link,
                      AckEnded, EnqueueEnded, Crash, Throws, Requeue, Return, DoneReturn,
                      Done, GoTo
  <2>2. QED
    BY <2>1 DEF Moves, Bears, Has
<1>10. pc[w] \notin {"idle", "asked", "terminated", "link", "linked", "cleanup"}
  BY DEF Moves, Bears, Has
<1>11. CASE Handler(w) /\ pc[w] = "next"
  BY <1>5, <1>6, <1>11 DEF Handler, Receive, IsLocked, Lock, LoadWf, LoadRt, ClockWaits,
                           ClockTerminates, ClockRuns, ClockSkips, SaveWf, SaveRt, Unlock,
                           Charge, EnqueueNext, Ack, Ask, ReleaseAsked, Terminate, Finish,
                           Link, AckEnded, EnqueueEnded, Crash
<1>12. QED
  BY <1>3, <1>4, <1>5, <1>6, <1>7, <1>8, <1>9, <1>10, <1>11
     DEF Handler, Receive, ReleaseAsked, Link, AckEnded, EnqueueEnded

LEMMA TokenStep == ASSUME TypeInv, TokenInv, [Next]_vars PROVE TokenInv'
<1> SUFFICES ASSUME Begun' PROVE Token'
  BY DEF TokenInv
<1>1. root \in Nat /\ wf \in Row \cup {None} /\ pc \in [Workers -> Pcs]
      /\ todo \in [Workers -> SUBSET {"wf", "rt", "enqueue", "ack", "release"}]
      /\ cpc \in [Clients -> SUBSET {"initiate", "answer", "enqueue"}]
  BY DEF TypeInv, TypeOK
<1>2. CASE \E w \in Workers : Handler(w) \/ Crash(w)
  <2>1. PICK w \in Workers : Handler(w) \/ Crash(w)
    BY <1>2
  <2>2. CASE Moves(w)
    BY <2>1, <2>2, TokenPassed DEF Token
  <2>3. CASE Receive(w) /\ ~Moves(w)
    <3>1. Moves(w)'
      BY <1>1, <2>3 DEF Receive, GoTo, Moves, Bears, Has, Begun
    <3>2. QED
      BY <3>1 DEF Token
  <2>4. CASE ~Receive(w) /\ ~Moves(w)
    <3>1. Begun
      <4>1. wf' # None => wf # None
        BY <2>1, <2>4 DEF rows, Handler, Receive, IsLocked, Lock, LoadWf, LoadRt,
                          ClockWaits, ClockTerminates, ClockRuns, ClockSkips, SaveWf,
                          SaveRt, Unlock, Charge, EnqueueNext, Ack, Ask, ReleaseAsked,
                          Terminate, Finish, Link, AckEnded, EnqueueEnded, Crash, Throws,
                          Requeue, Return, DoneReturn, Done, GoTo
      <4>2. wf'.initiated => wf.initiated
        BY <1>1, <2>1, <2>4, <4>1 DEF Row, rows, Moves, Bears, Has, Begun, Handler, Receive,
                                      IsLocked, Lock, LoadWf, LoadRt, ClockWaits,
                                      ClockTerminates, ClockRuns, ClockSkips, SaveWf,
                                      SaveRt, Unlock, Charge, EnqueueNext, Ack, Ask,
                                      ReleaseAsked, Terminate, Finish, Link, AckEnded,
                                      EnqueueEnded, Crash, Throws, Requeue, Return,
                                      DoneReturn, Done, GoTo
      <4>3. wf'.expecting = None => wf.expecting = None
        BY <1>1, <2>1, <2>4, <4>1 DEF Row, rows, Moves, Bears, Has, Begun, Handler, Receive,
                                      IsLocked, Lock, LoadWf, LoadRt, ClockWaits,
                                      ClockTerminates, ClockRuns, ClockSkips, SaveWf,
                                      SaveRt, Unlock, Charge, EnqueueNext, Ack, Ask,
                                      ReleaseAsked, Terminate, Finish, Link, AckEnded,
                                      EnqueueEnded, Crash, Throws, Requeue, Return,
                                      DoneReturn, Done, GoTo
      <4>4. QED
        BY <2>1, <4>1, <4>2, <4>3, WorkersKeep DEF Begun
    <3>2. Token
      BY <3>1 DEF TokenInv
    <3>3. root' \in Nat /\ root' >= root /\ UNCHANGED cpc
      BY <1>1, <2>1, <2>4 DEF queues, client, Handler, Receive, IsLocked, Lock, LoadWf,
                              LoadRt, ClockWaits, ClockTerminates, ClockRuns, ClockSkips,
                              SaveWf, SaveRt, Unlock, Charge, EnqueueNext, Ack, Ask,
                              ReleaseAsked, Terminate, Finish, Link, AckEnded, EnqueueEnded,
                              Crash, Throws, Requeue, Return, DoneReturn, Done, GoTo
    <3>4. \A v \in Workers : Moves(v) => Moves(v)'
      BY <2>1, <2>4, OthersStill DEF Still, Moves, Bears
    <3>5. QED
      BY <1>1, <3>2, <3>3, <3>4 DEF Token, Due
  <2>5. QED
    BY <2>2, <2>3, <2>4
<1>3. CASE UNCHANGED vars \/ Cleanup \/ LockExpires \/ Elsewhere
  <2>1. UNCHANGED <<root, pc, todo, cpc, windows>>
    BY <1>3 DEF vars, Cleanup, CleanupReceive, CleanupDelete, LockExpires, Elsewhere,
                queues, worker, client, history
  <2>2. Begun
    BY <1>1, <1>3, <2>1 DEF vars, rows, Cleanup, CleanupReceive, CleanupDelete, LockExpires,
                            Elsewhere, Begun, Row
  <2>3. QED
    BY <2>1, <2>2 DEF TokenInv, Token, Moves, Bears, Due
<1>4. CASE \E c \in Clients : CheckInitiate(c) \/ CheckAnswer(c) \/ Request(c)
  <2>1. PICK c \in Clients : CheckInitiate(c) \/ CheckAnswer(c) \/ Request(c)
    BY <1>4
  <2>2. CASE EnqueueRequest(c)
    BY <1>1, <2>2 DEF EnqueueRequest, Token
  <2>3. CASE Initiate(c)
    BY <1>1, <2>3 DEF Initiate, Token, Due, Begun
  <2>4. CASE CheckInitiate(c) \/ CheckAnswer(c)
    BY <1>1, <2>4 DEF CheckInitiate, CheckAnswer, Token, Due
  <2>5. CASE SaveAnswer(c)
    <3>1. "enqueue" \in cpc[c]
      BY <2>5 DEF SaveAnswer, TypeInv, Asking, Begun, history
    <3>2. QED
      BY <1>1, <2>5, <3>1 DEF SaveAnswer, Token, Due
  <2>6. QED
    BY <2>1, <2>2, <2>3, <2>4, <2>5 DEF Request
<1>5. QED
  BY <1>2, <1>3, <1>4 DEF Next

\* An initiated workflow that asks nothing has a message on its way, whatever the number
\* of owners, workers and crashes, unless one of the two windows was hit.
THEOREM NeverStranded == Spec => []NoStranded
<1>1. Init => TokenInv
  BY DEF Init, TokenInv, Begun
<1>2. TypeInv /\ TokenInv => NoStranded
  BY DEF TokenInv, Begun, Token, Moves, Bears, Has, Due, NoStranded, Stranded, NoMessage
<1>3. QED
  BY InitTypes, TypesStep, TokenStep, <1>1, <1>2, PTL DEF Spec
-------------------------------------------------------------------------------
\* The owner does one thing at a time.
OneAtATime == \A c, d \in Clients : c = d

\* There is one message: queued, with a worker, or still to be sent by the owner.
OneMessage ==
    /\ \A v, w \in Workers : Bears(v) /\ Bears(w) => v = w
    /\ wf # None =>
          /\ root <= 1
          /\ \A w \in Workers : Bears(w) => root = 0
          /\ \A c \in Clients : Due(c) => root = 0 /\ \A w \in Workers : ~Bears(w)

\* While there is one, or the workflow asks, /initiate refuses it.
Flagged ==
    /\ wf # None /\ rt # None
    /\ \/ root > 0
       \/ \E w \in Workers : Bears(w)
       \/ \E c \in Clients : "enqueue" \in cpc[c]
       \/ wf.expecting # None
    => wf.initiated \/ wf.progress \/ IsFinished(Boot(rt))

\* While it asks, only the message of an answer is to come.
Unasked ==
    /\ wf # None /\ wf.expecting # None =>
          /\ root = 0
          /\ \A w \in Workers : ~Bears(w)
          /\ \A c \in Clients : Due(c) => "answer" \in cpc[c]
    /\ \A w \in Workers :
          pc[w] \in {"loadRt", "clock", "save"} /\ lwf[w] # None => lwf[w].expecting = None

\* The worker with the message has the runtime of the row, or the next one.
Turned ==
    \A w \in Workers : rt # None =>
       /\ pc[w] \in {"clock", "ask", "terminate", "finish"} => lrt[w] = Boot(rt)
       /\ pc[w] = "finish" => IsFinished(Boot(rt))
       /\ pc[w] = "save" /\ "rt" \in todo[w] =>
             /\ ~IsFinished(Boot(rt)) /\ at[w] = Head(Boot(rt).queue)
             /\ lrt[w].visited = rt.visited \cup {at[w]}
       /\ pc[w] = "save" /\ "rt" \notin todo[w] => rt = lrt[w]

\* The inductive invariant of Exclusive.
RoundInv == OneRound => OneMessage /\ Flagged /\ Unasked /\ Turned

\* The message in a worker's hand came from the queue, and goes back to it.
LEMMA BearerStep ==
    ASSUME TypeInv, NEW w \in Workers, Handler(w) \/ Crash(w), OneRound'
    PROVE  /\ Bears(w)' => \/ Bears(w)
                           \/ wf # None /\ rt # None /\ root > 0 /\ root' = root - 1
           /\ \/ wf' = None
              \/ root' \in Nat /\ root' <= root
              \/ Bears(w) /\ ~Bears(w)' /\ root' = root + 1
<1>1. /\ root \in Nat /\ pc \in [Workers -> Pcs]
      /\ todo \in [Workers -> SUBSET {"wf", "rt", "enqueue", "ack", "release"}]
  BY DEF TypeInv, TypeOK
<1>2. /\ pc[w] \in Has => w \in holds
      /\ pc[w] = "cleanup" => w \notin holds
      /\ pc[w] = "save" => todo[w] \subseteq {"wf", "rt"}
      /\ pc[w] = "next" => todo[w] \subseteq {"enqueue", "ack"}
      /\ pc[w] \in {"next", "asked"} => (w \in holds <=> "ack" \in todo[w])
  BY DEF TypeInv, Held
<1>3. pc[w] = "idle" => w \notin holds
  BY DEF TypeInv, TypeOK
<1>4. CASE Receive(w)
  BY <1>1, <1>4 DEF Receive, GoTo, worker, Bears, Has
<1>5. CASE Crash(w)
  <2>1. ~Bears(w)' /\ root' \in {root, root + 1} /\ (root' = root + 1 => w \in holds)
    BY <1>1, <1>5 DEF Crash, Requeue, Return, GoTo, Bears, Has
  <2>2. CASE w \in holds /\ ~Bears(w)
    <3>1. Windows(w) = {"twice"}
      <4>1. \/ pc[w] = "next" /\ todo[w] = {"ack"}
            \/ pc[w] = "asked" /\ "ack" \in todo[w]
            \/ pc[w] = "terminated"
        BY <1>1, <1>2, <1>3, <2>2 DEF Bears, Has, Pcs
      <4>2. QED
        BY <4>1 DEF Windows
    <3>2. QED
      BY <1>5, <3>1 DEF Crash, OneRound
  <2>3. QED
    BY <1>1, <2>1, <2>2
<1>6. CASE Handler(w) /\ ~Receive(w)
  <2>1. Bears(w)' => Bears(w)
    BY <1>1, <1>6 DEF worker, Bears, Has, Handler, Receive, IsLocked, Lock, LoadWf, LoadRt,
                      ClockWaits, ClockTerminates, ClockRuns, ClockSkips, SaveWf, SaveRt,
                      Unlock, Charge, EnqueueNext, Ack, Ask, ReleaseAsked, Terminate,
                      Finish, Link, AckEnded, EnqueueEnded, Crash, Throws, Requeue, Return,
                      DoneReturn, Done, GoTo
  <2>2. CASE EnqueueNext(w)
    BY <1>1, <2>2 DEF EnqueueNext, DoneReturn, Return, GoTo, Bears, Has
  <2>3. CASE Throws(w) /\ pc[w] # "next" /\ pc[w] # "asked"
    <3>1. ~Bears(w)' /\ root' \in {root, root + 1} /\ (root' = root + 1 => w \in holds)
      BY <1>1, <2>3 DEF Throws, Requeue, Return, GoTo, Bears, Has
    <3>2. Bears(w) \/ w \notin holds
      BY <1>1, <1>2, <1>3, <1>6, <2>3 DEF Bears, Has, Handler, Receive, IsLocked, Lock,
                                          LoadWf, LoadRt, ClockWaits, ClockTerminates,
                                          ClockRuns, ClockSkips, SaveWf, SaveRt, Unlock,
                                          Charge, EnqueueNext, Ack, Ask, ReleaseAsked,
                                          Terminate, Finish, Link, AckEnded, EnqueueEnded,
                                          Crash, Throws, Requeue, Return, DoneReturn, Done,
                                          GoTo
    <3>3. QED
      BY <1>1, <2>1, <3>1, <3>2
  <2>4. CASE ReleaseAsked(w)
    BY <1>1, <2>1, <2>4 DEF ReleaseAsked, Throws, rows, queues
  <2>5. CASE /\ ~EnqueueNext(w) /\ ~ReleaseAsked(w)
             /\ ~(Throws(w) /\ pc[w] # "next" /\ pc[w] # "asked")
    <3>1. root' = root
      BY <1>6, <2>5 DEF queues, Handler, Receive, IsLocked, Lock, LoadWf, LoadRt,
                        ClockWaits, ClockTerminates, ClockRuns, ClockSkips, SaveWf, SaveRt,
                        Unlock, Charge, EnqueueNext, Ack, Ask, ReleaseAsked, Terminate,
                        Finish, Link, AckEnded, EnqueueEnded, Crash, DoneReturn, Done
    <3>2. QED
      BY <1>1, <2>1, <3>1
  <2>6. QED
    BY <2>2, <2>3, <2>4, <2>5
<1>7. QED
  BY <1>4, <1>5, <1>6

\* The requests of the owner that may still change something.
LEMMA RequestStep ==
    ASSUME TypeInv, NEW c \in Clients, CheckInitiate(c) \/ CheckAnswer(c) \/ Request(c), OneRound'
    PROVE  /\ UNCHANGED <<rt, worker, ran, charged, blind, credits>>
           /\ wf' # None => wf # None
           /\ \A d \in Clients \ {c} : cpc'[d] = cpc[d]
           /\ \/ CheckInitiate(c) /\ UNCHANGED <<wf, root>>
              \/ CheckAnswer(c) /\ UNCHANGED <<wf, root>>
              \/ Initiate(c) /\ UNCHANGED root
              \/ SaveAnswer(c) /\ UNCHANGED root
              \/ EnqueueRequest(c) /\ "answer" \notin cpc[c] /\ UNCHANGED wf
<1>1. cpc \in [Clients -> SUBSET {"initiate", "answer", "enqueue"}]
  BY DEF TypeInv, TypeOK
<1>2. QED
  BY <1>1 DEF CheckInitiate, CheckAnswer, Request, Initiate, SaveAnswer, EnqueueRequest, rows,
              queues, history, OneRound

LEMMA TimeStep ==
    ASSUME TypeInv, UNCHANGED vars \/ Cleanup \/ LockExpires \/ Elsewhere
    PROVE  /\ UNCHANGED <<root, worker, cpc, ran, charged, blind, windows>>
           /\ wf' = None \/ wf' = wf \/ (wf # None /\ wf' = [wf EXCEPT !.lock = None])
           /\ rt' = None \/ rt' = rt
<1>1. UNCHANGED <<root, worker, cpc, ran, charged, blind, windows>>
  BY DEF vars, queues, worker, client, history, Cleanup, CleanupReceive, CleanupDelete,
         LockExpires, Elsewhere
<1>2. wf' = None \/ wf' = wf \/ (wf # None /\ wf' = [wf EXCEPT !.lock = None])
  BY DEF vars, rows, Cleanup, CleanupReceive, CleanupDelete, LockExpires, Elsewhere
<1>3. rt' = None \/ rt' = rt
  BY DEF vars, rows, Cleanup, CleanupReceive, CleanupDelete, LockExpires, Elsewhere
<1>4. QED
  BY <1>1, <1>2, <1>3

\* No step brings a row back.
LEMMA RowsGone ==
    ASSUME TypeInv, [Next]_vars
    PROVE  (wf' # None => wf # None) /\ (rt' # None => rt # None)
<1>1. CASE \E w \in Workers : Handler(w) \/ Crash(w)
  BY <1>1 DEF rows, Handler, Receive, IsLocked, Lock, LoadWf, LoadRt, ClockWaits,
              ClockTerminates, ClockRuns, ClockSkips, SaveWf, SaveRt, Unlock, Charge,
              EnqueueNext, Ack, Ask, ReleaseAsked, Terminate, Finish, Link, AckEnded,
              EnqueueEnded, Crash, Throws, Requeue, Return, DoneReturn, Done, GoTo
<1>2. CASE UNCHANGED vars \/ Cleanup \/ LockExpires \/ Elsewhere
  BY <1>2, TimeStep
<1>3. CASE \E c \in Clients : CheckInitiate(c) \/ CheckAnswer(c) \/ Request(c)
  BY <1>3 DEF CheckInitiate, CheckAnswer, Request, Initiate, SaveAnswer, EnqueueRequest, rows
<1>4. QED
  BY <1>1, <1>2, <1>3 DEF Next

LEMMA RoundsKeep == ASSUME [Next]_vars PROVE windows \subseteq windows'
<1>1. CASE \E w \in Workers : Handler(w) \/ Crash(w)
  BY <1>1, WorkersKeep
<1>2. QED
  BY <1>1 DEF Next, vars, history, Cleanup, CleanupReceive, CleanupDelete, LockExpires,
              Elsewhere, CheckInitiate, CheckAnswer, Request, Initiate, SaveAnswer, EnqueueRequest

LEMMA OneMessageStep ==
    ASSUME OneAtATime, TypeInv, OneMessage, Flagged, Unasked, [Next]_vars, OneRound'
    PROVE  OneMessage'
<1>1. root \in Nat /\ wf \in Row \cup {None}
      /\ cpc \in [Clients -> SUBSET {"initiate", "answer", "enqueue"}]
  BY DEF TypeInv, TypeOK
<1>2. CASE \E w \in Workers : Handler(w) \/ Crash(w)
  <2>1. PICK w \in Workers : Handler(w) \/ Crash(w)
    BY <1>2
  <2>2. \A v \in Workers \ {w} : Bears(v)' <=> Bears(v)
    BY <2>1, OthersStill DEF Still, Bears
  <2>3. \A c \in Clients : Due(c)' <=> Due(c)
    BY <2>1, WorkersKeep DEF Due, client
  <2>4. wf' # None => wf # None
    BY RowsGone
  <2> HIDE DEF Bears, Due
  <2>5. \A u, v \in Workers : Bears(u)' /\ Bears(v)' => u = v
    BY <2>1, <2>2, BearerStep DEF OneMessage
  <2>6. ASSUME wf' # None PROVE root' <= 1
    BY <1>1, <2>1, <2>4, <2>6, BearerStep DEF OneMessage
  <2>7. ASSUME wf' # None, NEW v \in Workers, Bears(v)' PROVE root' = 0
    BY <1>1, <2>1, <2>2, <2>4, <2>7, BearerStep DEF OneMessage
  <2>8. ASSUME wf' # None, NEW c \in Clients, Due(c)'
        PROVE  root' = 0 /\ \A v \in Workers : ~Bears(v)'
    BY <1>1, <2>1, <2>2, <2>3, <2>4, <2>8, BearerStep DEF OneMessage
  <2>9. QED
    BY <2>5, <2>6, <2>7, <2>8 DEF OneMessage
<1>3. CASE UNCHANGED vars \/ Cleanup \/ LockExpires \/ Elsewhere
  BY <1>3, TimeStep DEF OneMessage, Bears, Due, worker
<1>4. CASE \E c \in Clients : CheckInitiate(c) \/ CheckAnswer(c) \/ Request(c)
  <2>1. PICK c \in Clients : CheckInitiate(c) \/ CheckAnswer(c) \/ Request(c)
    BY <1>4
  <2>2. \A d \in Clients : d = c
    BY DEF OneAtATime
  <2>3. \A w \in Workers : Bears(w)' <=> Bears(w)
    BY <2>1, RequestStep DEF Bears, worker
  <2>4. CASE CheckInitiate(c) \/ CheckAnswer(c)
    <3>1. root = 0 /\ (\A w \in Workers : ~Bears(w)) /\ UNCHANGED <<wf, root>>
      BY <1>1, <2>4 DEF CheckInitiate, CheckAnswer, Flagged, Unasked, rows, queues
    <3>2. QED
      BY <2>3, <3>1 DEF OneMessage
  <2>5. CASE Initiate(c) \/ SaveAnswer(c)
    <3>1. Due(c)' => Due(c)
      BY <1>1, <2>5 DEF Initiate, SaveAnswer, Due
    <3>2. (wf' # None => wf # None) /\ UNCHANGED root
      BY <2>5 DEF Initiate, SaveAnswer, queues
    <3>3. QED
      BY <2>2, <2>3, <3>1, <3>2 DEF OneMessage
  <2>6. CASE EnqueueRequest(c)
    <3>1. root' = root + 1 /\ Due(c) /\ ~Due(c)' /\ UNCHANGED wf
      BY <1>1, <2>1, <2>6, RequestStep DEF EnqueueRequest, Due, TypeInv, Asking, rows
    <3>2. QED
      BY <1>1, <2>2, <2>3, <3>1 DEF OneMessage
  <2>7. QED
    BY <2>1, <2>4, <2>5, <2>6 DEF Request
<1>5. QED
  BY <1>2, <1>3, <1>4 DEF Next

\* What a worker does to the row.
LEMMA RowStep ==
    ASSUME TypeInv, NEW w \in Workers, Handler(w) \/ Crash(w), wf' # None
    PROVE  \/ /\ wf'.initiated = wf.initiated /\ wf'.progress = wf.progress
              /\ wf'.expecting = wf.expecting /\ wf'.executed = wf.executed
           \/ /\ Ask(w) /\ pc'[w] = "asked" /\ UNCHANGED <<root, rt>>
              /\ wf'.initiated = wf.initiated /\ wf'.progress = wf.progress
              /\ wf'.executed = wf.executed
           \/ /\ SaveWf(w) /\ wf'.progress /\ wf'.executed = lwf[w].executed
              /\ lwf[w].expecting = None => wf'.expecting = wf.expecting
           \/ /\ pc[w] = "terminate" /\ pc'[w] = "terminated" /\ UNCHANGED root
              /\ wf'.expecting = wf.expecting /\ wf'.executed = wf.executed
           \/ /\ pc[w] = "finish" /\ UNCHANGED rt
              /\ wf'.expecting = wf.expecting /\ wf'.executed = wf.executed
<1>1. /\ wf \in Row \cup {None} /\ lwf \in [Workers -> Row \cup {None}] /\ pc \in [Workers -> Pcs]
      /\ pc[w] = "save" => lwf[w] # None /\ lwf[w].progress
  BY DEF TypeInv, TypeOK, Loaded
<1>2. \/ UNCHANGED wf
      \/ Lock(w) \/ SaveWf(w) \/ Unlock(w) \/ Ask(w) \/ ReleaseAsked(w)
      \/ Terminate(w) \/ Finish(w)
  BY DEF rows, Handler, Receive, IsLocked, Lock, LoadWf, LoadRt, ClockWaits,
         ClockTerminates, ClockRuns, ClockSkips, SaveWf, SaveRt, Unlock, Charge,
         EnqueueNext, Ack, Ask, ReleaseAsked, Terminate, Finish, Link, AckEnded,
         EnqueueEnded, Crash, Throws, Requeue, Return, DoneReturn, Done, GoTo
<1>3. CASE Lock(w) \/ Unlock(w) \/ ReleaseAsked(w)
  BY <1>1, <1>3 DEF Lock, Unlock, ReleaseAsked, Throws, rows, Row
<1>4. CASE SaveWf(w)
  <2>1. pc[w] = "save"
    BY <1>4 DEF SaveWf
  <2>2. lwf[w] \in Row /\ (wf \in Row \/ wf = None)
    BY <1>1, <2>1
  <2>3. \/ UNCHANGED wf
        \/ wf = None
        \/ /\ wf'.progress = lwf[w].progress /\ wf'.executed = lwf[w].executed
           /\ wf'.expecting = IF lwf[w].expecting = None THEN wf.expecting
                              ELSE lwf[w].expecting
    BY <2>2, <1>4 DEF SaveWf, Row
  <2>4. wf # None
    BY <1>4 DEF SaveWf, Throws, rows
  <2>5. QED
    BY <1>1, <1>4, <2>1, <2>3, <2>4
<1>5. CASE Ask(w) \/ Terminate(w) \/ Finish(w)
  BY <1>1, <1>5 DEF Ask, Terminate, Finish, Throws, rows, queues, Row, GoTo
<1>6. QED
  BY <1>2, <1>3, <1>4, <1>5

\* What it does to the runtime.
LEMMA RuntimeStep ==
    ASSUME TypeInv, NEW w \in Workers, Handler(w) \/ Crash(w), rt' # None
    PROVE  \/ rt' = rt
           \/ SaveRt(w) /\ rt' = lrt[w] /\ UNCHANGED <<wf, root>>
BY DEF rows, queues, Handler, Receive, IsLocked, Lock, LoadWf, LoadRt, ClockWaits,
       ClockTerminates, ClockRuns, ClockSkips, SaveWf, SaveRt, Unlock, Charge, EnqueueNext,
       Ack, Ask, ReleaseAsked, Terminate, Finish, Link, AckEnded, EnqueueEnded, Crash,
       Throws, Requeue, Return, DoneReturn, Done, GoTo

\* The handlers that have the message in hand.
LEMMA BearsHere ==
    ASSUME NEW w \in Workers,
           pc[w] \in {"isLocked", "lock", "loadWf", "loadRt", "clock", "save", "unlock", "charge",
                      "ask", "terminate", "finish", "link", "linked", "stuck"}
    PROVE  Bears(w)
BY DEF Bears, Has

LEMMA FlaggedStep ==
    ASSUME TypeInv, OneMessage, Flagged, Unasked, Turned, [Next]_vars, OneRound', OneMessage'
    PROVE  Flagged'
<1> SUFFICES ASSUME wf' # None, rt' # None,
                    \/ root' > 0
                    \/ \E w \in Workers : Bears(w)'
                    \/ \E c \in Clients : "enqueue" \in cpc'[c]
                    \/ wf'.expecting # None
             PROVE  wf'.initiated \/ wf'.progress \/ IsFinished(Boot(rt'))
  BY DEF Flagged, IsFinished, Boot
<1>1. /\ root \in Nat /\ wf \in Row /\ wf # None /\ rt # None
      /\ cpc \in [Clients -> SUBSET {"initiate", "answer", "enqueue"}]
  BY RowsGone DEF TypeInv, TypeOK
<1>2. CASE \E w \in Workers : Handler(w) \/ Crash(w)
  <2>1. PICK w \in Workers : Handler(w) \/ Crash(w)
    BY <1>2
  <2>2. \A v \in Workers \ {w} : Bears(v)' <=> Bears(v)
    BY <2>1, OthersStill DEF Still, Bears
  <2>3. UNCHANGED cpc
    BY <2>1, WorkersKeep DEF client
  <2>4. CASE /\ wf'.initiated = wf.initiated /\ wf'.progress = wf.progress
             /\ wf'.expecting = wf.expecting
    <3>1. wf.initiated \/ wf.progress \/ IsFinished(Boot(rt))
      BY <1>1, <2>1, <2>2, <2>3, <2>4, BearerStep DEF Flagged
    <3>2. rt' = rt \/ ~IsFinished(Boot(rt))
      BY <1>1, <2>1, RuntimeStep DEF SaveRt, Turned
    <3>3. QED
      BY <2>4, <3>1, <3>2
  <2>5. CASE Ask(w) /\ wf'.initiated = wf.initiated /\ wf'.progress = wf.progress /\ UNCHANGED rt
    <3>1. Bears(w)
      BY <2>5, BearsHere DEF Ask
    <3>2. QED
      BY <1>1, <2>5, <3>1 DEF Flagged
  <2>6. CASE SaveWf(w) /\ wf'.progress
    BY <2>6
  <2>7. CASE /\ pc[w] = "terminate" /\ pc'[w] = "terminated" /\ UNCHANGED root
             /\ wf'.expecting = wf.expecting
    <3>1. Bears(w) /\ ~Bears(w)'
      BY <2>7 DEF Bears, Has
    <3>2. root = 0 /\ \A c \in Clients : "enqueue" \notin cpc[c]
      BY <1>1, <3>1 DEF OneMessage, Due
    <3>3. wf.expecting = None
      BY <1>1, <3>1 DEF Unasked
    <3>4. \A v \in Workers : ~Bears(v)'
      BY <2>2, <3>1 DEF OneMessage
    <3>5. QED
      BY <2>3, <2>7, <3>2, <3>3, <3>4
  <2>8. CASE pc[w] = "finish" /\ UNCHANGED rt
    BY <1>1, <2>8 DEF Turned
  <2>9. QED
    BY <2>1, <2>4, <2>5, <2>6, <2>7, <2>8, RowStep
<1>3. CASE UNCHANGED vars \/ Cleanup \/ LockExpires \/ Elsewhere
  <2>1. wf'.initiated = wf.initiated /\ wf'.progress = wf.progress /\ wf'.expecting = wf.expecting
    BY <1>1, <1>3, TimeStep DEF Row
  <2>2. QED
    BY <1>1, <1>3, <2>1, TimeStep DEF Flagged, Bears, worker
<1>4. CASE \E c \in Clients : CheckInitiate(c) \/ CheckAnswer(c) \/ Request(c)
  <2>1. PICK c \in Clients : CheckInitiate(c) \/ CheckAnswer(c) \/ Request(c)
    BY <1>4
  <2>2. \A w \in Workers : Bears(w)' <=> Bears(w)
    BY <2>1, RequestStep DEF Bears, worker
  <2>3. UNCHANGED rt
    BY <2>1, RequestStep
  <2>4. CASE CheckInitiate(c) \/ CheckAnswer(c)
    <3>1. UNCHANGED <<wf, root>>
      BY <2>4 DEF CheckInitiate, CheckAnswer, rows, queues
    <3>2. \A d \in Clients : "enqueue" \in cpc'[d] => "enqueue" \in cpc[d] \/ wf.expecting # None
      BY <1>1, <2>4 DEF CheckInitiate, CheckAnswer
    <3>3. QED
      BY <1>1, <2>2, <2>3, <3>1, <3>2 DEF Flagged
  <2>5. CASE Initiate(c)
    BY <1>1, <2>5 DEF Initiate, Row
  <2>6. CASE SaveAnswer(c)
    <3>1. /\ wf'.initiated = wf.initiated /\ wf'.progress = wf.progress /\ wf'.expecting = None
          /\ UNCHANGED root
      BY <1>1, <2>6 DEF SaveAnswer, Row, queues
    <3>2. \A d \in Clients : "enqueue" \in cpc'[d] => "enqueue" \in cpc[d]
      BY <1>1, <2>6 DEF SaveAnswer
    <3>3. QED
      BY <1>1, <2>2, <2>3, <3>1, <3>2 DEF Flagged
  <2>7. CASE EnqueueRequest(c)
    <3>1. "enqueue" \in cpc[c] /\ UNCHANGED wf
      BY <2>7 DEF EnqueueRequest, rows
    <3>2. QED
      BY <1>1, <2>3, <3>1 DEF Flagged
  <2>8. QED
    BY <2>1, <2>4, <2>5, <2>6, <2>7 DEF Request
<1>5. QED
  BY <1>2, <1>3, <1>4 DEF Next

\* What a worker has loaded comes from the rows, or was there.
LEMMA LoadedFrom ==
    ASSUME TypeInv, NEW w \in Workers, Handler(w) \/ Crash(w),
           pc'[w] \in {"loadRt", "clock", "save"}, lwf'[w] # None
    PROVE  \/ pc[w] = "loadWf" /\ lwf'[w] = wf
           \/ /\ pc[w] \in {"loadRt", "clock", "save"} /\ lwf[w] # None
              /\ lwf'[w].expecting = lwf[w].expecting
<1>1. lwf \in [Workers -> Row \cup {None}] /\ pc \in [Workers -> Pcs]
  BY DEF TypeInv, TypeOK
<1>2. pc[w] \in {"clock", "save"} => lwf[w] # None
  BY DEF TypeInv, Loaded
<1>3. \/ LoadWf(w) \/ LoadRt(w) \/ ClockRuns(w) \/ ClockSkips(w)
      \/ pc[w] = "save" /\ UNCHANGED lwf
  BY <1>1 DEF worker, Handler, Receive, IsLocked, Lock, LoadWf, LoadRt, ClockWaits,
              ClockTerminates, ClockRuns, ClockSkips, SaveWf, SaveRt, Unlock, Charge,
              EnqueueNext, Ack, Ask, ReleaseAsked, Terminate, Finish, Link, AckEnded,
              EnqueueEnded, Crash, Throws, Requeue, Return, DoneReturn, Done, GoTo
<1>4. CASE LoadWf(w)
  BY <1>1, <1>4 DEF LoadWf
<1>5. CASE LoadRt(w)
  <2>1. /\ pc[w] = "loadRt" /\ lwf[w] # None /\ lwf'[w] = [lwf[w] EXCEPT !.progress = TRUE]
    BY <1>1, <1>5 DEF LoadRt, Throws, Requeue, Return, GoTo
  <2>2. QED
    BY <1>1, <2>1 DEF Row
<1>6. CASE ClockRuns(w)
  BY <1>1, <1>2, <1>6 DEF ClockRuns, Row
<1>7. CASE ClockSkips(w)
  BY <1>1, <1>2, <1>7 DEF ClockSkips, Row
<1>8. QED
  BY <1>2, <1>3, <1>4, <1>5, <1>6, <1>7

LEMMA UnaskedStep ==
    ASSUME OneAtATime, TypeInv, OneMessage, Flagged, Unasked, [Next]_vars, OneRound'
    PROVE  Unasked'
<1> DEFINE Row1 == wf # None /\ wf.expecting # None =>
                     /\ root = 0
                     /\ \A w \in Workers : ~Bears(w)
                     /\ \A c \in Clients : Due(c) => "answer" \in cpc[c]
           Mem(w) == pc[w] \in {"loadRt", "clock", "save"} /\ lwf[w] # None
                     => lwf[w].expecting = None
<1>1. /\ root \in Nat /\ wf \in Row \cup {None} /\ (wf' # None => wf # None)
      /\ cpc \in [Clients -> SUBSET {"initiate", "answer", "enqueue"}]
  BY RowsGone DEF TypeInv, TypeOK
<1>2. ASSUME NEW w \in Workers, Handler(w) \/ Crash(w)
      PROVE  Row1' /\ Mem(w)'
  <2>1. \A v \in Workers \ {w} : Bears(v)' <=> Bears(v)
    BY <1>2, OthersStill DEF Still, Bears
  <2>2. UNCHANGED cpc
    BY <1>2, WorkersKeep DEF client
  <2>3. Mem(w)'
    <3>1. CASE pc[w] = "loadWf" /\ lwf'[w] = wf
      BY <3>1, BearsHere DEF Unasked
    <3>2. QED
      BY <1>2, <3>1, LoadedFrom DEF Unasked
  <2>4. ASSUME wf' # None, wf'.expecting # None
        PROVE  /\ root' = 0
               /\ \A v \in Workers : ~Bears(v)'
               /\ \A c \in Clients : Due(c)' => "answer" \in cpc'[c]
    <3>1. CASE wf'.expecting = wf.expecting
      <4>1. /\ root = 0
            /\ \A v \in Workers : ~Bears(v)
            /\ \A c \in Clients : Due(c) => "answer" \in cpc[c]
        BY <1>1, <2>4, <3>1 DEF Unasked
      <4>2. QED
        BY <1>2, <2>1, <2>2, <2>4, <4>1, BearerStep DEF Due
    <3>2. CASE Ask(w) /\ pc'[w] = "asked" /\ UNCHANGED root
      <4>1. Bears(w)
        BY <3>2, BearsHere DEF Ask
      <4>2. root = 0 /\ (\A c \in Clients : ~Due(c)) /\ \A v \in Workers \ {w} : ~Bears(v)
        BY <1>1, <2>4, <4>1 DEF OneMessage
      <4>3. ~Bears(w)'
        BY <3>2 DEF Bears, Has
      <4>4. QED
        BY <2>1, <2>2, <3>2, <4>2, <4>3 DEF Due
    <3>3. CASE SaveWf(w) /\ (lwf[w].expecting = None => wf'.expecting = wf.expecting)
      <4>1. pc[w] = "save" /\ lwf[w] # None
        BY <3>3 DEF SaveWf, TypeInv, Loaded
      <4>2. lwf[w].expecting = None
        BY <4>1 DEF Unasked
      <4>3. QED
        BY <3>1, <3>3, <4>2
    <3>4. QED
      BY <1>2, <2>4, <3>1, <3>2, <3>3, RowStep
  <2>5. QED
    BY <2>3, <2>4
<1>3. \A w \in Workers : Mem(w)
  BY DEF Unasked
<1>4. UNCHANGED worker => \A w \in Workers : Mem(w)'
  BY <1>3 DEF worker
<1>5. CASE \E w \in Workers : Handler(w) \/ Crash(w)
  <2>1. PICK w \in Workers : Handler(w) \/ Crash(w)
    BY <1>5
  <2>2. \A v \in Workers \ {w} : Mem(v)'
    BY <1>3, <2>1, OthersStill DEF Still
  <2>3. Row1' /\ Mem(w)'
    BY <1>2, <2>1
  <2> HIDE DEF Mem, Row1
  <2>4. Row1' /\ \A v \in Workers : Mem(v)'
    BY <2>2, <2>3
  <2> USE DEF Mem, Row1
  <2>5. QED
    BY <2>4 DEF Unasked
<1>6. CASE UNCHANGED vars \/ Cleanup \/ LockExpires \/ Elsewhere
  <2>1. wf' # None => wf'.expecting = wf.expecting
    BY <1>1, <1>6, TimeStep DEF Row
  <2>2. Row1'
    BY <1>1, <1>6, <2>1, TimeStep DEF Unasked, Bears, Due, worker
  <2>3. QED
    BY <1>4, <1>6, <2>2, TimeStep DEF Unasked
<1>7. CASE \E c \in Clients : CheckInitiate(c) \/ CheckAnswer(c) \/ Request(c)
  <2>1. PICK c \in Clients : CheckInitiate(c) \/ CheckAnswer(c) \/ Request(c)
    BY <1>7
  <2>2. \A d \in Clients : d = c
    BY DEF OneAtATime
  <2>3. UNCHANGED worker /\ \A w \in Workers : Bears(w)' <=> Bears(w)
    BY <2>1, RequestStep DEF Bears, worker
  <2>4. Row1'
    <3> SUFFICES ASSUME wf' # None, wf'.expecting # None
                 PROVE  /\ root' = 0
                        /\ \A w \in Workers : ~Bears(w)'
                        /\ Due(c)' => "answer" \in cpc'[c]
      BY <2>2
    <3>1. CASE CheckInitiate(c)
      <4>1. wf.expecting = None /\ UNCHANGED wf
        BY <1>1, <3>1 DEF CheckInitiate, Flagged, rows
      <4>2. QED
        BY <4>1
    <3>2. CASE CheckAnswer(c)
      <4>1. /\ "answer" \in cpc'[c] /\ UNCHANGED <<wf, root>>
        BY <1>1, <3>2 DEF CheckAnswer, rows, queues
      <4>2. QED
        BY <1>1, <2>3, <4>1 DEF Unasked
    <3>3. CASE Initiate(c)
      <4>1. wf'.expecting = wf.expecting /\ Due(c) /\ "answer" \notin cpc[c]
        BY <1>1, <3>3 DEF Initiate, Row, Due
      <4>2. QED
        BY <1>1, <4>1 DEF Unasked
    <3>4. CASE SaveAnswer(c)
      BY <1>1, <3>4 DEF SaveAnswer, Row
    <3>5. CASE EnqueueRequest(c)
      <4>1. Due(c) /\ "answer" \notin cpc[c] /\ UNCHANGED wf
        BY <1>1, <2>1, <3>5, RequestStep DEF EnqueueRequest, Due, rows
      <4>2. QED
        BY <1>1, <4>1 DEF Unasked
    <3>6. QED
      BY <2>1, <3>1, <3>2, <3>3, <3>4, <3>5 DEF Request
  <2>5. QED
    BY <1>4, <2>3, <2>4 DEF Unasked
<1>8. QED
  BY <1>5, <1>6, <1>7 DEF Next

LEMMA TurnedStep ==
    ASSUME TypeInv, OneMessage, Turned, [Next]_vars
    PROVE  Turned'
<1> DEFINE Here(w) ==
             rt # None =>
               /\ pc[w] \in {"clock", "ask", "terminate", "finish"} => lrt[w] = Boot(rt)
               /\ pc[w] = "finish" => IsFinished(Boot(rt))
               /\ pc[w] = "save" /\ "rt" \in todo[w] =>
                     /\ ~IsFinished(Boot(rt)) /\ at[w] = Head(Boot(rt).queue)
                     /\ lrt[w].visited = rt.visited \cup {at[w]}
               /\ pc[w] = "save" /\ "rt" \notin todo[w] => rt = lrt[w]
<1>1. /\ rt \in RuntimeRow \cup {None} /\ (rt' # None => rt # None) /\ \A w \in Workers : Here(w)
      /\ pc \in [Workers -> Pcs] /\ lrt \in [Workers -> RuntimeRow \cup {None}]
      /\ todo \in [Workers -> SUBSET {"wf", "rt", "enqueue", "ack", "release"}]
      /\ DOMAIN at = Workers
  BY RowsGone DEF TypeInv, TypeOK, Turned
<1>2. ASSUME UNCHANGED worker, rt' = None \/ rt' = rt
      PROVE  \A w \in Workers : Here(w)'
  BY <1>1, <1>2 DEF worker, Boot, IsFinished
<1>3. ASSUME NEW w \in Workers, Handler(w) \/ Crash(w), rt' # None
      PROVE  \A v \in Workers \ {w} : Here(v)'
  <2> TAKE v \in Workers \ {w}
  <2>1. Still(v)
    BY <1>3, OthersStill
  <2>2. CASE rt' = rt
    BY <1>1, <2>1, <2>2 DEF Still, Boot, IsFinished
  <2>3. CASE SaveRt(w)
    <3>1. Bears(w)
      BY <2>3, BearsHere DEF SaveRt
    <3>2. ~Bears(v)
      BY <3>1 DEF OneMessage
    <3>3. pc[v] \notin {"clock", "ask", "terminate", "finish", "save"}
      BY <3>2, BearsHere
    <3>4. QED
      BY <2>1, <3>3 DEF Still
  <2>4. QED
    BY <1>3, <2>2, <2>3, RuntimeStep
<1>4. ASSUME NEW w \in Workers, Handler(w) \/ Crash(w), rt' # None
      PROVE  Here(w)'
  <2>1. CASE LoadRt(w)
    <3>1. CASE Throws(w)
      BY <1>1, <3>1 DEF Throws, Requeue, Return, GoTo
    <3>2. CASE ~Throws(w)
      <4>1. /\ lrt'[w] = Boot(rt) /\ rt' = rt
            /\ pc'[w] \in {"finish", "stuck", "clock"}
            /\ pc'[w] = "finish" => IsFinished(Boot(rt))
        BY <1>1, <2>1, <3>2 DEF LoadRt, GoTo, rows
      <4>2. QED
        BY <4>1
    <3>3. QED
      BY <3>1, <3>2
  <2>2. CASE ClockRuns(w) \/ ClockSkips(w)
    <3>1. PICK q \in Seq(Nodes) :
             /\ lrt' = [lrt EXCEPT ![w] = After(w, q)]
             /\ After(w, q) \in RuntimeRow
      BY <2>2, ClockFacts
    <3>2. /\ pc[w] = "clock" /\ pc'[w] = "save" /\ todo'[w] = {"wf", "rt"} /\ at'[w] = Turn(w)
          /\ rt' = rt
      BY <1>1, <2>2 DEF ClockRuns, ClockSkips, GoTo, rows
    <3>3. lrt[w] = Boot(rt) /\ ~IsFinished(Boot(rt)) /\ rt # None
      BY <1>1, <1>4, <3>2 DEF TypeInv, Loaded
    <3>4. at'[w] = Head(Boot(rt).queue)
      BY <3>2, <3>3 DEF Turn
    <3>5. lrt'[w].visited = Boot(rt).visited \cup {at'[w]}
      BY <1>1, <3>1, <3>2, <3>3 DEF After, Visited
    <3>6. Boot(rt).visited = rt.visited
      BY <1>1, <3>3 DEF Boot, RuntimeRow
    <3>7. QED
      BY <3>2, <3>3, <3>4, <3>5, <3>6
  <2>3. CASE SaveRt(w)
    <3>1. /\ pc[w] = "save" /\ rt' = lrt[w] /\ UNCHANGED <<lrt, at>>
          /\ "rt" \notin todo'[w] /\ pc'[w] \in {"save", "unlock"}
      BY <1>1, <1>4, <2>3 DEF SaveRt, Done, GoTo
    <3>2. QED
      BY <3>1
  <2>4. CASE ~LoadRt(w) /\ ~ClockRuns(w) /\ ~ClockSkips(w) /\ ~SaveRt(w)
    <3>1. rt' = rt
      BY <1>4, <2>4, RuntimeStep
    <3>2. \/ pc'[w] \notin {"clock", "ask", "terminate", "finish", "save"}
          \/ pc'[w] \in {"ask", "terminate"} /\ pc[w] = "clock" /\ UNCHANGED lrt
          \/ pc'[w] = "save" /\ SaveWf(w)
      BY <1>1, <1>4, <2>4 DEF worker, Handler, Receive, IsLocked, Lock, LoadWf, LoadRt,
                              ClockWaits, ClockTerminates, ClockRuns, ClockSkips, SaveWf,
                              SaveRt, Unlock, Charge, EnqueueNext, Ack, Ask, ReleaseAsked,
                              Terminate, Finish, Link, AckEnded, EnqueueEnded, Crash,
                              Throws, Requeue, Return, DoneReturn, Done, GoTo
    <3>3. pc'[w] = "save" /\ SaveWf(w)
          => pc[w] = "save" /\ UNCHANGED <<lrt, at>> /\ ("rt" \in todo'[w] <=> "rt" \in todo[w])
      BY <1>1 DEF SaveWf, Done, GoTo, Throws, Requeue, Return
    <3>4. QED
      BY <1>1, <3>1, <3>2, <3>3 DEF Boot, IsFinished
  <2>5. QED
    BY <2>1, <2>2, <2>3, <2>4
<1>5. CASE rt' = None
  BY <1>5 DEF Turned
<1>6. CASE rt' # None /\ \E w \in Workers : Handler(w) \/ Crash(w)
  <2> HIDE DEF Here
  <2>1. \A w \in Workers : Here(w)'
    BY <1>3, <1>4, <1>6
  <2> USE DEF Here
  <2>2. QED
    BY <2>1 DEF Turned
<1>7. CASE ~\E w \in Workers : Handler(w) \/ Crash(w)
  <2>1. UNCHANGED worker /\ (rt' = None \/ rt' = rt)
    <3>1. CASE UNCHANGED vars \/ Cleanup \/ LockExpires \/ Elsewhere
      BY <3>1, TimeStep
    <3>2. CASE \E c \in Clients : CheckInitiate(c) \/ CheckAnswer(c) \/ Request(c)
      BY <3>2 DEF CheckInitiate, CheckAnswer, Request, Initiate, SaveAnswer, EnqueueRequest, rows
    <3>3. QED
      BY <1>7, <3>1, <3>2 DEF Next
  <2>2. QED
    BY <1>2, <2>1 DEF Turned
<1>8. QED
  BY <1>5, <1>6, <1>7

LEMMA RoundStep == ASSUME OneAtATime, TypeInv, RoundInv, [Next]_vars PROVE RoundInv'
<1> SUFFICES ASSUME OneRound' PROVE OneMessage' /\ Flagged' /\ Unasked' /\ Turned'
  BY DEF RoundInv
<1>1. OneMessage /\ Flagged /\ Unasked /\ Turned
  BY RoundsKeep DEF RoundInv, OneRound
<1>2. OneMessage' /\ Unasked' /\ Turned'
  BY <1>1, OneMessageStep, UnaskedStep, TurnedStep
<1>3. QED
  BY <1>1, <1>2, FlaggedStep

LEMMA InitRound == Init => RoundInv
<1> SUFFICES ASSUME Init PROVE RoundInv
  OBVIOUS
<1>1. wf # None /\ wf.expecting = None /\ root = 0
      /\ \A w \in Workers : pc[w] = "idle" /\ \A c \in Clients : cpc[c] = {}
  <2>1. wf \in Row
    BY WorkerAssumption DEF Init, Row
  <2>2. QED
    BY <2>1, NoneAssumption DEF Init
<1>2. QED
  BY <1>1 DEF RoundInv, OneMessage, Flagged, Unasked, Turned, Bears, Has, Due, Init

\* One owner who does one thing at a time never has two workers on one workflow, whatever
\* the workflow and the number of workers, starts, answers and crashes.
THEOREM OneWorker == ASSUME OneAtATime PROVE Spec => []Exclusive
<1>1. TypeInv /\ RoundInv => Exclusive
  BY DEF RoundInv, OneMessage, Exclusive, Working, Bears, Has
<1>2. QED
  BY InitTypes, TypesStep, InitRound, RoundStep, <1>1, PTL DEF Spec
-------------------------------------------------------------------------------
\* No node is queued twice, nor after it was visited.
Ordered(r) == Distinct(r.queue) /\ Elems(r.queue) \cap r.visited = {}

\* The runtimes, stored and loaded, are in order; a node that was clocked is marked in
\* both records.
OrderInv ==
    /\ rt # None => Ordered(rt)
    /\ \A w \in Workers :
          /\ pc[w] \in {"clock", "save"} => Ordered(lrt[w])
          /\ pc[w] = "save" => at[w] \in lwf[w].executed /\ at[w] \in lrt[w].visited

LEMMA BootOrdered == ASSUME NEW r \in RuntimeRow, Ordered(r) PROVE Ordered(Boot(r))
<1>1. Distinct(<<Entry>>)
  BY DEF Distinct
<1>2. CASE Boot(r) = r
  BY <1>2
<1>3. CASE Boot(r) # r
  <2>1. Boot(r).queue = <<Entry>> /\ Boot(r).visited = {}
    BY <1>3 DEF Boot, RuntimeRow
  <2>2. QED
    BY <1>1, <2>1 DEF Ordered
<1>4. QED
  BY <1>2, <1>3

\* What the clock takes from the head of the queue, and what it schedules.
LEMMA AfterFacts ==
    ASSUME TypeInv, NEW w \in Workers, ClockRuns(w) \/ ClockSkips(w), Ordered(lrt[w])
    PROVE  /\ Turn(w) \in Nodes /\ Turn(w) \notin lrt[w].visited
           /\ lrt'[w] \in RuntimeRow /\ Ordered(lrt'[w])
           /\ Elems(lrt[w].queue) = {Turn(w)} \cup Elems(Rest(w))
           /\ lrt'[w].visited = lrt[w].visited \cup {Turn(w)}
           /\ lrt'[w].finished => lrt'[w].queue = <<>>
           /\ ClockRuns(w) => Elems(lrt'[w].queue) =
                 Elems(Rest(w)) \cup (Children(Turn(w)) \ lrt'[w].visited)
<1>1. /\ pc[w] = "clock" /\ lrt[w] \in RuntimeRow /\ lrt[w].queue # <<>> /\ Turn(w) \in Nodes
      /\ Rest(w) \in Seq(Nodes) /\ lrt[w].queue \in Seq(Nodes)
  BY TurnFacts DEF ClockRuns, ClockSkips, RuntimeRow
<1>2. /\ Elems(lrt[w].queue) = {Turn(w)} \cup Elems(Rest(w))
      /\ Distinct(Rest(w)) /\ Turn(w) \notin Elems(Rest(w))
  BY <1>1, TailFacts DEF Turn, Rest, Ordered
<1>3. PICK q \in Seq(Nodes) :
         /\ lrt' = [lrt EXCEPT ![w] = After(w, q)]
         /\ After(w, q) \in RuntimeRow
         /\ ClockRuns(w) => q \in Scheduled(Rest(w), Visited(w), Outgoing[Turn(w)])
         /\ ClockSkips(w) => q = Rest(w)
  BY ClockFacts
<1>4. lrt'[w] = After(w, q)
  BY <1>3 DEF TypeInv, TypeOK
<1>5. /\ lrt'[w] \in RuntimeRow /\ lrt'[w].queue = q
      /\ lrt'[w].visited = lrt[w].visited \cup {Turn(w)}
      /\ lrt'[w].finished => q = <<>>
  <2>1. After(w, q).finished <=> q = <<>>
    BY Zenon DEF After
  <2>2. After(w, q).queue = q /\ After(w, q).visited = lrt[w].visited \cup {Turn(w)}
    BY DEF After, Visited
  <2>3. QED
    BY <1>3, <1>4, <2>1, <2>2
<1>6. CASE ClockRuns(w)
  <2>1. Outgoing[Turn(w)] \in Seq(Nodes) /\ IsFiniteSet(Nodes)
    BY <1>1, WorkerAssumption
  <2>2. /\ Elems(q) = Elems(Rest(w)) \cup NewChildren(Rest(w), Visited(w), Outgoing[Turn(w)])
        /\ Distinct(q)
    BY <1>1, <1>2, <1>3, <1>6, <2>1, ScheduledFacts
  <2>3. Elems(q) = Elems(Rest(w)) \cup (Children(Turn(w)) \ lrt'[w].visited)
    BY <1>5, <2>2 DEF NewChildren, Children, Visited
  <2>4. Ordered(lrt'[w])
    BY <1>2, <1>5, <2>2, <2>3 DEF Ordered
  <2>5. QED
    BY <1>1, <1>2, <1>5, <2>3, <2>4 DEF Ordered
<1>7. CASE ~ClockRuns(w)
  <2>1. q = Rest(w)
    BY <1>3, <1>7
  <2>2. QED
    BY <1>1, <1>2, <1>5, <1>7, <2>1 DEF Ordered
<1>8. QED
  BY <1>6, <1>7

\* A clock marks its node in the two records.
LEMMA ClockMarks ==
    ASSUME TypeInv, NEW w \in Workers, ClockRuns(w) \/ ClockSkips(w)
    PROVE  /\ pc[w] = "clock" /\ pc'[w] = "save" /\ todo'[w] = {"wf", "rt"} /\ at'[w] = Turn(w)
           /\ lwf'[w].executed = lwf[w].executed \cup {Turn(w)}
           /\ ClockSkips(w) => Turn(w) \in lwf[w].executed
           /\ UNCHANGED <<rows, root, credits, charged>>
<1>1. lwf \in [Workers -> Row \cup {None}] /\ pc \in [Workers -> Pcs] /\ DOMAIN at = Workers
      /\ todo \in [Workers -> SUBSET {"wf", "rt", "enqueue", "ack", "release"}]
  BY DEF TypeInv, TypeOK
<1>2. pc[w] = "clock" /\ lwf[w] \in Row
  BY TurnFacts DEF ClockRuns, ClockSkips
<1>3. lwf'[w].executed = lwf[w].executed \cup {Turn(w)}
  BY <1>1, <1>2 DEF ClockRuns, ClockSkips, Row
<1>4. QED
  BY <1>1, <1>2, <1>3 DEF ClockRuns, ClockSkips, GoTo, queues, history

\* The second load of a worker, when it is not the last step of its handler.
LEMMA LoadMarks ==
    ASSUME TypeInv, NEW w \in Workers, LoadRt(w), pc'[w] = "clock"
    PROVE  /\ pc[w] = "loadRt" /\ rt # None /\ lwf[w] # None /\ lrt'[w] = Boot(rt)
           /\ lwf'[w].executed = lwf[w].executed
           /\ UNCHANGED <<rows, root, credits, charged, ran>>
<1>1. /\ lwf \in [Workers -> Row \cup {None}] /\ lrt \in [Workers -> RuntimeRow \cup {None}]
      /\ pc \in [Workers -> Pcs]
  BY DEF TypeInv, TypeOK
<1>2. ~Throws(w)
  BY <1>1 DEF Throws, Requeue, Return, GoTo
<1>3. lwf[w] \in Row /\ rt # None /\ lwf[w] # None
  BY <1>1, <1>2 DEF LoadRt
<1>4. QED
  BY <1>1, <1>2, <1>3 DEF LoadRt, Row, queues, history

\* The other steps that end at the clock or at a save.
LEMMA SaveMarks ==
    ASSUME TypeInv, NEW w \in Workers, Handler(w) \/ Crash(w), pc'[w] \in {"clock", "save"},
           ~LoadRt(w), ~ClockRuns(w), ~ClockSkips(w)
    PROVE  /\ pc[w] = "save" /\ pc'[w] = "save"
           /\ UNCHANGED <<lwf[w], lrt[w], at[w], root, ran, charged, credits>>
           /\ \/ /\ SaveWf(w) /\ "wf" \in todo[w] /\ todo'[w] = todo[w] \ {"wf"}
                 /\ wf # None /\ UNCHANGED rt
              \/ /\ SaveRt(w) /\ "rt" \in todo[w] /\ todo'[w] = todo[w] \ {"rt"}
                 /\ UNCHANGED wf
<1>1. pc \in [Workers -> Pcs]
      /\ todo \in [Workers -> SUBSET {"wf", "rt", "enqueue", "ack", "release"}]
  BY DEF TypeInv, TypeOK
<1>2. SaveWf(w) \/ SaveRt(w)
  BY <1>1 DEF worker, Handler, Receive, IsLocked, Lock, LoadWf, LoadRt, ClockWaits,
              ClockTerminates, ClockRuns, ClockSkips, SaveWf, SaveRt, Unlock, Charge,
              EnqueueNext, Ack, Ask, ReleaseAsked, Terminate, Finish, Link, AckEnded,
              EnqueueEnded, Crash, Throws, Requeue, Return, DoneReturn, Done, GoTo
<1>3. CASE SaveWf(w)
  BY <1>1, <1>3 DEF SaveWf, Done, GoTo, Throws, Requeue, Return, queues, history
<1>4. CASE SaveRt(w)
  BY <1>1, <1>4 DEF SaveRt, Done, GoTo, queues, history
<1>5. QED
  BY <1>2, <1>3, <1>4

LEMMA OrderStep == ASSUME TypeInv, OrderInv, [Next]_vars PROVE OrderInv'
<1> DEFINE Here(w) ==
             /\ pc[w] \in {"clock", "save"} => Ordered(lrt[w])
             /\ pc[w] = "save" => at[w] \in lwf[w].executed /\ at[w] \in lrt[w].visited
<1>1. /\ (rt' # None => rt # None) /\ \A w \in Workers : Here(w)
      /\ rt \in RuntimeRow \cup {None}
  BY RowsGone DEF OrderInv, TypeInv, TypeOK
<1>2. ASSUME NEW w \in Workers, Handler(w) \/ Crash(w)
      PROVE  Here(w)'
  <2>1. CASE LoadRt(w) /\ pc'[w] \in {"clock", "save"}
    <3>1. pc'[w] = "clock"
      BY <2>1 DEF LoadRt, Throws, Requeue, Return, GoTo, TypeInv, TypeOK
    <3>2. lrt'[w] = Boot(rt) /\ rt # None
      BY <2>1, <3>1, LoadMarks
    <3>3. Ordered(Boot(rt))
      BY <1>1, <3>2, BootOrdered DEF OrderInv
    <3>4. QED
      BY <3>1, <3>2, <3>3 DEF Ordered
  <2>2. CASE ClockRuns(w) \/ ClockSkips(w)
    <3>1. Ordered(lrt[w])
      BY <1>1, <2>2, ClockMarks
    <3>2. Ordered(lrt'[w]) /\ lrt'[w].visited = lrt[w].visited \cup {Turn(w)}
      BY <2>2, <3>1, AfterFacts
    <3>3. QED
      BY <2>2, <3>2, ClockMarks DEF Ordered
  <2>3. CASE pc'[w] \in {"clock", "save"} /\ ~LoadRt(w) /\ ~ClockRuns(w) /\ ~ClockSkips(w)
    BY <1>1, <1>2, <2>3, SaveMarks DEF Ordered
  <2>4. QED
    BY <2>1, <2>2, <2>3
<1>3. ASSUME rt' # None PROVE Ordered(rt')
  <2>1. rt' = rt \/ \E w \in Workers : SaveRt(w) /\ rt' = lrt[w]
    <3>1. CASE \E w \in Workers : Handler(w) \/ Crash(w)
      BY <1>3, <3>1, RuntimeStep
    <3>2. CASE UNCHANGED vars \/ Cleanup \/ LockExpires \/ Elsewhere
      BY <1>3, <3>2, TimeStep
    <3>3. CASE \E c \in Clients : CheckInitiate(c) \/ CheckAnswer(c) \/ Request(c)
      BY <3>3 DEF CheckInitiate, CheckAnswer, Request, Initiate, SaveAnswer, EnqueueRequest, rows
    <3>4. QED
      BY <3>1, <3>2, <3>3 DEF Next
  <2>2. QED
    BY <1>1, <1>3, <2>1 DEF OrderInv, SaveRt
<1>4. \A v \in Workers : Still(v) => Here(v)'
  BY <1>1 DEF Still, Ordered
<1> HIDE DEF Here
<1>5. UNCHANGED worker => \A v \in Workers : Still(v)
  BY DEF worker, Still
<1>6. \A v \in Workers : Here(v)'
  BY <1>2, <1>4, <1>5, WhoMoves
<1> USE DEF Here
<1>7. QED
  BY <1>3, <1>6 DEF OrderInv, Ordered
-------------------------------------------------------------------------------
Ran == {n \in Nodes : ran[n] > 0}

\* A runtime of which nothing is missing: what was queued has a parent that was visited,
\* the children of what was visited are known, and what ran is in it.
Good(r, done) ==
    /\ Entry \in r.visited \cup Elems(r.queue)
    /\ r.finished => r.queue = <<>>
    /\ \A n \in Elems(r.queue) : n = Entry \/ Parents(n) \cap r.visited # {}
    /\ \A p \in r.visited : Children(p) \subseteq r.visited \cup Elems(r.queue)
    /\ r.visited \subseteq done
    /\ done \subseteq r.visited \cup Elems(r.queue)

\* A worker has written one of the two rows.
Half(w) == pc[w] = "save" /\ todo[w] # {"wf", "rt"}

\* A worker that works has the two rows at the same node, and nothing missing.
Level(w) ==
    /\ pc[w] = "loadRt" /\ lwf[w] # None /\ rt # None => lwf[w].executed = rt.visited
    /\ pc[w] \in {"clock", "save"} => lwf[w].executed = lrt[w].visited /\ Good(lrt[w], Ran)
    /\ pc[w] = "save" /\ "wf" \notin todo[w] /\ wf # None => wf.executed = lwf[w].executed

\* The two rows agree on what was visited, in the stores and in the memory of the workers.
Agreed ==
    /\ blind = {}
    /\ rt # None => Good(Boot(rt), Ran)
    /\ wf # None /\ rt # None => wf.executed = rt.visited \/ \E w \in Workers : Half(w)
    /\ \A w \in Workers : Level(w)

\* The inductive invariant of NotBlind and FinishedMeansAll.
GoodInv == OneRound /\ "torn" \notin windows => Agreed

\* Nobody disturbs the worker that has the message.
LEMMA Undisturbed ==
    ASSUME TypeInv, OneMessage, NEW w \in Workers, Handler(w) \/ Crash(w),
           NEW v \in Workers \ {w}, pc[v] \in {"loadRt", "clock", "save", "unlock", "charge"}
    PROVE  /\ Still(v)
           /\ rt' = None \/ rt' = rt
           /\ wf' # None => wf # None /\ wf'.executed = wf.executed
           /\ UNCHANGED <<ran, charged, credits>>
<1>1. Still(v)
  BY OthersStill
<1>2. ~Bears(w)
  BY BearsHere DEF OneMessage
<1>3. pc[w] \notin {"clock", "save", "charge"}
  BY <1>2, BearsHere
<1>4. rt' = None \/ rt' = rt
  BY <1>3, RuntimeStep DEF SaveRt
<1>5. wf' # None => wf'.executed = wf.executed
  BY <1>3, RowStep DEF SaveWf
<1>6. UNCHANGED <<ran, charged, credits>>
  BY <1>3 DEF history, Handler, Receive, IsLocked, Lock, LoadWf, LoadRt, ClockWaits,
              ClockTerminates, ClockRuns, ClockSkips, SaveWf, SaveRt, Unlock, Charge,
              EnqueueNext, Ack, Ask, ReleaseAsked, Terminate, Finish, Link, AckEnded,
              EnqueueEnded, Crash, Throws, Requeue, Return, DoneReturn, Done, GoTo
<1>7. wf' # None => wf # None
  BY DEF rows, Handler, Receive, IsLocked, Lock, LoadWf, LoadRt, ClockWaits,
         ClockTerminates, ClockRuns, ClockSkips, SaveWf, SaveRt, Unlock, Charge,
         EnqueueNext, Ack, Ask, ReleaseAsked, Terminate, Finish, Link, AckEnded,
         EnqueueEnded, Crash, Throws, Requeue, Return, DoneReturn, Done, GoTo
<1>8. QED
  BY <1>1, <1>4, <1>5, <1>6, <1>7

\* What the other steps leave alone.
LEMMA AsideStep ==
    ASSUME TypeInv,
           \/ UNCHANGED vars \/ Cleanup \/ LockExpires \/ Elsewhere
           \/ \E c \in Clients : CheckInitiate(c) \/ CheckAnswer(c) \/ Request(c)
    PROVE  /\ UNCHANGED <<worker, ran, charged, blind>>
           /\ rt' = None \/ rt' = rt
           /\ wf' # None => wf # None /\ wf'.executed = wf.executed
<1>1. wf \in Row \cup {None} /\ csaw \in [Clients -> Row \cup {None}]
  BY DEF TypeInv, TypeOK
<1>2. CASE UNCHANGED vars \/ Cleanup \/ LockExpires \/ Elsewhere
  BY <1>1, <1>2, TimeStep DEF Row
<1>3. CASE \E c \in Clients : CheckInitiate(c) \/ CheckAnswer(c) \/ Request(c)
  <2>1. UNCHANGED <<worker, ran, charged, blind, rt>>
    BY <1>3 DEF CheckInitiate, CheckAnswer, Request, Initiate, SaveAnswer, EnqueueRequest, rows,
                history
  <2>2. wf' # None => wf # None /\ wf'.executed = wf.executed
    <3>1. UNCHANGED wf \/ \E c \in Clients : Initiate(c) \/ SaveAnswer(c)
      BY <1>3 DEF CheckInitiate, CheckAnswer, Request, EnqueueRequest, rows
    <3>2. ASSUME NEW c \in Clients, Initiate(c)
          PROVE  wf' # None => wf # None /\ wf'.executed = wf.executed
      BY <1>1, <3>2 DEF Initiate, Row
    <3>3. ASSUME NEW c \in Clients, SaveAnswer(c)
          PROVE  wf' # None => wf # None /\ wf'.executed = wf.executed
      BY <1>1, <3>3 DEF SaveAnswer, Row
    <3>4. QED
      BY <3>1, <3>2, <3>3
  <2>3. QED
    BY <2>1, <2>2
<1>4. QED
  BY <1>2, <1>3

LEMMA BootGood ==
    ASSUME NEW r \in RuntimeRow, NEW done, Good(r, done)
    PROVE  Boot(r) = r
<1>1. Elems(<<>>) = {}
  BY DEF Elems
<1>2. QED
  BY <1>1 DEF Boot, Good

\* A run keeps the runtime whole, and is never blind.
LEMMA RunGood ==
    ASSUME TypeInv, NEW w \in Workers, ClockRuns(w), Ordered(lrt[w]), Good(lrt[w], Ran),
           lwf[w].executed = lrt[w].visited
    PROVE  /\ Good(lrt'[w], Ran')
           /\ Ran' = Ran \cup {Turn(w)}
           /\ UNCHANGED blind
<1>1. /\ Turn(w) \in Nodes /\ Turn(w) \in Elems(lrt[w].queue)
      /\ Elems(lrt[w].queue) = {Turn(w)} \cup Elems(Rest(w))
      /\ lrt'[w].visited = lrt[w].visited \cup {Turn(w)}
      /\ lrt'[w].finished => lrt'[w].queue = <<>>
      /\ Elems(lrt'[w].queue) = Elems(Rest(w)) \cup (Children(Turn(w)) \ lrt'[w].visited)
  BY AfterFacts
<1>2. Ran' = Ran \cup {Turn(w)}
  BY <1>1 DEF ClockRuns, Ran, TypeInv, TypeOK
<1>3. UNCHANGED blind
  BY <1>1 DEF ClockRuns, Good
<1>4. Good(lrt'[w], Ran')
  <2>1. \A n \in Elems(lrt'[w].queue) : n = Entry \/ Parents(n) \cap lrt'[w].visited # {}
    <3>1. \A n \in Children(Turn(w)) : Turn(w) \in Parents(n)
      BY <1>1 DEF Parents
    <3>2. QED
      BY <1>1, <3>1 DEF Good
  <2>2. \A p \in lrt'[w].visited : Children(p) \subseteq lrt'[w].visited \cup Elems(lrt'[w].queue)
    BY <1>1 DEF Good
  <2>3. QED
    BY <1>1, <1>2, <2>1, <2>2 DEF Good
<1>5. QED
  BY <1>2, <1>3, <1>4

\* A worker that skips a node would have been sent it a second time.
LEMMA NoSkips ==
    ASSUME TypeInv, OrderInv, Agreed, NEW w \in Workers, ClockSkips(w)
    PROVE  FALSE
<1>1. pc[w] = "clock" /\ Turn(w) \in lwf[w].executed
  BY ClockMarks
<1>2. lwf[w].executed = lrt[w].visited /\ Ordered(lrt[w])
  BY <1>1 DEF Agreed, Level, OrderInv
<1>3. QED
  BY <1>1, <1>2, AfterFacts

\* Only a clock runs a node, and only a save writes what it did.
LEMMA RunsAlone ==
    ASSUME TypeInv, NEW w \in Workers, Handler(w) \/ Crash(w)
    PROVE  /\ UNCHANGED <<ran, blind>> \/ ClockRuns(w)
           /\ rt' = None \/ rt' = rt \/ SaveRt(w)
           /\ wf' # None => wf # None /\ (wf'.executed = wf.executed \/ SaveWf(w))
<1>1. UNCHANGED <<ran, blind>> \/ ClockRuns(w)
  BY DEF history, Handler, Receive, IsLocked, Lock, LoadWf, LoadRt, ClockWaits,
         ClockTerminates, ClockRuns, ClockSkips, SaveWf, SaveRt, Unlock, Charge,
         EnqueueNext, Ack, Ask, ReleaseAsked, Terminate, Finish, Link, AckEnded,
         EnqueueEnded, Crash, Throws, Requeue, Return, DoneReturn, Done, GoTo
<1>2. wf' # None => wf # None
  BY DEF rows, Handler, Receive, IsLocked, Lock, LoadWf, LoadRt, ClockWaits,
         ClockTerminates, ClockRuns, ClockSkips, SaveWf, SaveRt, Unlock, Charge,
         EnqueueNext, Ack, Ask, ReleaseAsked, Terminate, Finish, Link, AckEnded,
         EnqueueEnded, Crash, Throws, Requeue, Return, DoneReturn, Done, GoTo
<1>3. QED
  BY <1>1, <1>2, RowStep, RuntimeStep

\* The step of a save: a row is written, and the worker goes on; or there is no row.
LEMMA SaveStep ==
    ASSUME TypeInv, NEW w \in Workers, SaveWf(w) \/ SaveRt(w), wf' # None, rt' # None
    PROVE  /\ pc[w] = "save"
           /\ UNCHANGED <<lwf, lrt, at, root, ran, blind, charged, credits, windows>>
           /\ \/ /\ SaveWf(w) /\ "wf" \in todo[w] /\ todo'[w] = todo[w] \ {"wf"} /\ UNCHANGED rt
                 /\ pc'[w] = IF todo[w] = {"wf"} THEN "unlock" ELSE "save"
                 /\ wf'.executed = lwf[w].executed
              \/ /\ SaveRt(w) /\ "rt" \in todo[w] /\ todo'[w] = todo[w] \ {"rt"} /\ UNCHANGED wf
                 /\ pc'[w] = IF todo[w] = {"rt"} THEN "unlock" ELSE "save"
                 /\ rt' = lrt[w]
<1>1. pc \in [Workers -> Pcs]
      /\ todo \in [Workers -> SUBSET {"wf", "rt", "enqueue", "ack", "release"}]
      /\ lwf \in [Workers -> Row \cup {None}] /\ wf \in Row \cup {None}
  BY DEF TypeInv, TypeOK
<1>2. CASE SaveWf(w)
  <2>1. pc[w] = "save" /\ wf # None /\ lwf[w] # None
    BY <1>2 DEF SaveWf, Throws, rows, TypeInv, Loaded
  <2>2. wf'.executed = lwf[w].executed
    BY <1>1, <1>2, <2>1 DEF SaveWf, Row
  <2>3. QED
    BY <1>1, <1>2, <2>1, <2>2 DEF SaveWf, Done, GoTo, queues, history
<1>3. CASE SaveRt(w)
  BY <1>1, <1>3 DEF SaveRt, Done, GoTo, queues, history
<1>4. QED
  BY <1>2, <1>3

LEMMA LevelStep ==
    ASSUME TypeInv, OneMessage, Turned, OrderInv, Agreed,
           NEW w \in Workers, Handler(w) \/ Crash(w)
    PROVE  \A v \in Workers : Level(v)'
<1>1. ASSUME NEW v \in Workers \ {w}
      PROVE  Level(v)'
  <2>1. CASE pc[v] \in {"loadRt", "clock", "save"}
    BY <2>1, Undisturbed DEF Still, Agreed, Level, Good, Ran
  <2>2. CASE pc[v] \notin {"loadRt", "clock", "save"}
    BY <2>2, OthersStill DEF Still, Level
  <2>3. QED
    BY <2>1, <2>2
<1>2. ASSUME pc'[w] = "loadRt"
      PROVE  Level(w)'
  <2>1. LoadWf(w)
    BY <1>2 DEF TypeInv, TypeOK, worker, Handler, Receive, IsLocked, Lock, LoadWf, LoadRt,
                ClockWaits, ClockTerminates, ClockRuns, ClockSkips, SaveWf, SaveRt, Unlock,
                Charge, EnqueueNext, Ack, Ask, ReleaseAsked, Terminate, Finish, Link,
                AckEnded, EnqueueEnded, Crash, Throws, Requeue, Return, DoneReturn, Done,
                GoTo
  <2>2. pc[w] = "loadWf" /\ lwf'[w] = wf /\ UNCHANGED <<wf, rt>>
    BY <2>1 DEF LoadWf, TypeInv, TypeOK, rows
  <2>3. \A v \in Workers : ~Half(v)
    BY <2>2, BearsHere DEF Half, OneMessage
  <2>4. wf # None /\ rt # None => wf.executed = rt.visited
    BY <2>3 DEF Agreed
  <2>5. lwf'[w] # None /\ rt' # None => lwf'[w].executed = rt'.visited
    BY <2>2, <2>4
  <2>6. QED
    BY <1>2, <2>5 DEF Level
<1>3. ASSUME LoadRt(w) /\ pc'[w] = "clock"
      PROVE  Level(w)'
  <2>1. /\ pc[w] = "loadRt" /\ rt # None /\ lwf[w] # None /\ lrt'[w] = Boot(rt)
        /\ lwf'[w].executed = lwf[w].executed /\ UNCHANGED ran
    BY <1>3, LoadMarks
  <2>2. Boot(rt).visited = rt.visited
    BY <2>1 DEF Boot, TypeInv, TypeOK, RuntimeRow
  <2>3. lwf'[w].executed = lrt'[w].visited
    BY <2>1, <2>2 DEF Agreed, Level
  <2>4. Good(lrt'[w], Ran')
    BY <2>1 DEF Agreed, Ran
  <2>5. QED
    BY <1>3, <2>3, <2>4 DEF Level, Good
<1>4. ASSUME ClockRuns(w)
      PROVE  Level(w)'
  <2>1. /\ pc[w] = "clock" /\ pc'[w] = "save" /\ todo'[w] = {"wf", "rt"}
        /\ lwf'[w].executed = lwf[w].executed \cup {Turn(w)}
    BY <1>4, ClockMarks
  <2>2. lwf[w].executed = lrt[w].visited /\ Good(lrt[w], Ran) /\ Ordered(lrt[w])
    BY <2>1 DEF Agreed, Level, OrderInv
  <2>3. Good(lrt'[w], Ran') /\ lrt'[w].visited = lrt[w].visited \cup {Turn(w)}
    BY <1>4, <2>2, RunGood, AfterFacts
  <2>4. lwf'[w].executed = lrt'[w].visited
    BY <2>1, <2>2, <2>3
  <2>5. QED
    BY <2>1, <2>3, <2>4 DEF Level, Good
<1>5. ASSUME pc'[w] \in {"clock", "save"}, ~LoadRt(w), ~ClockRuns(w), ~ClockSkips(w)
      PROVE  Level(w)'
  <2>1. /\ pc[w] = "save" /\ pc'[w] = "save" /\ UNCHANGED <<lwf[w], lrt[w], ran>>
        /\ \/ SaveWf(w) /\ UNCHANGED rt
           \/ SaveRt(w) /\ "rt" \in todo[w] /\ todo'[w] = todo[w] \ {"rt"} /\ UNCHANGED wf
    BY <1>5, SaveMarks
  <2>2. SaveWf(w) /\ wf' # None => wf'.executed = lwf[w].executed
    <3>1. CASE SaveWf(w) /\ wf' # None
      <4>1. /\ wf \in Row /\ wf # None /\ lwf[w] \in Row
        BY <2>1, <3>1 DEF SaveWf, Throws, rows, TypeInv, TypeOK, Loaded
      <4>2. QED
        BY <3>1, <4>1 DEF SaveWf, Row
    <3>2. QED
      BY <3>1
  <2>3. lwf'[w].executed = lrt'[w].visited /\ Good(lrt'[w], Ran')
    BY <2>1 DEF Agreed, Level, Ran
  <2>4. "wf" \notin todo'[w] /\ wf' # None => wf'.executed = lwf'[w].executed
    BY <2>1, <2>2 DEF Agreed, Level
  <2>5. QED
    BY <2>1, <2>3, <2>4 DEF Level, Good
<1>6. pc'[w] \notin {"loadRt", "clock", "save"} => Level(w)'
  BY DEF Level
<1>7. LoadRt(w) => pc'[w] # "save"
  BY DEF LoadRt, Throws, Requeue, Return, GoTo, TypeInv, TypeOK
<1>8. Level(w)'
  BY <1>2, <1>3, <1>4, <1>5, <1>6, <1>7, NoSkips
<1> QED
  BY <1>1, <1>8

LEMMA AgreedStep ==
    ASSUME TypeInv, OneMessage, Turned, OrderInv, Agreed, [Next]_vars, OneRound',
           "torn" \notin windows'
    PROVE  Agreed'
<1>1. ASSUME NEW w \in Workers, Handler(w) \/ Crash(w)
      PROVE  Agreed'
  <2>1. UNCHANGED <<ran, blind>> \/ ClockRuns(w)
    BY <1>1, RunsAlone
  <2>2. CASE ClockRuns(w)
    <3>1. /\ pc[w] = "clock" /\ UNCHANGED <<wf, rt>> /\ pc'[w] = "save"
      BY <2>2, ClockMarks DEF rows
    <3>2. lwf[w].executed = lrt[w].visited /\ Good(lrt[w], Ran) /\ Ordered(lrt[w])
      BY <3>1 DEF Agreed, Level, OrderInv
    <3>3. Ran' = Ran \cup {Turn(w)} /\ UNCHANGED blind /\ Turn(w) \in Elems(lrt[w].queue)
      BY <2>2, <3>2, RunGood, AfterFacts
    <3>4. rt # None => Good(Boot(rt), Ran')
      BY <3>1, <3>2, <3>3 DEF Turned, Good
    <3>5. \A v \in Workers : ~Half(v)
      BY <3>1, BearsHere DEF OneMessage, Half
    <3>6. QED
      BY <1>1, <3>1, <3>3, <3>4, <3>5, LevelStep DEF Agreed, Good, Ran, Boot
  <2>3. CASE UNCHANGED <<ran, blind>>
    <3>1. rt' # None => Good(Boot(rt'), Ran)
      <4>1. CASE SaveRt(w) /\ rt' # None
        <5>1. rt' = lrt[w] /\ pc[w] = "save" /\ lrt[w] \in RuntimeRow
          BY <4>1 DEF SaveRt, TypeInv, TypeOK, Loaded
        <5>2. Good(lrt[w], Ran)
          BY <5>1 DEF Agreed, Level
        <5>3. Boot(rt') = rt'
          BY <5>1, <5>2, BootGood DEF Boot
        <5>4. QED
          BY <5>1, <5>2, <5>3
      <4>2. CASE rt' = rt
        BY <4>2 DEF Agreed, Boot, Good
      <4>3. QED
        BY <1>1, <4>1, <4>2, RunsAlone
    <3>2. ASSUME wf' # None, rt' # None
          PROVE  wf'.executed = rt'.visited \/ \E v \in Workers : Half(v)'
      <4>1. /\ wf # None /\ rt # None
        BY <3>2, RowsGone
      <4>2. CASE SaveWf(w) \/ SaveRt(w)
        <5>1. pc[w] = "save" /\ lwf[w].executed = lrt[w].visited /\ todo[w] \subseteq {"wf", "rt"}
          BY <4>2 DEF SaveWf, SaveRt, Agreed, Level, TypeInv, Held
        <5>2. "wf" \notin todo[w] => wf.executed = lwf[w].executed
          BY <4>1, <5>1 DEF Agreed, Level
        <5>3. "rt" \notin todo[w] => rt = lrt[w]
          BY <4>1, <5>1 DEF Turned
        <5>4. CASE pc'[w] = "save"
          BY <3>2, <4>2, <5>4, SaveStep DEF Half
        <5>5. CASE pc'[w] # "save"
          BY <3>2, <4>2, <5>1, <5>2, <5>3, <5>5, SaveStep
        <5>6. QED
          BY <5>4, <5>5
      <4>3. CASE ~SaveWf(w) /\ ~SaveRt(w)
        <5>1. wf'.executed = wf.executed /\ rt' = rt
          BY <1>1, <3>2, <4>3, RunsAlone
        <5>2. ~Half(w)
          <6>1. ASSUME Half(w) PROVE Crash(w)
            BY <1>1, <4>3, <6>1 DEF Half, Handler, Receive, IsLocked, Lock, LoadWf, LoadRt,
                                    ClockWaits, ClockTerminates, ClockRuns, ClockSkips,
                                    SaveWf, SaveRt, Unlock, Charge, EnqueueNext, Ack, Ask,
                                    ReleaseAsked, Terminate, Finish, Link, AckEnded,
                                    EnqueueEnded, Crash
          <6>2. ASSUME Half(w), Crash(w) PROVE "torn" \in windows'
            <7>1. Windows(w) = {"torn"}
              BY <6>2 DEF Windows, Half
            <7>2. QED
              BY <6>2, <7>1 DEF Crash
          <6>3. QED
            BY <6>1, <6>2
        <5>3. \A v \in Workers \ {w} : Half(v) => Half(v)'
          BY <1>1, OthersStill DEF Still, Half
        <5>4. QED
          BY <4>1, <5>1, <5>2, <5>3 DEF Agreed
      <4>4. QED
        BY <4>2, <4>3
    <3>3. \A v \in Workers : Level(v)'
      BY <1>1, LevelStep
    <3>4. QED
      BY <2>3, <3>1, <3>2, <3>3 DEF Agreed, Good, Ran, Boot
  <2>4. QED
    BY <2>1, <2>2, <2>3
<1>2. ASSUME ~\E w \in Workers : Handler(w) \/ Crash(w)
      PROVE  Agreed'
  <2>1. /\ UNCHANGED <<worker, ran, blind>>
        /\ rt' = None \/ rt' = rt
        /\ wf' # None => wf # None /\ wf'.executed = wf.executed
    BY <1>2, AsideStep DEF Next
  <2>2. rt' # None => Good(Boot(rt), Ran)
    BY <2>1 DEF Agreed
  <2>3. \A w \in Workers : Level(w)'
    BY <2>1 DEF Agreed, Level, worker, Good, Ran
  <2>4. QED
    BY <2>1, <2>2, <2>3 DEF Agreed, worker, Good, Ran, Boot, Half
<1>3. QED
  BY <1>1, <1>2

LEMMA InitOrder == Init => OrderInv
BY DEF Init, OrderInv, Ordered, Distinct, Elems

LEMMA InitGood == Init => GoodInv
<1> SUFFICES ASSUME Init PROVE Agreed
  BY DEF GoodInv
<1>1. Boot(rt) = [queue |-> <<Entry>>, visited |-> {}, finished |-> FALSE]
  BY DEF Init, Boot
<1>2. Elems(<<Entry>>) = {Entry}
  BY DEF Elems
<1>3. Ran = {}
  BY DEF Init, Ran
<1>4. Good(Boot(rt), Ran)
  BY <1>1, <1>2, <1>3 DEF Good
<1>5. wf.executed = rt.visited
  BY DEF Init
<1>6. QED
  BY <1>4, <1>5 DEF Init, Agreed, Level

LEMMA GoodStep ==
    ASSUME OneAtATime, TypeInv, RoundInv, OrderInv, GoodInv, [Next]_vars
    PROVE  GoodInv'
<1> SUFFICES ASSUME OneRound', "torn" \notin windows' PROVE Agreed'
  BY DEF GoodInv
<1>1. OneMessage /\ Turned /\ Agreed
  BY RoundsKeep DEF RoundInv, GoodInv, OneRound
<1>2. QED
  BY <1>1, AgreedStep

\* No node runs without the output of a parent, unless a crash came between the two
\* saves or there were two messages.
THEOREM NeverBlind == ASSUME OneAtATime PROVE Spec => []NotBlind
<1>1. GoodInv => NotBlind
  BY DEF GoodInv, Agreed, NotBlind
<1>2. QED
  BY InitTypes, TypesStep, InitRound, RoundStep, InitOrder, OrderStep, InitGood, GoodStep, <1>1,
     PTL DEF Spec

\* A runtime that says finished has run the entry and all the children of what ran,
\* under the same two conditions.
THEOREM FinishedIsWhole == ASSUME OneAtATime PROVE Spec => []FinishedMeansAll
<1>1. TypeInv /\ GoodInv => FinishedMeansAll
  <2> SUFFICES ASSUME TypeInv, GoodInv, rt # None, rt.finished, OneRound, "torn" \notin windows
               PROVE  /\ ran[Entry] > 0
                      /\ \A p \in Nodes : ran[p] > 0 => \A c \in Children(p) : ran[c] > 0
    BY DEF FinishedMeansAll
  <2>1. Boot(rt) = rt /\ Good(rt, Ran)
    BY DEF GoodInv, Agreed, Boot
  <2>2. rt.queue = <<>> /\ Elems(<<>>) = {}
    BY <2>1 DEF Good, Elems
  <2>3. rt.visited = Ran /\ Entry \in Ran /\ \A p \in Ran : Children(p) \subseteq Ran
    BY <2>1, <2>2 DEF Good
  <2>4. QED
    BY <2>3 DEF Ran
<1>2. QED
  BY InitTypes, TypesStep, InitRound, RoundStep, InitOrder, OrderStep, InitGood, GoodStep, <1>1,
     PTL DEF Spec
-------------------------------------------------------------------------------
\* A worker that has saved nothing of the node it ran.
Fresh(w) == pc[w] = "save" /\ todo[w] = {"wf", "rt"}

\* Whatever ran is known to a worker that may clock.
Knows(w) ==
    /\ pc[w] = "loadRt" /\ lwf[w] # None /\ rt # None =>
          Ran \subseteq lwf[w].executed \cup rt.visited
    /\ pc[w] \in {"clock", "save"} => Ran \subseteq lwf[w].executed \cup lrt[w].visited

\* What ran ran once, and is in a row, or in the memory of the worker that saves it.
Counted ==
    /\ \A n \in Nodes : ran[n] <= 1
    /\ wf # None /\ rt # None =>
          \A n \in Ran : \/ n \in wf.executed \cup rt.visited
                         \/ \E w \in Workers : Fresh(w) /\ at[w] = n
    /\ \A w \in Workers : Knows(w)

RanInv == OneRound /\ "unsaved" \notin windows => Counted

LEMMA KnowsStep ==
    ASSUME TypeInv, OneMessage, Turned, OrderInv, Counted,
           NEW w \in Workers, Handler(w) \/ Crash(w)
    PROVE  \A v \in Workers : Knows(v)'
<1>1. ASSUME NEW v \in Workers \ {w}
      PROVE  Knows(v)'
  <2>1. CASE pc[v] \in {"loadRt", "clock", "save"}
    BY <2>1, Undisturbed DEF Still, Counted, Knows, Ran
  <2>2. CASE pc[v] \notin {"loadRt", "clock", "save"}
    BY <2>2, OthersStill DEF Still, Knows
  <2>3. QED
    BY <2>1, <2>2
<1>2. ASSUME pc'[w] = "loadRt"
      PROVE  Knows(w)'
  <2>1. LoadWf(w)
    BY <1>2 DEF TypeInv, TypeOK, worker, Handler, Receive, IsLocked, Lock, LoadWf, LoadRt,
                ClockWaits, ClockTerminates, ClockRuns, ClockSkips, SaveWf, SaveRt, Unlock,
                Charge, EnqueueNext, Ack, Ask, ReleaseAsked, Terminate, Finish, Link,
                AckEnded, EnqueueEnded, Crash, Throws, Requeue, Return, DoneReturn, Done,
                GoTo
  <2>2. pc[w] = "loadWf" /\ lwf'[w] = wf /\ UNCHANGED <<wf, rt, ran>>
    BY <2>1 DEF LoadWf, TypeInv, TypeOK, rows, history
  <2>3. \A v \in Workers : ~Fresh(v)
    BY <2>2, BearsHere DEF Fresh, OneMessage
  <2>4. wf # None /\ rt # None => Ran \subseteq wf.executed \cup rt.visited
    BY <2>3 DEF Counted
  <2>5. lwf'[w] # None /\ rt' # None => Ran' \subseteq lwf'[w].executed \cup rt'.visited
    BY <2>2, <2>4 DEF Ran
  <2>6. QED
    BY <1>2, <2>5 DEF Knows
<1>3. ASSUME LoadRt(w), pc'[w] = "clock"
      PROVE  Knows(w)'
  <2>1. /\ pc[w] = "loadRt" /\ rt # None /\ lwf[w] # None /\ lrt'[w] = Boot(rt)
        /\ lwf'[w].executed = lwf[w].executed /\ UNCHANGED ran
    BY <1>3, LoadMarks
  <2>2. Boot(rt).visited = rt.visited
    BY <2>1 DEF Boot, TypeInv, TypeOK, RuntimeRow
  <2>3. Ran \subseteq lwf'[w].executed \cup lrt'[w].visited
    BY <2>1, <2>2 DEF Counted, Knows
  <2>4. QED
    BY <1>3, <2>1, <2>3 DEF Knows, Ran
<1>4. ASSUME ClockRuns(w) \/ ClockSkips(w)
      PROVE  Knows(w)'
  <2>1. /\ pc[w] = "clock" /\ pc'[w] = "save"
        /\ lwf'[w].executed = lwf[w].executed \cup {Turn(w)}
    BY <1>4, ClockMarks
  <2>2. Ran \subseteq lwf[w].executed \cup lrt[w].visited /\ Ordered(lrt[w])
    BY <2>1 DEF Counted, Knows, OrderInv
  <2>3. lrt'[w].visited = lrt[w].visited \cup {Turn(w)} /\ Turn(w) \in Nodes
    BY <1>4, <2>2, AfterFacts
  <2>4. Ran' \subseteq Ran \cup {Turn(w)}
    BY <1>4, <2>3 DEF ClockRuns, ClockSkips, Ran, TypeInv, TypeOK, history
  <2>5. QED
    BY <2>1, <2>2, <2>3, <2>4 DEF Knows
<1>5. ASSUME pc'[w] \in {"clock", "save"}, ~LoadRt(w), ~ClockRuns(w), ~ClockSkips(w)
      PROVE  Knows(w)'
  <2>1. pc[w] = "save" /\ pc'[w] = "save" /\ UNCHANGED <<lwf[w], lrt[w], ran>>
    BY <1>5, SaveMarks
  <2>2. QED
    BY <2>1 DEF Counted, Knows, Ran
<1>6. pc'[w] \notin {"loadRt", "clock", "save"} => Knows(w)'
  BY DEF Knows
<1>7. LoadRt(w) => pc'[w] # "save"
  BY DEF LoadRt, Throws, Requeue, Return, GoTo, TypeInv, TypeOK
<1>8. Knows(w)'
  BY <1>2, <1>3, <1>4, <1>5, <1>6, <1>7
<1> QED
  BY <1>1, <1>8

LEMMA CountedStep ==
    ASSUME TypeInv, OneMessage, Turned, OrderInv, Counted, [Next]_vars, OneRound',
           "unsaved" \notin windows'
    PROVE  Counted'
<1>1. ASSUME NEW w \in Workers, Handler(w) \/ Crash(w)
      PROVE  Counted'
  <2>1. \A n \in Nodes : ran'[n] <= 1
    <3>1. CASE ClockRuns(w)
      <4>1. pc[w] = "clock" /\ Turn(w) \notin lwf[w].executed
        BY <3>1 DEF ClockRuns
      <4>2. Turn(w) \in Nodes /\ Turn(w) \notin lrt[w].visited
        BY <3>1, <4>1, AfterFacts DEF OrderInv
      <4>3. Turn(w) \notin Ran
        BY <4>1, <4>2 DEF Counted, Knows
      <4>4. ran[Turn(w)] = 0 /\ ran \in [Nodes -> Nat]
        BY <4>2, <4>3 DEF Ran, TypeInv, TypeOK
      <4>5. QED
        BY <3>1, <4>2, <4>4 DEF ClockRuns, Counted
    <3>2. QED
      BY <1>1, <3>1, RunsAlone DEF Counted
  <2>2. ASSUME wf' # None, rt' # None, NEW n \in Nodes, ran'[n] > 0
        PROVE  \/ n \in wf'.executed \cup rt'.visited
               \/ \E v \in Workers : Fresh(v)' /\ at'[v] = n
    <3>1. wf # None /\ rt # None
      BY <2>2, RowsGone
    <3>2. CASE ClockRuns(w) \/ ClockSkips(w)
      <4>1. /\ pc[w] = "clock" /\ pc'[w] = "save" /\ todo'[w] = {"wf", "rt"} /\ at'[w] = Turn(w)
            /\ UNCHANGED <<wf, rt>>
        BY <3>2, ClockMarks DEF rows
      <4>2. \A v \in Workers : ~Fresh(v)
        BY <4>1, BearsHere DEF OneMessage, Fresh
      <4>3. Ran \subseteq wf.executed \cup rt.visited
        BY <3>1, <4>2 DEF Counted
      <4>4. n \in Ran \/ n = Turn(w)
        BY <2>2, <3>2 DEF ClockRuns, ClockSkips, Ran, TypeInv, TypeOK, history
      <4>5. QED
        BY <4>1, <4>3, <4>4 DEF Fresh
    <3>3. CASE SaveWf(w) \/ SaveRt(w)
      <4>1. /\ pc[w] = "save" /\ UNCHANGED ran
            /\ \/ wf'.executed = lwf[w].executed /\ rt' = rt
               \/ wf' = wf /\ rt' = lrt[w] /\ "rt" \in todo[w]
        BY <2>2, <3>3, SaveStep
      <4>2. n \in lwf[w].executed \cup lrt[w].visited
        BY <2>2, <4>1 DEF Counted, Knows, Ran
      <4>3. at[w] \in lwf[w].executed /\ at[w] \in lrt[w].visited
        BY <4>1 DEF OrderInv
      <4>4. lrt[w].visited = rt.visited \cup {at[w]} \/ lrt[w].visited = rt.visited
        BY <3>1, <4>1 DEF Turned
      <4>5. CASE wf' = wf /\ rt' = lrt[w] /\ "rt" \in todo[w]
        <5>1. \A v \in Workers : Fresh(v) => v = w
          BY <4>1, BearsHere DEF OneMessage, Fresh
        <5>2. n \in wf.executed \cup rt.visited \/ n = at[w]
          BY <2>2, <3>1, <4>1, <5>1 DEF Counted, Ran
        <5>3. QED
          BY <4>3, <4>4, <4>5, <5>2
      <4>6. QED
        BY <4>1, <4>2, <4>3, <4>4, <4>5
    <3>4. CASE ~SaveWf(w) /\ ~SaveRt(w) /\ ~ClockRuns(w) /\ ~ClockSkips(w)
      <4>1. wf'.executed = wf.executed /\ rt' = rt /\ UNCHANGED ran
        BY <1>1, <2>2, <3>4, RunsAlone
      <4>2. ~Fresh(w)
        <5>1. ASSUME Fresh(w) PROVE Crash(w)
          BY <1>1, <3>4, <5>1 DEF Fresh, Handler, Receive, IsLocked, Lock, LoadWf, LoadRt,
                                  ClockWaits, ClockTerminates, ClockRuns, ClockSkips,
                                  SaveWf, SaveRt, Unlock, Charge, EnqueueNext, Ack, Ask,
                                  ReleaseAsked, Terminate, Finish, Link, AckEnded,
                                  EnqueueEnded, Crash
        <5>2. ASSUME Fresh(w), Crash(w) PROVE "unsaved" \in windows'
          <6>1. Windows(w) = {"unsaved"}
            BY <5>2 DEF Windows, Fresh
          <6>2. QED
            BY <5>2, <6>1 DEF Crash
        <5>3. QED
          BY <5>1, <5>2
      <4>3. \A v \in Workers \ {w} : Fresh(v) => Fresh(v)' /\ at'[v] = at[v]
        BY <1>1, OthersStill DEF Still, Fresh
      <4>4. QED
        BY <2>2, <3>1, <4>1, <4>2, <4>3 DEF Counted, Ran
    <3>5. QED
      BY <3>2, <3>3, <3>4
  <2>3. \A v \in Workers : Knows(v)'
    BY <1>1, KnowsStep
  <2>4. QED
    BY <2>1, <2>2, <2>3 DEF Counted, Ran
<1>2. ASSUME ~\E w \in Workers : Handler(w) \/ Crash(w)
      PROVE  Counted'
  <2>1. /\ UNCHANGED <<worker, ran>>
        /\ rt' = None \/ rt' = rt
        /\ wf' # None => wf # None /\ wf'.executed = wf.executed
    BY <1>2, AsideStep DEF Next
  <2>2. \A w \in Workers : Knows(w)'
    BY <2>1 DEF Counted, Knows, worker, Ran
  <2>3. QED
    BY <2>1, <2>2 DEF Counted, worker, Ran, Fresh
<1>3. QED
  BY <1>1, <1>2

Charged == {n \in Nodes : charged[n] > 0}

\* What was paid for is in the runtimes, what a worker has to pay for is not yet paid for.
Bill(w) ==
    /\ pc[w] \in {"clock", "save"} => Charged \subseteq lrt[w].visited
    /\ Owes(w) => at[w] \notin Charged
    /\ pc[w] \in {"unlock", "charge"} /\ rt # None => at[w] \in rt.visited

Paid ==
    /\ \A n \in Nodes : charged[n] <= 1
    /\ rt # None => Charged \subseteq rt.visited
    /\ \A w \in Workers : Bill(w)

PaidInv == OneRound => Paid

\* Only a charge pays.
LEMMA ChargeStep ==
    ASSUME TypeInv, NEW w \in Workers, Handler(w) \/ Crash(w)
    PROVE  \/ UNCHANGED <<charged, credits>>
           \/ /\ Charge(w) /\ pc[w] = "charge" /\ pc'[w] = "next" /\ UNCHANGED <<rows, ran>>
              /\ credits > 0 /\ credits' = credits - 1 /\ at[w] \in Nodes
              /\ charged' = [charged EXCEPT ![at[w]] = @ + 1]
<1>1. UNCHANGED <<charged, credits>> \/ Charge(w)
  BY DEF history, Handler, Receive, IsLocked, Lock, LoadWf, LoadRt, ClockWaits,
         ClockTerminates, ClockRuns, ClockSkips, SaveWf, SaveRt, Unlock, Charge,
         EnqueueNext, Ack, Ask, ReleaseAsked, Terminate, Finish, Link, AckEnded,
         EnqueueEnded, Crash, Throws, Requeue, Return, DoneReturn, Done, GoTo
<1>2. CASE Charge(w)
  BY <1>2 DEF Charge, Throws, GoTo, history, TypeInv, TypeOK, Loaded
<1>3. QED
  BY <1>1, <1>2

LEMMA BillStep ==
    ASSUME TypeInv, OneMessage, Turned, OrderInv, Paid, NEW w \in Workers, Handler(w) \/ Crash(w)
    PROVE  \A v \in Workers : Bill(v)'
<1>1. ASSUME NEW v \in Workers \ {w}
      PROVE  Bill(v)'
  <2>1. CASE pc[v] \in {"clock", "save", "unlock", "charge"}
    BY <2>1, Undisturbed DEF Still, Paid, Bill, Owes, Charged
  <2>2. CASE pc[v] \notin {"clock", "save", "unlock", "charge"}
    BY <2>2, OthersStill DEF Still, Bill, Owes
  <2>3. QED
    BY <2>1, <2>2
<1>2. ASSUME LoadRt(w), pc'[w] = "clock"
      PROVE  Bill(w)'
  <2>1. rt # None /\ lrt'[w] = Boot(rt) /\ UNCHANGED charged
    BY <1>2, LoadMarks
  <2>2. Boot(rt).visited = rt.visited
    BY <2>1 DEF Boot, TypeInv, TypeOK, RuntimeRow
  <2>3. QED
    BY <1>2, <2>1, <2>2 DEF Paid, Bill, Owes, Charged
<1>3. ASSUME ClockRuns(w) \/ ClockSkips(w)
      PROVE  Bill(w)'
  <2>1. /\ pc[w] = "clock" /\ pc'[w] = "save" /\ at'[w] = Turn(w) /\ UNCHANGED charged
    BY <1>3, ClockMarks
  <2>2. Charged \subseteq lrt[w].visited /\ Ordered(lrt[w])
    BY <2>1 DEF Paid, Bill, OrderInv
  <2>3. lrt'[w].visited = lrt[w].visited \cup {Turn(w)} /\ Turn(w) \notin lrt[w].visited
    BY <1>3, <2>2, AfterFacts
  <2>4. QED
    BY <2>1, <2>2, <2>3 DEF Bill, Owes, Charged
<1>4. ASSUME pc'[w] \in {"clock", "save"}, ~LoadRt(w), ~ClockRuns(w), ~ClockSkips(w)
      PROVE  Bill(w)'
  <2>1. /\ pc[w] = "save" /\ pc'[w] = "save" /\ UNCHANGED <<lrt[w], at[w], charged>>
    BY <1>4, SaveMarks
  <2>2. QED
    BY <2>1 DEF Paid, Bill, Owes, Charged
<1>5. ASSUME pc'[w] = "unlock"
      PROVE  Bill(w)'
  <2>1. SaveWf(w) \/ SaveRt(w)
    BY <1>5 DEF TypeInv, TypeOK, worker, Handler, Receive, IsLocked, Lock, LoadWf, LoadRt,
                ClockWaits, ClockTerminates, ClockRuns, ClockSkips, SaveWf, SaveRt, Unlock,
                Charge, EnqueueNext, Ack, Ask, ReleaseAsked, Terminate, Finish, Link,
                AckEnded, EnqueueEnded, Crash, Throws, Requeue, Return, DoneReturn, Done,
                GoTo
  <2>2. /\ pc[w] = "save" /\ UNCHANGED <<at, charged>>
    BY <1>5, <2>1 DEF SaveWf, SaveRt, Done, GoTo, Throws, Requeue, Return, history,
                       TypeInv, TypeOK
  <2>3. at[w] \notin Charged /\ at[w] \in lrt[w].visited
    BY <2>2 DEF Paid, Bill, Owes, OrderInv
  <2>4. rt' # None => rt' = lrt[w]
    <3>1. CASE SaveRt(w)
      BY <3>1 DEF SaveRt
    <3>2. CASE SaveWf(w)
      <4>1. rt' = rt /\ todo[w] = {"wf"}
        BY <1>5, <3>2 DEF SaveWf, Done, GoTo, Throws, Requeue, Return, rows, TypeInv, TypeOK
      <4>2. QED
        BY <2>2, <4>1 DEF Turned
    <3>3. QED
      BY <2>1, <3>1, <3>2
  <2>5. QED
    BY <1>5, <2>2, <2>3, <2>4 DEF Bill, Owes, Charged
<1>6. ASSUME pc'[w] = "charge"
      PROVE  Bill(w)'
  <2>1. Unlock(w)
    BY <1>6 DEF TypeInv, TypeOK, worker, Handler, Receive, IsLocked, Lock, LoadWf, LoadRt,
                ClockWaits, ClockTerminates, ClockRuns, ClockSkips, SaveWf, SaveRt, Unlock,
                Charge, EnqueueNext, Ack, Ask, ReleaseAsked, Terminate, Finish, Link,
                AckEnded, EnqueueEnded, Crash, Throws, Requeue, Return, DoneReturn, Done,
                GoTo
  <2>2. /\ pc[w] = "unlock" /\ UNCHANGED <<at, charged, rt>>
    BY <1>6, <2>1 DEF Unlock, Throws, Requeue, Return, GoTo, history, rows, TypeInv, TypeOK
  <2>3. QED
    BY <1>6, <2>2 DEF Paid, Bill, Owes, Charged
<1>7. pc'[w] \notin {"clock", "save", "unlock", "charge"} => Bill(w)'
  BY DEF Bill, Owes
<1>8. LoadRt(w) => pc'[w] # "save"
  BY DEF LoadRt, Throws, Requeue, Return, GoTo, TypeInv, TypeOK
<1>9. Bill(w)'
  BY <1>2, <1>3, <1>4, <1>5, <1>6, <1>7, <1>8
<1> QED
  BY <1>1, <1>9

LEMMA PaidStep ==
    ASSUME TypeInv, OneMessage, Turned, OrderInv, Paid, [Next]_vars
    PROVE  Paid'
<1>1. ASSUME NEW w \in Workers, Handler(w) \/ Crash(w)
      PROVE  Paid'
  <2>1. charged \in [Nodes -> Nat]
    BY DEF TypeInv, TypeOK
  <2>2. \A n \in Nodes : charged'[n] <= 1
    <3>1. CASE Charge(w) /\ charged' = [charged EXCEPT ![at[w]] = @ + 1]
      <4>1. at[w] \in Nodes /\ at[w] \notin Charged
        BY <3>1 DEF Charge, Paid, Bill, Owes, TypeInv, Loaded
      <4>2. QED
        BY <2>1, <3>1, <4>1 DEF Charged, Paid
    <3>2. QED
      BY <1>1, <3>1, ChargeStep DEF Paid
  <2>3. ASSUME rt' # None PROVE Charged' \subseteq rt'.visited
    <3>1. rt # None
      BY <2>3, RowsGone
    <3>2. CASE pc[w] = "charge" /\ UNCHANGED rows /\ charged' = [charged EXCEPT ![at[w]] = @ + 1]
      <4>1. at[w] \in rt.visited /\ rt' = rt
        BY <3>1, <3>2 DEF Paid, Bill, rows
      <4>2. QED
        BY <2>1, <3>1, <3>2, <4>1 DEF Paid, Charged
    <3>3. CASE UNCHANGED charged
      <4>1. rt' = rt \/ (pc[w] = "save" /\ rt' = lrt[w])
        BY <1>1, <2>3, RuntimeStep DEF SaveRt
      <4>2. QED
        BY <3>1, <3>3, <4>1 DEF Paid, Bill, Charged
    <3>4. QED
      BY <1>1, <3>2, <3>3, ChargeStep
  <2>4. \A v \in Workers : Bill(v)'
    BY <1>1, BillStep
  <2>5. QED
    BY <2>2, <2>3, <2>4 DEF Paid
<1>2. ASSUME ~\E w \in Workers : Handler(w) \/ Crash(w)
      PROVE  Paid'
  <2>1. UNCHANGED <<worker, charged>> /\ (rt' = None \/ rt' = rt)
    BY <1>2, AsideStep DEF Next
  <2>2. \A w \in Workers : Bill(w)'
    BY <2>1 DEF Paid, Bill, worker, Owes, Charged
  <2>3. QED
    BY <2>1, <2>2 DEF Paid, Charged
<1>3. QED
  BY <1>1, <1>2

\* Others may have left nothing for n, and then it is not paid for.
Drawn(n) == n \in drawn /\ ran[n] = charged[n] + 1

\* Without a crash, all that ran is paid for, but for the node of a worker that owes, which
\* the balance does for, and for those the balance was drawn on before.
Even ==
    /\ \A w \in Workers : Owes(w) => credits > 0 \/ at[w] \in drawn
    /\ wf # None =>
          /\ \A w \in Workers : Owes(w) => ran[at[w]] = charged[at[w]] + 1
          /\ \A n \in Nodes : \/ ran[n] = charged[n] \/ Drawn(n)
                              \/ \E w \in Workers : Owes(w) /\ at[w] = n

EvenInv == windows = {} => Even

\* How a worker comes to owe, and pays or is refused.
LEMMA OwesStep ==
    ASSUME TypeInv, NEW w \in Workers, Handler(w) \/ Crash(w), windows' = {}
    PROVE  /\ UNCHANGED drawn
           /\ \/ ClockRuns(w) \/ ClockSkips(w)
              \/ Charge(w) /\ ~Owes(w)' /\ charged' = [charged EXCEPT ![at[w]] = @ + 1]
              \/ UNCHANGED <<ran, charged, credits>> /\ Owes(w) /\ ~Owes(w)' /\ ~(credits > 0)
              \/ UNCHANGED <<ran, charged, credits>> /\ ~Owes(w) /\ ~Owes(w)'
              \/ UNCHANGED <<ran, charged, credits, at[w]>> /\ Owes(w) /\ Owes(w)'
              \/ UNCHANGED <<ran, charged, credits>> /\ wf' = None /\ ~Owes(w)'
<1>1. /\ pc \in [Workers -> Pcs] /\ credits \in Nat
      /\ todo \in [Workers -> SUBSET {"wf", "rt", "enqueue", "ack", "release"}]
  BY DEF TypeInv, TypeOK
<1> DEFINE Outcome ==
              \/ ClockRuns(w) \/ ClockSkips(w)
              \/ Charge(w) /\ ~Owes(w)' /\ charged' = [charged EXCEPT ![at[w]] = @ + 1]
              \/ UNCHANGED <<ran, charged, credits>> /\ Owes(w) /\ ~Owes(w)' /\ ~(credits > 0)
              \/ UNCHANGED <<ran, charged, credits>> /\ ~Owes(w) /\ ~Owes(w)'
              \/ UNCHANGED <<ran, charged, credits, at[w]>> /\ Owes(w) /\ Owes(w)'
              \/ UNCHANGED <<ran, charged, credits>> /\ wf' = None /\ ~Owes(w)'
<1>2. ASSUME Charge(w) PROVE Outcome
  <2>1. CASE credits = 0
    <3>1. UNCHANGED <<ran, charged, credits>> /\ pc[w] = "charge" /\ pc'[w] = "idle"
      BY <1>1, <1>2, <2>1 DEF Charge, Throws, Requeue, Return, GoTo, history
    <3>2. QED
      BY <1>1, <2>1, <3>1 DEF Owes
  <2>2. CASE credits # 0
    BY <1>1, <1>2, <2>2 DEF Charge, Owes, GoTo
  <2>3. QED
    BY <2>1, <2>2
<1>3. ASSUME SaveWf(w) \/ SaveRt(w) \/ Unlock(w) PROVE Outcome
  <2>1. UNCHANGED <<ran, charged, credits>> /\ Owes(w)
    BY <1>3 DEF SaveWf, SaveRt, Unlock, Throws, history, Owes
  <2>2. \/ pc'[w] \in {"save", "unlock", "charge"} /\ UNCHANGED at
        \/ wf' = None /\ pc'[w] = "idle"
    BY <1>1, <1>3 DEF SaveWf, SaveRt, Unlock, Done, GoTo, Throws, Requeue, Return, rows
  <2>3. QED
    BY <2>1, <2>2 DEF Owes
<1>4. ASSUME Crash(w) PROVE Outcome
  <2>1. ~Owes(w)
    <3>1. ASSUME Owes(w) PROVE Windows(w) # {}
      BY <1>1, <3>1 DEF Windows, Owes
    <3>2. QED
      BY <1>4, <3>1 DEF Crash
  <2>2. QED
    BY <1>1, <1>4, <2>1 DEF Crash, Requeue, Return, GoTo, Owes
<1>5. ASSUME ~Charge(w), ~SaveWf(w), ~SaveRt(w), ~Unlock(w), ~Crash(w),
             ~ClockRuns(w), ~ClockSkips(w)
      PROVE  Outcome
  <2>1. UNCHANGED <<ran, charged, credits>>
    BY <1>5 DEF history, Handler, Receive, IsLocked, Lock, LoadWf, LoadRt, ClockWaits,
                ClockTerminates, ClockRuns, ClockSkips, SaveWf, SaveRt, Unlock, Charge,
                EnqueueNext, Ack, Ask, ReleaseAsked, Terminate, Finish, Link, AckEnded,
                EnqueueEnded, Crash, Throws, Requeue, Return, DoneReturn, Done, GoTo
  <2>2. ~Owes(w) /\ ~Owes(w)'
    BY <1>1, <1>5 DEF worker, Owes, Handler, Receive, IsLocked, Lock, LoadWf, LoadRt,
                      ClockWaits, ClockTerminates, ClockRuns, ClockSkips, SaveWf, SaveRt,
                      Unlock, Charge, EnqueueNext, Ack, Ask, ReleaseAsked, Terminate,
                      Finish, Link, AckEnded, EnqueueEnded, Crash, Throws, Requeue, Return,
                      DoneReturn, Done, GoTo
  <2>3. QED
    BY <2>1, <2>2
<1>6. Outcome
  <2>1. ClockRuns(w) \/ ClockSkips(w) => Outcome
    OBVIOUS
  <2> HIDE DEF Outcome
  <2>2. QED
    BY <1>2, <1>3, <1>4, <1>5, <2>1
<1>7. UNCHANGED drawn
  BY DEF history, Handler, Receive, IsLocked, Lock, LoadWf, LoadRt, ClockWaits,
         ClockTerminates, ClockRuns, ClockSkips, SaveWf, SaveRt, Unlock, Charge,
         EnqueueNext, Ack, Ask, ReleaseAsked, Terminate, Finish, Link, AckEnded,
         EnqueueEnded, Crash, Throws, Requeue, Return, DoneReturn, Done, GoTo
<1>8. QED
  BY <1>6, <1>7

\* What happens elsewhere leaves a worker that owes its balance, or is seen to empty it.
LEMMA BalanceStep ==
    ASSUME TypeInv, [Next]_vars, ~\E w \in Workers : Handler(w) \/ Crash(w)
    PROVE  /\ drawn \subseteq drawn'
           /\ \A w \in Workers : Owes(w) /\ credits > 0 => credits' > 0 \/ at[w] \in drawn'
<1>1. CASE Elsewhere
  <2>1. /\ credits' \in Balances
        /\ drawn' = drawn \cup {at[w] : w \in {v \in Workers : Owes(v) /\ credits' = 0}}
    BY <1>1 DEF Elsewhere
  <2>2. credits' = 0 \/ credits' > 0
    BY <2>1, WorkerAssumption
  <2>3. QED
    BY <2>1, <2>2
<1>2. CASE ~Elsewhere
  <2>1. UNCHANGED <<credits, drawn>>
    BY <1>2 DEF Next, vars, history, Cleanup, CleanupReceive, CleanupDelete, LockExpires,
                CheckInitiate, CheckAnswer, Request, Initiate, SaveAnswer, EnqueueRequest
  <2>2. QED
    BY <2>1
<1>3. QED
  BY <1>1, <1>2

LEMMA EvenStep ==
    ASSUME TypeInv, OneMessage, OrderInv, Agreed, Even, Counted', [Next]_vars, windows' = {}
    PROVE  Even'
<1>1. ASSUME NEW w \in Workers, Handler(w) \/ Crash(w)
      PROVE  Even'
  <2>1. /\ ran \in [Nodes -> Nat] /\ charged \in [Nodes -> Nat] /\ (wf' # None => wf # None)
        /\ UNCHANGED drawn
    BY <1>1, RowsGone, OwesStep DEF TypeInv, TypeOK
  <2>2. \A v \in Workers \ {w} : (Owes(v)' <=> Owes(v)) /\ at'[v] = at[v]
    BY <1>1, OthersStill DEF Still, Owes
  <2>3. \A v \in Workers : Owes(v) => Bears(v)
    BY BearsHere DEF Owes
  <2>4. CASE ClockRuns(w)
    <3>1. /\ pc[w] = "clock" /\ ~Owes(w) /\ at'[w] = Turn(w) /\ UNCHANGED <<charged, credits>>
      BY <2>4, ClockMarks DEF Owes
    <3>2. \A v \in Workers : ~Owes(v)
      BY <2>3, <3>1, BearsHere DEF OneMessage
    <3>3. credits > 0 /\ ran' = [ran EXCEPT ![Turn(w)] = @ + 1] /\ Turn(w) \in Nodes
      BY <2>4, TurnFacts DEF ClockRuns
    <3>4. wf # None => \A n \in Nodes : ran[n] = charged[n] \/ Drawn(n)
      BY <3>2 DEF Even
    <3>5. Owes(w)' /\ \A v \in Workers \ {w} : ~Owes(v)'
      BY <2>2, <2>4, <3>2, ClockMarks DEF Owes
    <3> HIDE DEF Owes
    <3>6. ran[Turn(w)] = 0
      <4>1. ran'[Turn(w)] <= 1 /\ ran'[Turn(w)] = ran[Turn(w)] + 1 /\ ran[Turn(w)] \in Nat
        BY <2>1, <3>3 DEF Counted
      <4>2. QED
        BY <4>1
    <3>7. wf' # None => ran'[Turn(w)] = charged'[Turn(w)] + 1
      <4>1. wf # None => ran[Turn(w)] = charged[Turn(w)]
        <5>1. charged[Turn(w)] \in Nat
          BY <2>1, <3>3
        <5>2. QED
          BY <3>3, <3>4, <3>6, <5>1 DEF Drawn
      <4>2. QED
        BY <2>1, <3>1, <3>3, <4>1
    <3>8. wf' # None => \A n \in Nodes : n = Turn(w) \/ ran'[n] = charged'[n] \/ Drawn(n)'
      BY <2>1, <3>1, <3>3, <3>4 DEF Drawn
    <3>9. QED
      BY <3>1, <3>3, <3>5, <3>7, <3>8 DEF Even
  <2>5. CASE Charge(w) /\ ~Owes(w)' /\ charged' = [charged EXCEPT ![at[w]] = @ + 1]
    <3>1. Owes(w) /\ UNCHANGED <<wf, ran>> /\ at[w] \in Nodes
      BY <2>5 DEF Charge, Owes, Throws, rows, history, TypeInv, Loaded
    <3>2. \A v \in Workers \ {w} : ~Owes(v)
      BY <2>3, <3>1 DEF OneMessage
    <3>3. wf # None => /\ ran[at[w]] = charged[at[w]] + 1
                       /\ \A n \in Nodes : n = at[w] \/ ran[n] = charged[n] \/ Drawn(n)
      BY <3>1, <3>2 DEF Even
    <3>4. wf # None => \A n \in Nodes : ran[n] = charged'[n] \/ Drawn(n)'
      BY <2>1, <2>5, <3>1, <3>3 DEF Drawn
    <3>5. \A v \in Workers : ~Owes(v)'
      BY <2>2, <2>5, <3>2
    <3>6. QED
      BY <3>1, <3>4, <3>5 DEF Even
  <2>6. CASE UNCHANGED <<ran, charged, credits>> /\ Owes(w) /\ ~Owes(w)' /\ ~(credits > 0)
    <3>1. at[w] \in drawn /\ (wf # None => ran[at[w]] = charged[at[w]] + 1)
      BY <2>6 DEF Even
    <3>2. wf # None => \A n \in Nodes : \/ ran[n] = charged[n] \/ Drawn(n)
                                        \/ \E v \in Workers \ {w} : Owes(v) /\ at[v] = n
      BY <3>1 DEF Even, Drawn
    <3>3. \A n \in Nodes : Drawn(n)' <=> Drawn(n)
      BY <2>1, <2>6 DEF Drawn
    <3>4. QED
      BY <2>1, <2>2, <2>6, <3>2, <3>3 DEF Even
  <2>7. CASE UNCHANGED <<ran, charged, credits>> /\ ~Owes(w) /\ ~Owes(w)'
    BY <2>1, <2>2, <2>7 DEF Even, Drawn
  <2>8. CASE UNCHANGED <<ran, charged, credits, at[w]>> /\ Owes(w) /\ Owes(w)'
    BY <2>1, <2>2, <2>8 DEF Even, Drawn
  <2>9. CASE UNCHANGED <<ran, charged, credits>> /\ wf' = None /\ ~Owes(w)'
    BY <2>1, <2>2, <2>9 DEF Even
  <2>10. QED
    BY <1>1, <2>4, <2>5, <2>6, <2>7, <2>8, <2>9, OwesStep, NoSkips
<1>2. ASSUME ~\E w \in Workers : Handler(w) \/ Crash(w)
      PROVE  Even'
  <2>1. UNCHANGED <<worker, ran, charged>> /\ (wf' # None => wf # None)
    BY <1>2, AsideStep DEF Next
  <2>2. \A w \in Workers : (Owes(w)' <=> Owes(w)) /\ at'[w] = at[w]
    BY <2>1 DEF worker, Owes
  <2>3. \A n \in Nodes : Drawn(n) => Drawn(n)'
    BY <1>2, <2>1, BalanceStep DEF Drawn
  <2>4. \A w \in Workers : Owes(w)' => credits' > 0 \/ at'[w] \in drawn'
    BY <1>2, <2>2, BalanceStep DEF Even
  <2>5. QED
    BY <2>1, <2>2, <2>3, <2>4 DEF Even
<1>3. QED
  BY <1>1, <1>2

\* The inductive invariant of ExactlyOnce, next to the others.
OnceInv == RanInv /\ PaidInv /\ EvenInv

LEMMA OnceStep ==
    ASSUME OneAtATime, TypeInv, RoundInv, OrderInv, GoodInv, OnceInv, [Next]_vars
    PROVE  OnceInv'
<1>1. windows \subseteq windows' /\ (OneRound' => OneRound /\ OneMessage /\ Turned)
  BY RoundsKeep DEF RoundInv, OneRound
<1>2. RanInv'
  BY <1>1, CountedStep DEF OnceInv, RanInv
<1>3. PaidInv'
  BY <1>1, PaidStep DEF OnceInv, PaidInv
<1>4. EvenInv'
  <2> SUFFICES ASSUME windows' = {} PROVE Even'
    BY DEF EvenInv
  <2>1. windows = {} /\ OneRound'
    BY <1>1 DEF OneRound
  <2>2. OneMessage /\ Agreed /\ Even /\ Counted'
    BY <1>1, <1>2, <2>1 DEF OnceInv, EvenInv, GoodInv, RanInv
  <2>3. QED
    BY <2>2, EvenStep
<1>5. QED
  BY <1>2, <1>3, <1>4 DEF OnceInv

LEMMA InitOnce == Init => OnceInv
<1> SUFFICES ASSUME Init PROVE Counted /\ Paid /\ Even
  BY DEF OnceInv, RanInv, PaidInv, EvenInv
<1>1. Ran = {} /\ Charged = {}
  BY DEF Init, Ran, Charged
<1>2. QED
  BY <1>1 DEF Init, Counted, Knows, Paid, Bill, Even, Owes

\* A node completes once and is paid for once, unless a crash came where it says; and in
\* the end what ran was paid for, unless a worker crashed, or others had used up the balance
\* between the clock and the charge of that node.
THEOREM RunsOnce == ASSUME OneAtATime PROVE Spec => []ExactlyOnce
<1>1. TypeInv /\ OnceInv => ExactlyOnce
  <2> SUFFICES ASSUME TypeInv, OnceInv PROVE ExactlyOnce
    OBVIOUS
  <2>1. ASSUME NoMessage, wf # None, windows = {}, NEW n \in Nodes
        PROVE  ran[n] = charged[n] \/ (n \in drawn /\ ran[n] = charged[n] + 1)
    BY <2>1 DEF OnceInv, EvenInv, Even, Owes, NoMessage, Drawn
  <2>2. QED
    BY <2>1 DEF OnceInv, RanInv, Counted, PaidInv, Paid, ExactlyOnce
<1>2. QED
  BY InitTypes, TypesStep, InitRound, RoundStep, InitOrder, OrderStep, InitGood, GoodStep,
     InitOnce, OnceStep, <1>1, PTL DEF Spec
===============================================================================
