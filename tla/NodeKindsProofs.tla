----------------------------- MODULE NodeKindsProofs -----------------------------
(***************************************************************************)
(* Theorems about NodeKinds, for any names, any workflows that are trees   *)
(* of nodes, any secrets, and any number of reruns, attempts and faults.   *)
(***************************************************************************)
EXTENDS NodeKinds, TLAPS

Elems(s) == {s[i] : i \in DOMAIN s}

\* The nodes that have run or are to run.
Reached == executed \cup Elems(queue)

\* A run works on the head of the queue, and names children of it.
Working ==
    pc # "idle" =>
        /\ Run > 0 /\ queue # <<>> /\ Current = Head(queue)
        /\ \/ chosen \in {<<>>, Node.next}
           \/ \E i \in DOMAIN Node.next : chosen = <<Node.next[i]>>

\* Where a run stands says of what kind its node is.
Stands ==
    /\ pc \in {"account", "quote", "quoted", "allowance", "approve", "build", "built", "sign",
               "signed", "submit", "placed", "status", "poll", "reveal", "result"}
           => Node.kind = "swap"
    /\ pc = "send" => Node.kind \in {"transfer", "contract", "wallet"}
    /\ pc = "wait" => Node.kind = "transfer"
    /\ pc = "answer" => Node.kind \in {"http", "contract", "wallet"}

\* Every node that was reached, but the entry, is the child of one that ran; it is either
\* done or in the queue, where it is once.
Grown ==
    /\ \A i, j \in DOMAIN queue : queue[i] = queue[j] => i = j
    /\ Elems(queue) \cap executed = {}
    /\ \A n \in Reached \ {1} : \E m \in executed : n \in Elems(flow[m].next)

\* A run is under way, torn, or its node is done; no node has two runs that are not torn.
Settled ==
    /\ \A r \in 1..Run : r \in torn \/ ran[r] \in executed \/ (r = Run /\ pc # "idle")
    /\ \A q, r \in 1..Run : q < r /\ ran[q] = ran[r] => q \in torn
    /\ pc # "idle" => Run \notin torn
    /\ torn \subseteq 1..Run

\* A run that is to come has done nothing.
Early == \A r \in Runs : r > Run => sent[r] = "none" /\ order[r] = "none"

\* What the run r has done for its node to be done.
Did(r) ==
    /\ flow[ran[r]].kind \in {"http", "contract"} => sent[r] # "none"
    /\ flow[ran[r]].kind = "wallet" /\ flow[ran[r]].faucet => sent[r] # "none"
    /\ flow[ran[r]].kind = "transfer" => sent[r] \in {"mined", "reverted"}
    /\ flow[ran[r]].kind = "swap" => order[r] # "none"

\* What a run has done by the time it stands where it does.
Done ==
    /\ pc \in {"answer", "wait"} => sent[Run] # "none"
    /\ pc \in {"placed", "status", "poll", "reveal", "result"} => order[Run] # "none"
    /\ pc = "save" => Did(Run)
    /\ \A n \in executed : \E r \in (1..Run) \ torn : ran[r] = n /\ Did(r)

\* What a run has not written is as it was stored.
Apart ==
    /\ \A n \in Names \ mixed : state[n] = written[n]
    /\ pc = "start" => work = state
    /\ pc # "idle" => \A n \in Names : \/ n \in Named(Node) \cup Besides(Node, state)
                                       \/ work[n] = state[n]
    /\ pc = "save" /\ Node.kind = "if" => chosen = Branch(Node, Holds(Node, state))

\* An if node that decided is done.
Decided == \A d \in decided : d[1] \in executed

\* An order that is placed, or about to be.
Covered == \A r \in (Unfilled \cup Placing) \ unfunded : allowance = "enough" \/ approving

-------------------------------------------------------------------------------
(***************************************************************************)
(* Types.                                                                  *)
(***************************************************************************)

\* What a run works on.
LEMMA NodeFacts ==
    ASSUME TypeOK, pc # "idle"
    PROVE  /\ Run \in Runs /\ Run \in Nat /\ Run > 0
           /\ Current \in DOMAIN flow
           /\ flow \in Seq(Nodes) /\ Node \in Nodes
           /\ Node.out \in Names /\ Node.right \in Values /\ Node.sets \in States
           /\ Node.next \in Seq(DOMAIN flow)
           /\ \A i \in DOMAIN Node.next : Node.next[i] \in DOMAIN flow
<1>1. Run \in Nat /\ Run > 0 /\ Current \in DOMAIN flow
  BY DEF TypeOK, Run, Current
<1>2. flow \in Workflows /\ flow \in Seq(Nodes)
  BY NodeKindsAssumption DEF TypeOK
<1>3. Run \in Runs
  BY <1>1, <1>2, NodeKindsAssumption DEF TypeOK, Runs
<1>4. Node \in Nodes
  BY <1>1, <1>2 DEF Node
<1>5. \A i \in DOMAIN Node.next : Node.next[i] \in DOMAIN flow
  BY <1>1, <1>2, NodeKindsAssumption DEF Node
<1>6. Node.next \in Seq(Nat)
  BY <1>4 DEF Nodes
<1>7. Node.next \in Seq(DOMAIN flow)
  BY <1>5, <1>6
<1>8. Node.out \in Names /\ Node.right \in Values /\ Node.sets \in States
  BY <1>4 DEF Nodes, States
<1>9. QED
  BY <1>1, <1>2, <1>3, <1>4, <1>5, <1>7, <1>8

LEMMA InitType == Init => TypeOK
<1> SUFFICES ASSUME Init PROVE TypeOK
  OBVIOUS
<1>1. flow \in Workflows /\ flow \in Seq(Nodes) /\ flow # <<>> /\ Len(flow) \in Nat
  BY NodeKindsAssumption DEF Init
<1>2. 1 \in DOMAIN flow /\ MaxReruns \in Nat
  BY <1>1, NodeKindsAssumption
<1>3. <<1>> \in Seq(DOMAIN flow) /\ <<>> \in Seq(DOMAIN flow)
  BY <1>2
<1>4. state \in States /\ work \in States /\ written \in States
  BY DEF Init, States
<1>5. Run <= Len(flow) + MaxReruns
  BY <1>1, <1>2 DEF Init, Run
<1>6. /\ sent \in [Runs -> {"none", "sent", "mined", "reverted"}]
      /\ order \in [Runs -> {"none", "live", "expired"}]
      /\ {secrets, ready, revealed, refused} \subseteq [Runs -> SUBSET Parts]
  BY DEF Init
<1>7. allowance \in {"none", "short", "enough"}
  BY DEF Init
<1>8. QED
  BY <1>1, <1>3, <1>4, <1>5, <1>6, <1>7 DEF Init, TypeOK, Pcs

\* Steps of a run that go on to another place, and may store a value in its copy.
LEMMA GoesType ==
    ASSUME TypeOK, NEW here \in Pcs, NEW there \in Pcs, here # "idle", Goes(here, there)
    PROVE  TypeOK'
BY DEF TypeOK, Goes, GoTo, stored, copy, calls, chain, orders, history, excuses, past, Run, Runs

LEMMA StoresType ==
    ASSUME TypeOK, NEW here \in Pcs, NEW value \in Values, here # "idle", Stores(here, value)
    PROVE  TypeOK'
<1>1. work' \in States
  BY NodeFacts DEF TypeOK, Stores, States
<1>2. QED
  BY <1>1 DEF TypeOK, Stores, GoTo, stored, calls, chain, orders, history, excuses, past, Run,
              Runs, Pcs

LEMMA SendsType ==
    ASSUME TypeOK, NEW here \in Pcs, NEW there \in Pcs, here # "idle", Sends(here, there)
    PROVE  TypeOK'
<1>1. sent' \in [Runs -> {"none", "sent", "mined", "reverted"}]
  BY NodeFacts DEF TypeOK, Sends
<1>2. QED
  BY <1>1 DEF TypeOK, Sends, GoTo, stored, copy, calls, orders, history, excuses, past, Run,
              Runs

LEMMA MergedType ==
    ASSUME NEW s \in States, NEW n \in Names PROVE Merged(s, n) \in States
<1>1. Carried \in States /\ "result" \in Names
  BY NodeKindsAssumption
<1>2. UpdatePartialState(s, Carried) \in States
  BY <1>1 DEF UpdatePartialState, States
<1>3. QED
  BY <1>1, <1>2 DEF Merged, States

LEMMA ProcessedType ==
    ASSUME NEW node \in Nodes, NEW s \in States PROVE Processed(node, Resolved(node, s)) \in Values
<1>1. node.right \in Values
  BY DEF Nodes
<1>2. \A v : Text(v) \in Values
  BY DEF Text, Values
<1>3. Resolved(node, s) \in Values
  <2>1. CASE node.left = None
    BY <1>1, <2>1 DEF Resolved
  <2>2. CASE node.left # None
    <3>1. s[node.left] \in Values \cup {None}
      BY <2>2 DEF Nodes, States
    <3>2. QED
      BY <1>2, <2>2, <3>1 DEF Resolved, GetGlobalValue, Values
  <2>3. QED
    BY <2>1, <2>2
<1>4. QED
  BY <1>3 DEF Processed, Number, Values

\* What the nodes that compute leave alone.
Computes == Variable \/ Code \/ IfElse

LEMMA ComputesFacts ==
    ASSUME Computes
    PROVE  /\ pc = "start" /\ pc' = "save" /\ Node.kind \in {"variable", "code", "if"}
           /\ UNCHANGED <<flow, stored, ran, calls, chain, orders, history, faults>>
           /\ Node.kind # "if" => chosen' = chosen
BY DEF Computes, Variable, Code, IfElse, At, GoTo

LEMMA ComputesType == ASSUME TypeOK, Computes PROVE TypeOK'
<1>1. pc = "start" /\ pc' = "save"
  BY ComputesFacts
<1>2. /\ Node \in Nodes /\ Node.out \in Names /\ Node.right \in Values /\ Node.sets \in States
      /\ Node.next \in Seq(DOMAIN flow)
      /\ \A i \in DOMAIN Node.next : Node.next[i] \in DOMAIN flow
  BY <1>1, NodeFacts
<1>3. work \in States
  BY DEF TypeOK
<1>4. work' \in States
  <2>1. CASE Variable
    <3>1. PICK n \in Names : work' = SetGlobalValue(Merged(work, n), Node.out,
                                        Processed(Node, Resolved(Node, Merged(work, n))))
      BY <2>1 DEF Variable
    <3>2. Merged(work, n) \in States
      BY <1>3, MergedType
    <3>3. Processed(Node, Resolved(Node, Merged(work, n))) \in Values
      BY <1>2, <3>2, ProcessedType
    <3>4. QED
      BY <1>2, <3>1, <3>2, <3>3 DEF SetGlobalValue, States
  <2>2. CASE Code
    <3>1. UpdatePartialState(work, Node.sets) \in States
      BY <1>2, <1>3 DEF UpdatePartialState, States
    <3>2. NormalizeOutput(Node.right) \in Values
      BY DEF NormalizeOutput, Values
    <3>3. QED
      BY <1>2, <2>2, <3>1, <3>2 DEF Code, States
  <2>3. CASE IfElse
    BY <1>2, <1>3, <2>3 DEF IfElse, States, Values
  <2>4. QED
    BY <2>1, <2>2, <2>3 DEF Computes
<1>5. chosen' \in Seq(DOMAIN flow)
  <2>1. CASE IfElse
    <3>1. chosen' = Branch(Node, Holds(Node, work))
      BY <2>1 DEF IfElse
    <3>2. \A i \in DOMAIN Node.next : <<Node.next[i]>> \in Seq(DOMAIN flow)
      BY <1>2
    <3>3. <<>> \in Seq(DOMAIN flow)
      OBVIOUS
    <3>4. Len(Node.next) >= 2 => 1 \in DOMAIN Node.next /\ 2 \in DOMAIN Node.next
      BY <1>2
    <3>5. QED
      BY <1>2, <3>1, <3>2, <3>3, <3>4 DEF Branch
  <2>2. CASE ~IfElse
    BY <2>2 DEF Computes, Variable, Code, TypeOK
  <2>3. QED
    BY <2>1, <2>2
<1>6. QED
  BY <1>1, <1>4, <1>5, ComputesFacts
     DEF TypeOK, stored, calls, chain, orders, history, excuses, past, Run, Runs, Pcs

LEMMA BeginType == ASSUME TypeOK, Begin PROVE TypeOK'
<1>1. queue \in Seq(DOMAIN flow) /\ queue # <<>> /\ ran \in Seq(DOMAIN flow)
  BY DEF TypeOK, Begin
<1>2. Head(queue) \in DOMAIN flow
  BY <1>1
<1>3. ran' \in Seq(DOMAIN flow) /\ Len(ran') = Len(ran) + 1
  BY <1>1, <1>2 DEF Begin
<1>4. Len(flow) \in Nat /\ MaxReruns \in Nat
  BY NodeKindsAssumption DEF TypeOK
<1>5. Run' <= Len(flow) + MaxReruns /\ Run' > 0
  BY <1>1, <1>3, <1>4 DEF Begin, Run, Runs
<1>6. <<>> \in Seq(DOMAIN flow)
  OBVIOUS
<1>7. QED
  BY <1>3, <1>5, <1>6
     DEF TypeOK, Begin, GoTo, stored, chain, orders, history, excuses, past, Runs, Pcs

LEMMA SaveType == ASSUME TypeOK, Working, Save PROVE TypeOK'
<1>1. /\ pc = "save" /\ queue # <<>> /\ queue \in Seq(DOMAIN flow) /\ chosen \in Seq(DOMAIN flow)
      /\ Current \in DOMAIN flow /\ Node.next \in Seq(DOMAIN flow) /\ Node \in Nodes
  BY NodeFacts DEF TypeOK, Working, Save
<1>2. Tail(queue) \in Seq(DOMAIN flow) /\ Scheduled(Node, chosen) \in Seq(DOMAIN flow)
  BY <1>1 DEF Scheduled
<1>3. queue' \in Seq(DOMAIN flow)
  BY <1>2 DEF Save
<1>4. written' \in States
  BY DEF TypeOK, Save, States
<1>5. mixed' \subseteq Names
  BY NodeKindsAssumption DEF TypeOK, Save, Besides
<1>6. decided' \subseteq (DOMAIN flow) \X BOOLEAN
  <2>1. Holds(Node, written) \in BOOLEAN
    BY DEF Holds
  <2>2. <<Current, Holds(Node, written)>> \in (DOMAIN flow) \X BOOLEAN
    BY <1>1, <2>1
  <2>3. QED
    BY <2>2 DEF Save, TypeOK
<1>7. executed' \subseteq DOMAIN flow
  BY <1>1 DEF Save, TypeOK
<1>8. QED
  BY <1>3, <1>4, <1>5, <1>6, <1>7
     DEF TypeOK, Save, GoTo, copy, calls, chain, orders, excuses, Run, Runs, Pcs

\* Steps of a swap that do not only go on.
Trades ==
    \/ Quote \/ Approve \/ AllowanceUnread \/ ApproveFails
    \/ SubmitOrder \/ (\E h \in {"hash", "salt", "none"} : Answer(h))
    \/ Status \/ StatusFails \/ PollAgain \/ PollFails
    \/ (\E p \in Parts : SubmitSecret(p) \/ SecretFails(p))

LEMMA TradesFacts ==
    ASSUME Trades
    PROVE  /\ pc \in {"quoted", "allowance", "approve", "submit", "placed", "status", "poll",
                      "reveal"}
           /\ pc' \in {"allowance", "approve", "build", "placed", "status", "poll", "reveal",
                       "result"}
           /\ pc \in {"quoted", "allowance", "approve"} => pc' \in {"allowance", "approve", "build"}
           /\ IF pc = "submit" THEN pc' = "placed" /\ order' = [order EXCEPT ![Run] = "live"]
              ELSE order' = order
           /\ UNCHANGED <<flow, stored, copy, sent, allowance, torn, past>>
<1>1. ASSUME NEW tries, NEW here \in {"status", "poll"}, NEW there \in {"idle", "result"},
             Again(here, tries, there), there = "idle" => attempt + 1 < tries
      PROVE  pc = here /\ pc' \in {"status", "poll", "result"}
  BY <1>1 DEF Again, GoTo
<1>2. CASE Quote \/ Approve \/ AllowanceUnread \/ ApproveFails \/ SubmitOrder
  BY <1>2 DEF Quote, Approves, Approve, CheckTokenAllowance, ApproveToken, AllowanceUnread, ApproveFails,
              SubmitOrder, GoTo, chain, orders, history, excuses
<1>3. CASE (\E h \in {"hash", "salt", "none"} : Answer(h)) \/ Status
  BY <1>3 DEF Answer, Status, GoTo, chain, orders, history, excuses
<1>4. CASE StatusFails \/ PollAgain \/ PollFails
  <2>1. UNCHANGED <<flow, stored, copy, sent, allowance, order, torn, past>>
    BY <1>4 DEF StatusFails, PollAgain, PollFails, chain, orders, history, excuses
  <2>2. pc \in {"status", "poll"} /\ pc' \in {"status", "poll", "result"}
    BY <1>1, <1>4 DEF StatusFails, PollAgain, PollFails
  <2>3. QED
    BY <2>1, <2>2
<1>5. CASE \E p \in Parts : SubmitSecret(p) \/ SecretFails(p)
  BY <1>5 DEF SubmitSecret, SecretFails, GoTo, chain, orders, history, excuses
<1>6. QED
  BY <1>2, <1>3, <1>4, <1>5 DEF Trades

LEMMA TradesType == ASSUME TypeOK, Trades PROVE TypeOK'
<1>1. /\ pc # "idle" /\ pc' \in Pcs /\ pc' # "idle"
      /\ UNCHANGED <<flow, stored, copy, sent, allowance, torn, past>>
  BY TradesFacts DEF Pcs
<1>2. Run \in Runs
  BY <1>1, NodeFacts
<1>3. Runs' = Runs /\ Run' = Run
  BY <1>1 DEF Runs, Run, copy
<1>4. /\ secrets \in [Runs -> SUBSET Parts] /\ ready \in [Runs -> SUBSET Parts]
      /\ revealed \in [Runs -> SUBSET Parts] /\ refused \in [Runs -> SUBSET Parts]
  BY DEF TypeOK
<1>5. attempt' \in Nat /\ faults' \in Nat
  BY DEF TypeOK, Trades, Quote, Approve, CheckTokenAllowance, ApproveToken, AllowanceUnread,
         ApproveFails, SubmitOrder, Answer, Status, StatusFails, PollAgain, PollFails, Again,
         SubmitSecret, SecretFails, Fault, calls, history, chain, orders
<1>6. handle' \in {"none", "hash", "salt"}
  BY DEF TypeOK, Trades, Quote, Approve, CheckTokenAllowance, ApproveToken, AllowanceUnread,
         ApproveFails, SubmitOrder, Answer, Status, StatusFails, PollAgain, PollFails,
         SubmitSecret, SecretFails, calls
<1>7. todo' \subseteq Parts /\ approving' \in BOOLEAN
  BY DEF TypeOK, Trades, Quote, GenerateSecrets, Approve, CheckTokenAllowance, ApproveToken,
         AllowanceUnread, ApproveFails, SubmitOrder, Answer, Status, StatusFails, PollAgain,
         PollFails, SubmitSecret, SecretFails, calls, chain
<1>8. order' \in [Runs -> {"none", "live", "expired"}]
  BY <1>2 DEF TypeOK, Trades, Quote, Approve, CheckTokenAllowance, ApproveToken, AllowanceUnread,
         ApproveFails, SubmitOrder, Answer, Status, StatusFails, PollAgain, PollFails,
         SubmitSecret, SecretFails, orders
<1>9. /\ secrets' \in [Runs -> SUBSET Parts] /\ ready' \in [Runs -> SUBSET Parts]
      /\ revealed' \in [Runs -> SUBSET Parts] /\ refused' \in [Runs -> SUBSET Parts]
  BY <1>2, <1>4
     DEF Trades, Quote, GenerateSecrets, Approve, CheckTokenAllowance, ApproveToken,
         AllowanceUnread, ApproveFails, SubmitOrder, Answer, Status, StatusFails, PollAgain,
         PollFails, SubmitSecret, SecretFails, orders
<1>10. missed' \subseteq Runs /\ unfunded' \subseteq Runs
  BY <1>2 DEF TypeOK, Trades, Quote, Approve, CheckTokenAllowance, ApproveToken, AllowanceUnread,
         ApproveFails, SubmitOrder, Answer, Status, StatusFails, PollAgain, PollFails,
         SubmitSecret, SecretFails, history, excuses
<1>11. QED
  BY <1>1, <1>3, <1>5, <1>6, <1>7, <1>8, <1>9, <1>10 DEF TypeOK, stored, copy, past

\* The runs that end without a trace in the rows.
Ends == NodeThrows \/ Throws \/ Crash \/ StatusThrows

LEMMA EndsFacts ==
    ASSUME Ends
    PROVE  /\ pc # "idle" /\ Dies
           /\ UNCHANGED <<flow, stored, copy, calls, chain, orders, missed, unfunded, past>>
           /\ faults' = faults \/ faults' = faults + 1
BY DEF Ends, NodeThrows, Throws, Crash, StatusThrows, Fault

LEMMA EndsType == ASSUME TypeOK, Ends PROVE TypeOK'
<1>1. Run \in Runs
  BY EndsFacts, NodeFacts
<1>2. torn' \subseteq Runs
  BY <1>1, EndsFacts DEF TypeOK, Dies
<1>3. Runs' = Runs /\ Run' = Run /\ pc' = "idle" /\ faults' \in Nat
  BY EndsFacts DEF TypeOK, Dies, GoTo, Run, Runs, copy
<1>4. QED
  BY <1>2, <1>3, EndsFacts DEF TypeOK, stored, copy, calls, chain, orders, past, Pcs

LEMMA WorldFacts ==
    ASSUME World
    PROVE  UNCHANGED <<flow, stored, running, secrets, revealed, refused, torn, missed, past>>
BY DEF World, Mine, MineApproval, ApprovalReverts, Expire, Deploy, orders, history, excuses

LEMMA WorldType == ASSUME TypeOK, World PROVE TypeOK'
<1>1. Runs' = Runs /\ Run' = Run /\ \A r \in 1..Run : r \in Runs
  BY NodeKindsAssumption, WorldFacts DEF TypeOK, Runs, Run, running, copy
<1>2. sent' \in [Runs -> {"none", "sent", "mined", "reverted"}]
  BY DEF TypeOK, World, Mine, MineApproval, ApprovalReverts, Expire, Deploy, chain
<1>3. allowance' \in {"none", "short", "enough"} /\ approving' \in BOOLEAN
  BY DEF TypeOK, World, Mine, MineApproval, ApprovalReverts, Expire, Deploy, chain
<1>4. order' \in [Runs -> {"none", "live", "expired"}]
  BY DEF TypeOK, World, Mine, MineApproval, ApprovalReverts, Expire, Deploy, orders
<1>5. ready' \in [Runs -> SUBSET Parts]
  <2>1. ready \in [Runs -> SUBSET Parts]
    BY DEF TypeOK
  <2>2. QED
    BY <2>1 DEF World, Mine, MineApproval, ApprovalReverts, Expire, Deploy, orders
<1>6. unfunded' \subseteq Runs
  <2>1. Placing \subseteq Runs
    BY NodeFacts DEF Placing
  <2>2. QED
    BY <2>1 DEF TypeOK, World, Mine, MineApproval, ApprovalReverts, Expire, Deploy, history,
                excuses, Unfilled
<1>7. faults' \in Nat
  BY DEF TypeOK, World, Mine, MineApproval, ApprovalReverts, Expire, Deploy, Fault
<1>8. QED
  BY <1>1, <1>2, <1>3, <1>4, <1>5, <1>6, <1>7, WorldFacts
     DEF TypeOK, stored, running, copy, calls, past

\* Steps that only go on, that store a result, and that send something.
Walk ==
    \/ Trigger \/ CdpTransaction \/ WaitForTransaction \/ CdpSmartContract \/ Confirmed
    \/ CdpSign \/ (CdpWallet /\ Node.faucet) \/ ResolveToken \/ CreateOrGetAccount \/ GetQuote
    \/ BuildEvmOrder \/ CheckMaker \/ SignTypedData \/ CheckSignature \/ Poll
Note == HttpAnswer \/ CoinGekko \/ (CdpWallet /\ ~Node.faucet) \/ FaucetAnswers \/ Result
Post == Http \/ RequestFaucet \/ TransferWithSmartAccount \/ InvokeContract

\* From where to where a step of Walk goes, and for which kinds of nodes.
Way(here, there) ==
    \/ here = "start" /\ there = "save" /\ Node.kind \in {"trigger", "sign"}
    \/ here = "start" /\ there = "send" /\ Node.kind \in {"transfer", "contract", "wallet"}
    \/ here = "wait" /\ there = "save" /\ sent[Run] \in {"mined", "reverted"}
    \/ here = "answer" /\ there = "save" /\ Node.kind = "contract"
    \/ here = "start" /\ there = "account" /\ Node.kind = "swap"
    \/ here = "account" /\ there = "quote"
    \/ here = "quote" /\ there = "quoted"
    \/ here = "build" /\ there = "built"
    \/ here = "built" /\ there = "sign"
    \/ here = "sign" /\ there = "signed"
    \/ here = "signed" /\ there = "submit"
    \/ here = "poll" /\ there = "reveal"

LEMMA WalkFacts == ASSUME Walk PROVE \E here, there \in Pcs : Way(here, there) /\ Goes(here, there)
<1> USE DEF Pcs, At, Way
<1>1. CASE Trigger \/ CdpSign \/ CdpTransaction \/ CdpSmartContract \/ (CdpWallet /\ Node.faucet)
  BY <1>1 DEF Trigger, CdpSign, CdpTransaction, CdpSmartContract, CdpWallet
<1>2. CASE WaitForTransaction \/ Confirmed
  BY <1>2 DEF WaitForTransaction, Confirmed
<1>3. CASE ResolveToken \/ CreateOrGetAccount \/ GetQuote \/ Poll
  BY <1>3 DEF ResolveToken, CreateOrGetAccount, GetQuote, Poll
<1>4. CASE BuildEvmOrder \/ CheckMaker \/ SignTypedData \/ CheckSignature
  BY <1>4 DEF BuildEvmOrder, CheckMaker, SignTypedData, CheckSignature
<1>5. QED
  BY <1>1, <1>2, <1>3, <1>4 DEF Walk

LEMMA NoteFacts ==
    ASSUME Note
    PROVE  \E here \in {"start", "answer", "result"} :
               /\ Stores(here, "object")
               /\ here = "start" => \/ Node.kind = "price"
                                    \/ Node.kind = "wallet" /\ ~Node.faucet
               /\ here = "answer" => Node.kind \in {"http", "wallet"}
<1>1. CASE HttpAnswer \/ FaucetAnswers
  BY <1>1 DEF HttpAnswer, FaucetAnswers, At
<1>2. CASE CoinGekko
  BY <1>2 DEF CoinGekko, At
<1>3. CASE Result
  BY <1>3 DEF Result
<1>4. CASE CdpWallet /\ ~Node.faucet
  <2>1. Node.kind = "wallet" /\ ~Node.faucet /\ Stores("start", "object")
    BY <1>4 DEF CdpWallet, At
  <2>2. QED
    BY <2>1
<1>5. QED
  BY <1>1, <1>2, <1>3, <1>4 DEF Note

LEMMA PostFacts ==
    ASSUME Post
    PROVE  \/ Node.kind = "http" /\ Sends("start", "answer")
           \/ Node.kind = "transfer" /\ Sends("send", "wait")
           \/ Node.kind \in {"contract", "wallet"} /\ Sends("send", "answer")
BY DEF Post, Http, RequestFaucet, TransferWithSmartAccount, InvokeContract, At

LEMMA Steps ==
    ASSUME Next
    PROVE  Begin \/ Save \/ Ends \/ Computes \/ Walk \/ Note \/ Post \/ Trades \/ World
<1>1. CASE Works
  BY <1>1 DEF Works, Compute, Request, Coinbase, Swap, Computes, Walk, Note, Post, Trades
<1>2. CASE Failure
  BY <1>2 DEF Failure, Ends, Trades
<1>3. QED
  BY <1>1, <1>2 DEF Next, Ends

LEMMA StepType == TypeOK /\ Working /\ [Next]_vars => TypeOK'
<1> SUFFICES ASSUME TypeOK, Working, [Next]_vars PROVE TypeOK'
  OBVIOUS
<1>1. CASE Walk
  BY <1>1, WalkFacts, GoesType DEF Way
<1>2. CASE Note
  <2>1. "object" \in Values /\ {"start", "answer", "result"} \subseteq Pcs
    BY DEF Values, Pcs
  <2>2. QED
    BY <1>2, <2>1, NoteFacts, StoresType
<1>3. CASE Post
  BY <1>3, PostFacts, SendsType DEF Pcs
<1>4. CASE UNCHANGED vars
  BY <1>4 DEF vars, stored, running, copy, calls, chain, orders, history, excuses, past, TypeOK,
              Run, Runs
<1>5. QED
  BY <1>1, <1>2, <1>3, <1>4, Steps, BeginType, SaveType, EndsType, ComputesType, TradesType,
     WorldType
-------------------------------------------------------------------------------
(***************************************************************************)
(* Where a run stands, and the order of the nodes.                         *)
(***************************************************************************)

\* A step of a run that goes on.
GoesOn == Computes \/ Walk \/ Note \/ Post \/ Trades

LEMMA GoesOnFacts ==
    ASSUME GoesOn
    PROVE  /\ pc # "idle" /\ pc' \notin {"idle", "start"}
           /\ UNCHANGED <<flow, stored, ran, torn, past>>
           /\ UNCHANGED chosen \/ Computes
<1>1. CASE Walk
  BY <1>1, WalkFacts DEF Way, Goes, GoTo, copy, history, excuses
<1>2. CASE Note
  BY <1>2, NoteFacts DEF Stores, GoTo, history, excuses
<1>3. CASE Post
  BY <1>3, PostFacts DEF Sends, GoTo, copy, history, excuses
<1>4. CASE Computes \/ Trades
  BY <1>4, ComputesFacts, TradesFacts DEF copy, history, excuses
<1>5. QED
  BY <1>1, <1>2, <1>3, <1>4 DEF GoesOn

LEMMA SameNode ==
    ASSUME UNCHANGED <<flow, ran>> PROVE Run' = Run /\ Current' = Current /\ Node' = Node
BY DEF Run, Current, Node

\* A step of somebody else, or of nobody.
Outside == World \/ UNCHANGED vars

LEMMA OutsideFacts ==
    ASSUME Outside
    PROVE  UNCHANGED <<flow, stored, running, secrets, revealed, refused, torn, missed, past>>
BY WorldFacts DEF Outside, vars, orders, history, excuses

LEMMA StepKinds ==
    ASSUME [Next]_vars PROVE Begin \/ Save \/ Ends \/ GoesOn \/ Outside
BY Steps DEF GoesOn, Outside

LEMMA WorkingStep == TypeOK /\ Working /\ [Next]_vars => Working'
<1> SUFFICES ASSUME TypeOK, Working, [Next]_vars PROVE Working'
  OBVIOUS
<1>1. CASE Begin
  <2>1. queue' = queue /\ queue # <<>> /\ chosen' = <<>> /\ ran' = Append(ran, Head(queue))
    BY <1>1 DEF Begin, stored
  <2>2. ran \in Seq(DOMAIN flow) /\ Head(queue) \in DOMAIN flow
    BY <2>1 DEF TypeOK
  <2>3. Run' > 0 /\ Current' = Head(queue')
    BY <2>1, <2>2 DEF Run, Current
  <2>4. QED
    BY <2>1, <2>3 DEF Working
<1>2. CASE Save \/ Ends
  BY <1>2, EndsFacts DEF Save, Dies, GoTo, Working
<1>3. CASE GoesOn
  <2>1. UNCHANGED <<flow, queue, ran>> /\ pc # "idle"
    BY <1>3, GoesOnFacts DEF stored
  <2>2. Run' = Run /\ Current' = Current /\ Node' = Node
    BY <2>1, SameNode
  <2>3. \/ chosen' \in {<<>>, Node.next}
        \/ \E i \in DOMAIN Node.next : chosen' = <<Node.next[i]>>
    <3>1. CASE IfElse
      <4>1. chosen' = Branch(Node, Holds(Node, work)) /\ Node.next \in Seq(DOMAIN flow)
        BY <3>1, <2>1, NodeFacts DEF IfElse
      <4>2. Len(Node.next) >= 2 => 1 \in DOMAIN Node.next /\ 2 \in DOMAIN Node.next
        BY <4>1
      <4>3. QED
        BY <4>1, <4>2 DEF Branch
    <3>2. CASE ~IfElse
      <4>1. chosen' = chosen
        BY <1>3, <3>2, GoesOnFacts DEF Computes, Variable, Code
      <4>2. QED
        BY <4>1, <2>1 DEF Working
    <3>3. QED
      BY <3>1, <3>2
  <2>4. QED
    BY <2>1, <2>2, <2>3 DEF Working
<1>4. CASE Outside
  <2>1. UNCHANGED <<flow, queue, ran, chosen, pc>>
    BY <1>4, OutsideFacts DEF stored, running, copy
  <2>2. QED
    BY <2>1, SameNode DEF Working
<1>5. QED
  BY <1>1, <1>2, <1>3, <1>4, StepKinds

LEMMA StandsStep == Stands /\ [Next]_vars => Stands'
<1> SUFFICES ASSUME Stands, [Next]_vars PROVE Stands'
  OBVIOUS
<1>1. CASE Begin \/ Save \/ Ends
  BY <1>1, EndsFacts DEF Begin, Save, Dies, GoTo, Stands
<1>2. CASE GoesOn
  <2>1. Node' = Node
    BY <1>2, GoesOnFacts, SameNode
  <2>2. CASE Walk
    BY <2>1, <2>2, WalkFacts DEF Way, Goes, GoTo, Stands
  <2>3. CASE Computes \/ Note
    BY <2>3, ComputesFacts, NoteFacts DEF Stores, GoTo, Stands
  <2>4. CASE Post
    BY <2>1, <2>4, PostFacts DEF Sends, GoTo, Stands
  <2>5. CASE Trades
    BY <2>1, <2>5, TradesFacts DEF Stands
  <2>6. QED
    BY <1>2, <2>2, <2>3, <2>4, <2>5 DEF GoesOn
<1>3. CASE Outside
  BY <1>3, OutsideFacts, SameNode DEF Stands, running, copy
<1>4. QED
  BY <1>1, <1>2, <1>3, StepKinds

Distinct(s) == \A i, j \in DOMAIN s : s[i] = s[j] => i = j

\* What is in a sequence without its head, and in two sequences put together.
LEMMA TailFacts ==
    ASSUME NEW S, NEW s \in Seq(S), s # <<>>, Distinct(s)
    PROVE  /\ Head(s) \in Elems(s)
           /\ Elems(Tail(s)) = Elems(s) \ {Head(s)}
           /\ Tail(s) \in Seq(S) /\ Distinct(Tail(s))
<1>1. /\ Tail(s) \in Seq(S) /\ Len(Tail(s)) = Len(s) - 1 /\ Len(s) \in Nat /\ Len(s) > 0
      /\ \A i \in 1..(Len(s) - 1) : Tail(s)[i] = s[i + 1]
      /\ Head(s) = s[1] /\ DOMAIN s = 1..Len(s)
  OBVIOUS
<1>2. DOMAIN Tail(s) = 1..(Len(s) - 1)
  BY <1>1
<1>3. Distinct(Tail(s))
  BY <1>1, <1>2 DEF Distinct
<1>4. ASSUME NEW e \in Elems(Tail(s)) PROVE e \in Elems(s) \ {Head(s)}
  <2>1. PICK i \in 1..(Len(s) - 1) : e = s[i + 1]
    BY <1>1, <1>2, <1>4 DEF Elems
  <2>2. i + 1 \in DOMAIN s /\ 1 \in DOMAIN s /\ i + 1 # 1
    BY <1>1
  <2>3. QED
    BY <1>1, <2>1, <2>2 DEF Elems, Distinct
<1>5. ASSUME NEW e \in Elems(s) \ {Head(s)} PROVE e \in Elems(Tail(s))
  <2>1. PICK i \in 1..Len(s) : e = s[i]
    BY <1>1, <1>5 DEF Elems
  <2>2. i - 1 \in 1..(Len(s) - 1)
    BY <1>1, <1>5, <2>1
  <2>3. Tail(s)[i - 1] = e
    BY <1>1, <2>1, <2>2
  <2>4. QED
    BY <1>2, <2>2, <2>3 DEF Elems
<1>6. Head(s) \in Elems(s)
  BY <1>1 DEF Elems
<1>7. Elems(Tail(s)) = Elems(s) \ {Head(s)}
  BY <1>4, <1>5
<1>8. QED
  BY <1>1, <1>3, <1>6, <1>7

LEMMA JoinFacts ==
    ASSUME NEW S, NEW s \in Seq(S), NEW t \in Seq(S)
    PROVE  /\ Elems(s \o t) = Elems(s) \cup Elems(t)
           /\ Distinct(s) /\ Distinct(t) /\ Elems(s) \cap Elems(t) = {} => Distinct(s \o t)
<1> DEFINE u == s \o t
           m == Len(s)
           k == Len(t)
<1>1. /\ m \in Nat /\ k \in Nat /\ DOMAIN s = 1..m /\ DOMAIN t = 1..k /\ DOMAIN u = 1..(m + k)
      /\ \A i \in 1..(m + k) : u[i] = IF i <= m THEN s[i] ELSE t[i - m]
  OBVIOUS
<1> HIDE DEF u, m, k
<1>2. Elems(u) \subseteq Elems(s) \cup Elems(t)
  <2>1. SUFFICES ASSUME NEW i \in 1..(m + k) PROVE u[i] \in Elems(s) \cup Elems(t)
    BY <1>1 DEF Elems
  <2>2. CASE i <= m
    BY <1>1, <2>2 DEF Elems
  <2>3. CASE i > m
    <3>1. i - m \in 1..k /\ u[i] = t[i - m]
      BY <1>1, <2>3
    <3>2. QED
      BY <1>1, <3>1 DEF Elems
  <2>4. QED
    BY <1>1, <2>2, <2>3
<1>3. Elems(s) \subseteq Elems(u)
  <2>1. \A i \in 1..m : i \in 1..(m + k) /\ u[i] = s[i]
    BY <1>1
  <2>2. QED
    BY <1>1, <2>1 DEF Elems
<1>4. Elems(t) \subseteq Elems(u)
  <2>1. \A i \in 1..k : i + m \in 1..(m + k) /\ u[i + m] = t[i]
    BY <1>1
  <2>2. QED
    BY <1>1, <2>1 DEF Elems
<1>5. ASSUME Distinct(s), Distinct(t), Elems(s) \cap Elems(t) = {} PROVE Distinct(u)
  <2>1. SUFFICES ASSUME NEW i \in 1..(m + k), NEW j \in 1..(m + k), u[i] = u[j] PROVE i = j
    BY <1>1 DEF Distinct
  <2>2. \A h \in 1..(m + k) : \/ h \in 1..m /\ u[h] = s[h] /\ u[h] \in Elems(s)
                              \/ h > m /\ h - m \in 1..k /\ u[h] = t[h - m] /\ u[h] \in Elems(t)
    <3>1. TAKE h \in 1..(m + k)
    <3>2. CASE h <= m
      BY <1>1, <3>2 DEF Elems
    <3>3. CASE h > m
      <4>1. h - m \in 1..k /\ u[h] = t[h - m]
        BY <1>1, <3>3
      <4>2. QED
        BY <1>1, <3>3, <4>1 DEF Elems
    <3>4. QED
      BY <1>1, <3>2, <3>3
  <2>3. CASE i \in 1..m
    <3>1. j \in 1..m /\ u[j] = s[j] /\ u[i] = s[i]
      BY <1>1, <1>5, <2>1, <2>2, <2>3
    <3>2. QED
      BY <1>1, <1>5, <2>1, <2>3, <3>1 DEF Distinct
  <2>4. CASE i \notin 1..m
    <3>1. /\ i - m \in 1..k /\ u[i] = t[i - m] /\ i > m
          /\ j - m \in 1..k /\ u[j] = t[j - m] /\ j > m
      BY <1>5, <2>1, <2>2, <2>4
    <3>2. i - m = j - m
      BY <1>1, <1>5, <2>1, <3>1 DEF Distinct
    <3>3. QED
      BY <1>1, <3>2
  <2>5. QED
    BY <2>3, <2>4
<1>6. QED
  BY <1>2, <1>3, <1>4, <1>5 DEF u

\* No edge leads to the entry, and no two to the same node.
LEMMA Tree ==
    ASSUME TypeOK, NEW m \in DOMAIN flow, NEW n \in DOMAIN flow,
           NEW i \in DOMAIN flow[m].next, NEW j \in DOMAIN flow[n].next
    PROVE  /\ flow[m].next[i] # 1
           /\ flow[m].next[i] = flow[n].next[j] => m = n /\ i = j
BY NodeKindsAssumption DEF TypeOK

\* What a node schedules when it is done: children of it, none of which was reached before.
LEMMA SaveFacts ==
    ASSUME TypeOK, Working, Grown, Save
    PROVE  LET S == Scheduled(Node, chosen)
           IN  /\ S \in Seq(DOMAIN flow) /\ Distinct(S)
               /\ Elems(S) \subseteq Elems(Node.next)
               /\ Elems(Node.next) \cap (Reached \cup {1}) = {}
               /\ Elems(queue') = (Elems(queue) \ {Current}) \cup Elems(S)
               /\ Current \in Elems(queue) /\ Current \notin executed
               /\ Distinct(queue')
               /\ executed' = executed \cup {Current}
<1> DEFINE S == Scheduled(Node, chosen)
<1>1. /\ queue \in Seq(DOMAIN flow) /\ queue # <<>> /\ Current = Head(queue)
      /\ Node.next \in Seq(DOMAIN flow) /\ Current \in DOMAIN flow /\ executed \subseteq DOMAIN flow
      /\ \/ chosen \in {<<>>, Node.next}
         \/ \E i \in DOMAIN Node.next : chosen = <<Node.next[i]>>
  BY NodeFacts DEF TypeOK, Working, Save
<1>2. \A i \in DOMAIN Node.next : Node.next[i] \in DOMAIN flow
  BY <1>1
<1>3. Distinct(Node.next)
  BY <1>1, Tree DEF Distinct, Node
<1>4. S \in Seq(DOMAIN flow) /\ Distinct(S) /\ Elems(S) \subseteq Elems(Node.next)
  <2>1. CASE S = Node.next
    BY <1>1, <1>3, <2>1
  <2>2. ASSUME NEW i \in DOMAIN Node.next, S = <<Node.next[i]>>
        PROVE  S \in Seq(DOMAIN flow) /\ Distinct(S) /\ Elems(S) \subseteq Elems(Node.next)
    BY <1>2, <2>2 DEF Distinct, Elems
  <2>3. S = Node.next \/ \E i \in DOMAIN Node.next : S = <<Node.next[i]>>
    BY <1>1 DEF Scheduled
  <2>4. QED
    BY <2>1, <2>2, <2>3
<1>5. Current \in Elems(queue) /\ Current \notin executed /\ Distinct(queue)
  BY <1>1, TailFacts DEF Grown, Distinct
<1>6. Elems(Node.next) \cap (Reached \cup {1}) = {}
  <2>1. SUFFICES ASSUME NEW i \in DOMAIN Node.next, Node.next[i] \in Reached \cup {1} PROVE FALSE
    BY DEF Elems
  <2>2. Node.next[i] # 1
    BY <1>1, Tree DEF Node
  <2>3. PICK m \in executed : Node.next[i] \in Elems(flow[m].next)
    BY <2>1, <2>2 DEF Grown
  <2>4. m = Current
    BY <1>1, <2>3, Tree DEF Elems, Node
  <2>5. QED
    BY <1>5, <2>3, <2>4
<1>7. /\ Tail(queue) \in Seq(DOMAIN flow) /\ Distinct(Tail(queue))
      /\ Elems(Tail(queue)) = Elems(queue) \ {Current}
  BY <1>1, <1>5, TailFacts
<1>8. queue' = Tail(queue) \o S /\ executed' = executed \cup {Current}
  BY DEF Save
<1>9. Elems(Tail(queue)) \cap Elems(S) = {}
  BY <1>4, <1>6, <1>7 DEF Reached
<1> HIDE DEF S
<1>10. Elems(queue') = (Elems(queue) \ {Current}) \cup Elems(S) /\ Distinct(queue')
  <2>1. /\ Elems(Tail(queue) \o S) = Elems(Tail(queue)) \cup Elems(S)
        /\ Distinct(Tail(queue) \o S)
    <3>1. \A t, u : t \in Seq(DOMAIN flow) /\ u \in Seq(DOMAIN flow) =>
            /\ Elems(t \o u) = Elems(t) \cup Elems(u)
            /\ Distinct(t) /\ Distinct(u) /\ Elems(t) \cap Elems(u) = {} => Distinct(t \o u)
      BY JoinFacts
    <3>2. /\ S \in Seq(DOMAIN flow) /\ Distinct(S)
          /\ Tail(queue) \in Seq(DOMAIN flow) /\ Distinct(Tail(queue))
          /\ Elems(Tail(queue)) \cap Elems(S) = {}
      BY <1>4, <1>7, <1>9
    <3>3. QED
      BY <3>1, <3>2, Zenon
  <2>2. Elems(queue') = Elems(Tail(queue) \o S) /\ (Distinct(queue') <=> Distinct(Tail(queue) \o S))
    BY <1>8, Zenon
  <2>3. QED
    BY <1>7, <2>1, <2>2, Zenon
<1>11. QED
  BY <1>4, <1>5, <1>6, <1>8, <1>10 DEF S

LEMMA StoredOnlyBySave ==
    ASSUME [Next]_vars, ~Save PROVE UNCHANGED <<flow, stored>>
BY StepKinds, EndsFacts, GoesOnFacts, OutsideFacts DEF Begin

LEMMA FlowStands == ASSUME [Next]_vars PROVE flow' = flow
BY StoredOnlyBySave DEF Save

LEMMA GrownStep == TypeOK /\ Working /\ Grown /\ [Next]_vars => Grown'
<1> SUFFICES ASSUME TypeOK, Working, Grown, [Next]_vars PROVE Grown'
  OBVIOUS
<1>1. CASE Save
  <2> DEFINE S == Scheduled(Node, chosen)
  <2>1. /\ Elems(S) \subseteq Elems(Node.next)
        /\ Elems(Node.next) \cap (Reached \cup {1}) = {}
        /\ Elems(queue') = (Elems(queue) \ {Current}) \cup Elems(S)
        /\ Current \in Elems(queue) /\ Current \notin executed
        /\ Distinct(queue')
        /\ executed' = executed \cup {Current}
        /\ flow' = flow
    BY <1>1, SaveFacts, FlowStands
  <2> HIDE DEF S
  <2>2. Elems(queue') \cap executed' = {}
    BY <2>1 DEF Grown, Reached
  <2>3. ASSUME NEW n \in Reached' \ {1}
        PROVE  \E m \in executed' : n \in Elems(flow'[m].next)
    <3>1. CASE n \in Reached
      BY <2>1, <3>1 DEF Grown
    <3>2. CASE n \notin Reached
      <4>1. n \in Elems(S)
        BY <2>1, <3>2, <2>3 DEF Reached, Elems
      <4>2. n \in Elems(flow[Current].next)
        BY <2>1, <4>1 DEF Node
      <4>3. QED
        BY <2>1, <4>2
    <3>3. QED
      BY <3>1, <3>2
  <2>4. QED
    BY <2>1, <2>2, <2>3 DEF Grown, Distinct, Elems
<1>2. CASE ~Save
  BY <1>2, StoredOnlyBySave DEF Grown, Reached, Elems, stored
<1>3. QED
  BY <1>1, <1>2
-------------------------------------------------------------------------------
(***************************************************************************)
(* What the runs have done.                                                *)
(***************************************************************************)

LEMMA NextRun ==
    ASSUME TypeOK, Begin
    PROVE  /\ Run \in Nat /\ Run' = Run + 1 /\ \A r \in 1..Run : ran'[r] = ran[r]
           /\ ran'[Run'] = Head(queue)
           /\ Head(queue) \in Elems(queue)
BY DEF TypeOK, Begin, Run, Elems

\* No run of a node that is done is under way.
LEMMA CurrentIsNew ==
    ASSUME TypeOK, Working, Grown, pc # "idle"
    PROVE  Run \in 1..Run /\ ran[Run] \notin executed /\ ran[Run] \in Elems(queue)
<1>1. queue \in Seq(DOMAIN flow) /\ queue # <<>> /\ Current = Head(queue) /\ Run \in Nat /\ Run > 0
  BY NodeFacts DEF TypeOK, Working
<1>2. Head(queue) \in Elems(queue)
  BY <1>1 DEF Elems
<1>3. QED
  BY <1>1, <1>2 DEF Grown, Current

LEMMA SettledStep == TypeOK /\ Working /\ Grown /\ Settled /\ [Next]_vars => Settled'
<1> SUFFICES ASSUME TypeOK, Working, Grown, Settled, [Next]_vars PROVE Settled'
  OBVIOUS
<1>1. CASE Begin
  <2>1. /\ Run \in Nat /\ Run' = Run + 1 /\ \A r \in 1..Run : ran'[r] = ran[r]
        /\ ran'[Run'] \in Elems(queue)
    BY <1>1, NextRun
  <2>2. pc = "idle" /\ pc' = "start" /\ UNCHANGED <<executed, torn>>
    BY <1>1 DEF Begin, GoTo, stored, history, excuses
  <2>3. ran'[Run'] \notin executed
    BY <2>1 DEF Grown
  <2>4. \A r \in 1..Run : r \in torn \/ ran[r] \in executed
    BY <2>2 DEF Settled
  <2>5. \A r \in 1..Run' : r \in 1..Run \/ r = Run'
    BY <2>1
  <2>6. \A q, r \in 1..Run' : q < r /\ ran'[q] = ran'[r] => q \in torn'
    <3>1. SUFFICES ASSUME NEW q \in 1..Run', NEW r \in 1..Run', q < r, ran'[q] = ran'[r]
                   PROVE  q \in torn
      BY <2>2
    <3>2. q \in 1..Run
      BY <2>1, <3>1
    <3>3. CASE r \in 1..Run
      BY <2>1, <3>1, <3>2, <3>3 DEF Settled
    <3>4. CASE r = Run'
      BY <2>1, <2>3, <2>4, <3>1, <3>2, <3>4
    <3>5. QED
      BY <2>5, <3>3, <3>4
  <2>7. Run' \notin torn' /\ torn' \subseteq 1..Run'
    BY <2>1, <2>2 DEF Settled
  <2>8. QED
    BY <2>1, <2>2, <2>4, <2>5, <2>6, <2>7 DEF Settled
<1>2. CASE Save
  <2>1. UNCHANGED <<ran, torn>> /\ executed' = executed \cup {ran[Run]} /\ pc' = "idle"
    BY <1>2 DEF Save, GoTo, copy, excuses, Current
  <2>2. QED
    BY <2>1 DEF Settled, Run
<1>3. CASE Ends
  <2>1. UNCHANGED <<ran, executed>> /\ torn' = torn \cup {Run} /\ pc # "idle" /\ pc' = "idle"
    BY <1>3, EndsFacts DEF Dies, GoTo, copy, stored
  <2>2. Run \in 1..Run
    BY <2>1, CurrentIsNew
  <2>3. QED
    BY <2>1, <2>2 DEF Settled, Run
<1>4. CASE GoesOn
  BY <1>4, GoesOnFacts DEF Settled, Run, stored
<1>5. CASE Outside
  BY <1>5, OutsideFacts DEF Settled, Run, stored, running, copy
<1>6. QED
  BY <1>1, <1>2, <1>3, <1>4, <1>5, StepKinds

\* What a run does to the world.
LEMMA EffectFacts ==
    ASSUME GoesOn
    PROVE  /\ \/ sent' = sent
              \/ Post /\ sent' = [sent EXCEPT ![Run] = "sent"]
           /\ \/ order' = order
              \/ Trades /\ pc = "submit" /\ order' = [order EXCEPT ![Run] = "live"]
<1>1. CASE Walk \/ Note
  BY <1>1, WalkFacts, NoteFacts DEF Goes, Stores, chain, orders
<1>2. CASE Post
  BY <1>2, PostFacts DEF Sends, orders
<1>3. CASE Computes \/ Trades
  BY <1>3, ComputesFacts, TradesFacts DEF chain, orders
<1>4. QED
  BY <1>1, <1>2, <1>3 DEF GoesOn

\* What others do to what it did.
Mined(r) ==
    \/ sent'[r] = sent[r]
    \/ r \in 1..Run /\ sent[r] = "sent" /\ sent'[r] \in {"mined", "reverted"}

Expired(r) ==
    \/ order'[r] = order[r]
    \/ order[r] = "live" /\ order'[r] = "expired"

LEMMA WorldEffects ==
    ASSUME TypeOK, Outside
    PROVE  \A r \in Runs : Mined(r) /\ Expired(r)
<1>1. sent \in [Runs -> {"none", "sent", "mined", "reverted"}]
      /\ order \in [Runs -> {"none", "live", "expired"}]
  BY DEF TypeOK
<1>2. CASE World
  <2>1. ASSUME NEW q \in 1..Run, Mine(q)
        PROVE  order' = order /\ \A r \in Runs : Mined(r)
    BY <1>1, <2>1 DEF Mine, orders, Mined
  <2>2. ASSUME NEW q \in Runs, Expire(q)
        PROVE  sent' = sent /\ \A r \in Runs : Expired(r)
    BY <1>1, <2>2 DEF Expire, Unfilled, chain, Expired
  <2>3. CASE MineApproval \/ ApprovalReverts \/ \E r \in Runs, p \in Parts : Deploy(r, p)
    BY <2>3 DEF MineApproval, ApprovalReverts, Deploy, orders, Mined, Expired
  <2>4. QED
    BY <1>2, <2>1, <2>2, <2>3 DEF World, Mined, Expired
<1>3. CASE UNCHANGED vars
  BY <1>3 DEF vars, chain, orders, Mined, Expired
<1>4. QED
  BY <1>2, <1>3 DEF Outside

LEMMA EarlyStep == TypeOK /\ Early /\ [Next]_vars => Early'
<1> SUFFICES ASSUME TypeOK, Early, [Next]_vars PROVE Early'
  OBVIOUS
<1>1. Runs' = Runs
  BY FlowStands DEF Runs
<1>2. CASE Begin
  <2>1. Run \in Nat /\ Run' = Run + 1 /\ UNCHANGED <<sent, order>>
    BY <1>2, NextRun DEF Begin, chain, orders
  <2>2. Runs \subseteq Int
    BY DEF Runs
  <2>3. QED
    BY <1>1, <2>1, <2>2 DEF Early
<1>3. CASE Save \/ Ends
  BY <1>1, <1>3, EndsFacts DEF Save, copy, chain, orders, Run, Early
<1>4. CASE GoesOn
  <2>1. Run \in Nat /\ Run' = Run
    BY <1>4, GoesOnFacts, SameNode, NodeFacts
  <2>2. /\ sent \in [Runs -> {"none", "sent", "mined", "reverted"}]
        /\ order \in [Runs -> {"none", "live", "expired"}]
    BY DEF TypeOK
  <2>3. ASSUME NEW r \in Runs, r > Run PROVE sent'[r] = "none" /\ order'[r] = "none"
    <3>1. sent[r] = "none" /\ order[r] = "none" /\ r # Run
      BY <2>1, <2>3 DEF Early
    <3>2. QED
      BY <1>4, <2>2, <3>1, EffectFacts
  <2>4. QED
    BY <1>1, <2>1, <2>3 DEF Early
<1>5. CASE Outside
  <2>1. Run' = Run /\ Run \in Nat /\ Runs \subseteq Int
    BY <1>5, OutsideFacts DEF Run, running, copy, TypeOK, Runs
  <2>2. ASSUME NEW r \in Runs, r > Run PROVE sent'[r] = "none" /\ order'[r] = "none"
    <3>1. sent[r] = "none" /\ order[r] = "none" /\ r \notin 1..Run
      BY <2>1, <2>2 DEF Early
    <3>2. Mined(r) /\ Expired(r)
      BY <1>5, WorldEffects
    <3>3. QED
      BY <3>1, <3>2 DEF Mined, Expired
  <2>3. QED
    BY <1>1, <2>1, <2>2 DEF Early
<1>6. QED
  BY <1>2, <1>3, <1>4, <1>5, StepKinds

\* What a run has done stays done.
LEMMA DidStays ==
    ASSUME TypeOK, NEW r \in Runs, Did(r), flow' = flow, ran'[r] = ran[r],
           \/ UNCHANGED <<sent, order>>
           \/ GoesOn /\ r # Run
           \/ Outside
    PROVE  Did(r)'
<1>1. /\ sent \in [Runs -> {"none", "sent", "mined", "reverted"}]
      /\ order \in [Runs -> {"none", "live", "expired"}]
  BY DEF TypeOK
<1>2. Mined(r) /\ Expired(r)
  <2>1. CASE UNCHANGED <<sent, order>>
    BY <2>1 DEF Mined, Expired
  <2>2. CASE GoesOn /\ r # Run
    BY <1>1, <2>2, EffectFacts DEF Mined, Expired
  <2>3. CASE Outside
    BY <2>3, WorldEffects
  <2>4. QED
    BY <2>1, <2>2, <2>3
<1>3. QED
  BY <1>2 DEF Did, Mined, Expired

\* Where a step of the run leads to, and what is done by then.
LEMMA DoneOnTheWay ==
    ASSUME TypeOK, Stands, Done, GoesOn
    PROVE  /\ pc' \in {"answer", "wait"} => sent'[Run] # "none"
           /\ pc' \in {"placed", "status", "poll", "reveal", "result"} => order'[Run] # "none"
           /\ pc' = "save" => Did(Run)'
<1>1. /\ pc # "idle" /\ flow' = flow /\ ran' = ran /\ Run' = Run /\ Node' = Node
      /\ Node = flow[ran[Run]] /\ Run \in Runs
  BY GoesOnFacts, SameNode, NodeFacts DEF Node, Current
<1>2. /\ sent \in [Runs -> {"none", "sent", "mined", "reverted"}]
      /\ order \in [Runs -> {"none", "live", "expired"}]
  BY DEF TypeOK
<1>3. CASE Walk
  <2>1. PICK here, there \in Pcs : Way(here, there) /\ Goes(here, there)
    BY <1>3, WalkFacts
  <2>2. pc = here /\ pc' = there /\ sent' = sent /\ order' = order
    BY <2>1 DEF Goes, GoTo, chain, orders
  <2>3. ASSUME there = "save" PROVE Did(Run)'
    <3>1. \/ Node.kind \in {"trigger", "sign"}
          \/ Node.kind = "transfer" /\ sent[Run] \in {"mined", "reverted"}
          \/ Node.kind = "contract" /\ sent[Run] # "none"
      BY <2>1, <2>2, <2>3 DEF Way, Stands, Done
    <3>2. QED
      BY <1>1, <2>2, <3>1 DEF Did
  <2>4. QED
    BY <2>1, <2>2, <2>3 DEF Way, Done
<1>4. CASE Note
  <2>1. PICK here \in {"start", "answer", "result"} :
            /\ Stores(here, "object")
            /\ here = "start" => \/ Node.kind = "price"
                                 \/ Node.kind = "wallet" /\ ~Node.faucet
            /\ here = "answer" => Node.kind \in {"http", "wallet"}
    BY <1>4, NoteFacts
  <2>2. pc = here /\ pc' = "save" /\ sent' = sent /\ order' = order
    BY <2>1 DEF Stores, GoTo, chain, orders
  <2>3. \/ Node.kind = "price"
        \/ Node.kind = "wallet" /\ ~Node.faucet
        \/ Node.kind \in {"http", "wallet"} /\ sent[Run] # "none"
        \/ Node.kind = "swap" /\ order[Run] # "none"
    BY <2>1, <2>2 DEF Stands, Done
  <2>4. QED
    BY <1>1, <2>2, <2>3 DEF Did
<1>5. CASE Post
  <2>1. pc' \in {"answer", "wait"} /\ sent' = [sent EXCEPT ![Run] = "sent"]
    BY <1>5, PostFacts DEF Sends, GoTo
  <2>2. QED
    BY <1>1, <1>2, <2>1
<1>6. CASE Trades
  BY <1>1, <1>2, <1>6, TradesFacts DEF Done
<1>7. CASE Computes
  BY <1>1, <1>7, ComputesFacts DEF Did
<1>8. QED
  BY <1>3, <1>4, <1>5, <1>6, <1>7 DEF GoesOn

LEMMA DoneStep ==
    TypeOK /\ Working /\ Stands /\ Grown /\ Settled /\ Done /\ [Next]_vars => Done'
<1> SUFFICES ASSUME TypeOK, Working, Stands, Grown, Settled, Done, [Next]_vars PROVE Done'
  OBVIOUS
<1>1. flow' = flow
  BY FlowStands
<1>2. \A r \in 1..Run : r \in Runs
  BY NodeKindsAssumption DEF TypeOK, Runs, Run
<1>3. CASE Begin
  <2>1. /\ Run \in Nat /\ Run' = Run + 1 /\ \A r \in 1..Run : ran'[r] = ran[r]
    BY <1>3, NextRun
  <2>2. pc' = "start" /\ UNCHANGED <<executed, torn, sent, order>>
    BY <1>3 DEF Begin, GoTo, stored, history, excuses, chain, orders
  <2>3. ASSUME NEW n \in executed
        PROVE  \E r \in (1..Run') \ torn' : ran'[r] = n /\ Did(r)'
    <3>1. PICK r \in (1..Run) \ torn : ran[r] = n /\ Did(r)
      BY <2>3 DEF Done
    <3>2. Did(r)' /\ ran'[r] = n /\ r \in (1..Run') \ torn'
      BY <1>1, <1>2, <2>1, <2>2, <3>1, DidStays
    <3>3. QED
      BY <3>2
  <2>4. QED
    BY <2>2, <2>3 DEF Done
<1>4. CASE Save
  <2>1. /\ UNCHANGED <<ran, torn, sent, order>> /\ executed' = executed \cup {ran[Run]}
        /\ pc = "save" /\ pc' = "idle" /\ Run' = Run
    BY <1>4 DEF Save, GoTo, copy, excuses, Current, chain, orders, Run
  <2>2. Run \in (1..Run) \ torn /\ Did(Run)
    BY <2>1, CurrentIsNew DEF Settled, Done
  <2>3. ASSUME NEW n \in executed'
        PROVE  \E r \in (1..Run') \ torn' : ran'[r] = n /\ Did(r)'
    <3>1. PICK r \in (1..Run) \ torn : ran[r] = n /\ Did(r)
      BY <2>1, <2>2, <2>3 DEF Done
    <3>2. Did(r)'
      BY <1>1, <1>2, <2>1, <3>1, DidStays
    <3>3. QED
      BY <2>1, <3>1, <3>2
  <2>4. QED
    BY <2>1, <2>3 DEF Done
<1>5. CASE Ends
  <2>1. /\ UNCHANGED <<ran, executed, sent, order>> /\ torn' = torn \cup {Run} /\ Run' = Run
        /\ pc # "idle" /\ pc' = "idle"
    BY <1>5, EndsFacts DEF Dies, GoTo, copy, stored, chain, orders, Run
  <2>2. ASSUME NEW n \in executed
        PROVE  \E r \in (1..Run') \ torn' : ran'[r] = n /\ Did(r)'
    <3>1. PICK r \in (1..Run) \ torn : ran[r] = n /\ Did(r)
      BY <2>2 DEF Done
    <3>2. r # Run
      BY <2>1, <2>2, <3>1, CurrentIsNew
    <3>3. Did(r)'
      BY <1>1, <1>2, <2>1, <3>1, DidStays
    <3>4. QED
      BY <2>1, <3>1, <3>2, <3>3
  <2>3. QED
    BY <2>1, <2>2 DEF Done
<1>6. CASE GoesOn
  <2>1. /\ UNCHANGED <<ran, executed, torn>> /\ Run' = Run /\ pc # "idle"
    BY <1>6, GoesOnFacts, SameNode DEF stored
  <2>2. ASSUME NEW n \in executed
        PROVE  \E r \in (1..Run') \ torn' : ran'[r] = n /\ Did(r)'
    <3>1. PICK r \in (1..Run) \ torn : ran[r] = n /\ Did(r)
      BY <2>2 DEF Done
    <3>2. r # Run
      BY <2>1, <2>2, <3>1, CurrentIsNew
    <3>3. Did(r)'
      BY <1>1, <1>2, <1>6, <2>1, <3>1, <3>2, DidStays
    <3>4. QED
      BY <2>1, <3>1, <3>3
  <2>3. QED
    BY <1>6, <2>1, <2>2, DoneOnTheWay DEF Done
<1>7. CASE Outside
  <2>1. UNCHANGED <<ran, executed, torn, pc>> /\ Run' = Run
    BY <1>7, OutsideFacts DEF stored, running, copy, Run
  <2>2. \A r \in 1..Run : Did(r) => Did(r)'
    BY <1>1, <1>2, <1>7, <2>1, DidStays
  <2>3. pc # "idle" => Run \in 1..Run /\ Mined(Run) /\ Expired(Run)
    BY <1>2, <1>7, CurrentIsNew, WorldEffects
  <2>4. QED
    BY <2>1, <2>2, <2>3 DEF Done, Mined, Expired
<1>8. QED
  BY <1>3, <1>4, <1>5, <1>6, <1>7, StepKinds
-------------------------------------------------------------------------------
(***************************************************************************)
(* What the runs write, and what the if nodes decide by it.                *)
(***************************************************************************)

\* Names a run may have written so far.
Writes == Named(Node) \cup Besides(Node, state)

LEMMA MergedKeeps ==
    ASSUME NEW s \in States, NEW n \in Names, NEW m \in Names,
           m = "result" => n \notin Plain(s), Carriers(s) # {} => Carried[m] = None
    PROVE  Merged(s, n)[m] = s[m]
<1>1. "result" \in Names
  BY NodeKindsAssumption
<1>2. CASE Carriers(s) = {}
  BY <1>1, <1>2 DEF Merged, States
<1>3. CASE Carriers(s) # {}
  BY <1>1, <1>3 DEF Merged, States, UpdatePartialState
<1>4. QED
  BY <1>2, <1>3

\* A step of a node that computes writes what its definition names, or what a variable node
\* writes besides.
LEMMA ComputesWrites ==
    ASSUME TypeOK, Apart, Computes
    PROVE  \A m \in Names : m \in Writes \/ work'[m] = state[m]
<1>1. pc = "start" /\ work = state /\ work \in States
  BY ComputesFacts DEF Apart, TypeOK
<1>2. Node.out \in Names /\ Node.sets \in States
  BY <1>1, NodeFacts
<1> SUFFICES ASSUME NEW m \in Names, m \notin Writes PROVE work'[m] = state[m]
  OBVIOUS
<1>3. CASE Variable
  <2>1. Node.kind = "variable"
    BY <1>3 DEF Variable, At
  <2>2. m # Node.out /\ m \notin Besides(Node, state)
    BY <2>1 DEF Writes, Named
  <2>3. /\ m = "result" => Plain(work) = {}
        /\ Carriers(work) # {} => Carried[m] = None
    BY <1>1, <2>1, <2>2 DEF Besides
  <2>4. PICK n \in Names : work' = SetGlobalValue(Merged(work, n), Node.out,
                                      Processed(Node, Resolved(Node, Merged(work, n))))
    BY <1>3 DEF Variable
  <2>5. Merged(work, n) \in States /\ Merged(work, n)[m] = work[m]
    BY <1>1, <2>3, MergedType, MergedKeeps
  <2>6. QED
    BY <1>1, <2>2, <2>4, <2>5 DEF SetGlobalValue, States
<1>4. CASE Code
  <2>1. Node.kind = "code"
    BY <1>4 DEF Code, At
  <2>2. m # Node.out /\ Node.sets[m] = None
    BY <2>1 DEF Writes, Named
  <2>3. QED
    BY <1>1, <1>4, <2>2 DEF Code, UpdatePartialState
<1>5. CASE IfElse
  <2>1. Node.kind = "if"
    BY <1>5 DEF IfElse, At
  <2>2. m # Node.out
    BY <2>1 DEF Writes, Named
  <2>3. QED
    BY <1>1, <1>2, <1>5, <2>2 DEF IfElse, States
<1>6. QED
  BY <1>3, <1>4, <1>5 DEF Computes

LEMMA GoesOnWrites ==
    ASSUME TypeOK, Stands, Apart, GoesOn
    PROVE  \A m \in Names : m \in Writes \/ work'[m] = state[m]
<1>1. \A m \in Names : m \in Writes \/ work[m] = state[m]
  BY GoesOnFacts DEF Apart, Writes
<1>2. CASE Computes
  BY <1>2, ComputesWrites
<1>3. CASE Note
  <2>1. PICK here \in {"start", "answer", "result"} :
            /\ Stores(here, "object")
            /\ here = "start" => \/ Node.kind = "price"
                                 \/ Node.kind = "wallet" /\ ~Node.faucet
            /\ here = "answer" => Node.kind \in {"http", "wallet"}
    BY <1>3, NoteFacts
  <2>2. pc = here /\ work' = [work EXCEPT ![Node.out] = "object"]
    BY <2>1 DEF Stores
  <2>3. Node.kind \in {"price", "wallet", "http", "swap"}
    BY <2>1, <2>2 DEF Stands
  <2>4. Node.out \in Writes
    BY <2>3 DEF Writes, Named
  <2>5. work \in States /\ Node.out \in Names
    BY <2>2, NodeFacts DEF TypeOK
  <2>6. QED
    BY <1>1, <2>2, <2>4, <2>5 DEF States
<1>4. CASE Walk \/ Post \/ Trades
  <2>1. work' = work
    BY <1>4, WalkFacts, PostFacts, TradesFacts DEF Goes, Sends, copy
  <2>2. QED
    BY <1>1, <2>1
<1>5. QED
  BY <1>2, <1>3, <1>4 DEF GoesOn

\* An if node that is to be saved names the branch of its condition.
LEMMA IfNames ==
    ASSUME TypeOK, Stands, Apart, GoesOn, pc' = "save", Node.kind = "if"
    PROVE  chosen' = Branch(Node, Holds(Node, state))
<1>1. CASE Computes
  <2>1. IfElse
    BY <1>1 DEF Computes, Variable, Code, At
  <2>2. work = state
    BY <2>1 DEF IfElse, At, Apart
  <2>3. QED
    BY <2>1, <2>2 DEF IfElse
<1>2. CASE Walk
  BY <1>2, WalkFacts DEF Way, Goes, GoTo, Stands
<1>3. CASE Note
  BY <1>3, NoteFacts DEF Stores, Stands
<1>4. CASE Post \/ Trades
  BY <1>4, PostFacts, TradesFacts DEF Sends, GoTo
<1>5. QED
  BY <1>1, <1>2, <1>3, <1>4 DEF GoesOn

LEMMA ApartStep == TypeOK /\ Working /\ Stands /\ Apart /\ [Next]_vars => Apart'
<1> SUFFICES ASSUME TypeOK, Working, Stands, Apart, [Next]_vars PROVE Apart'
  OBVIOUS
<1>1. CASE Begin
  BY <1>1 DEF Begin, GoTo, stored, history, past, Apart
<1>2. CASE Save
  <2>1. pc = "save" /\ pc' = "idle" /\ state' = work
    BY <1>2 DEF Save, GoTo
  <2>2. ASSUME NEW n \in Names \ mixed' PROVE state'[n] = written'[n]
    <3>1. written'[n] = IF n \in Named(Node) THEN work[n] ELSE written[n]
      BY <1>2 DEF Save
    <3>2. n \in Named(Node) \/ (n \notin mixed /\ n \notin Besides(Node, state))
      BY <1>2, <2>2 DEF Save
    <3>3. n \notin Named(Node) => work[n] = state[n] /\ state[n] = written[n]
      BY <2>1, <3>2 DEF Apart
    <3>4. QED
      BY <2>1, <3>1, <3>3
  <2>3. QED
    BY <2>1, <2>2 DEF Apart
<1>3. CASE Ends
  BY <1>3, EndsFacts DEF Dies, GoTo, stored, past, Apart
<1>4. CASE GoesOn
  <2>1. UNCHANGED <<state, written, mixed>> /\ Node' = Node /\ pc' # "start"
    BY <1>4, GoesOnFacts, SameNode DEF stored, past
  <2>2. \A m \in Names : m \in Writes \/ work'[m] = state[m]
    BY <1>4, GoesOnWrites
  <2>3. Besides(Node, state)' = Besides(Node, state) /\ Named(Node)' = Named(Node)
    BY <2>1 DEF Besides, Named, Plain, Carriers
  <2>4. pc' = "save" /\ Node.kind = "if" => chosen' = Branch(Node, Holds(Node, state))
    BY <1>4, IfNames
  <2>5. (pc = "save" /\ Node.kind = "if" => chosen = Branch(Node, Holds(Node, state)))'
    BY <2>1, <2>4 DEF Branch, Holds, LeftValue, GetGlobalValue
  <2>6. (\A n \in Names \ mixed : state[n] = written[n])'
    BY <2>1 DEF Apart
  <2>7. QED
    BY <2>1, <2>2, <2>3, <2>5, <2>6 DEF Apart, Writes
<1>5. CASE Outside
  <2>1. UNCHANGED <<state, written, mixed, pc, work, chosen>> /\ Node' = Node
    BY <1>5, OutsideFacts, SameNode DEF stored, past, running, copy
  <2>2. QED
    BY <2>1 DEF Apart, Besides, Named, Plain, Carriers, Branch, Holds, LeftValue, GetGlobalValue
<1>6. QED
  BY <1>1, <1>2, <1>3, <1>4, <1>5, StepKinds

LEMMA DecidedStep == Decided /\ [Next]_vars => Decided'
<1> SUFFICES ASSUME Decided, [Next]_vars PROVE Decided'
  OBVIOUS
<1>1. CASE Save
  <2>1. executed' = executed \cup {Current}
        /\ \A d \in decided' : d \in decided \/ d = <<Current, Holds(Node, written)>>
    BY <1>1 DEF Save
  <2>2. QED
    BY <2>1 DEF Decided
<1>2. CASE ~Save
  <2>1. UNCHANGED <<executed, decided>>
    BY <1>2, StepKinds, EndsFacts, GoesOnFacts, OutsideFacts DEF Begin, stored, history, past
  <2>2. QED
    BY <2>1 DEF Decided
<1>3. QED
  BY <1>1, <1>2

\* The branch of d that is taken, or not.
Side(d, c) == flow[d[1]].next[IF c THEN 1 ELSE 2]

\* What d decides is what happens.
Follows(d) ==
    Len(flow[d[1]].next) = 2 => Side(d, d[2]) \in Reached /\ Side(d, ~d[2]) \notin Reached

Followed == \A d \in decided : Follows(d)

LEMMA FollowedDecides == TypeOK /\ Followed => Decides
<1> SUFFICES ASSUME TypeOK, Followed PROVE Decides
  OBVIOUS
<1>1. \A d \in decided : d[2] \in BOOLEAN
  BY DEF TypeOK
<1>2. Reached = executed \cup {queue[i] : i \in DOMAIN queue}
  BY DEF Reached, Elems
<1>3. \A d \in decided :
          Side(d, ~d[2]) = flow[d[1]].next[IF d[2] THEN 2 ELSE 1]
  BY <1>1 DEF Side
<1>4. QED
  BY <1>2, <1>3 DEF Decides, Followed, Follows, Side

\* The node that is saved decides by what was written.
LEMMA NewDecision ==
    ASSUME TypeOK, Working, Grown, Apart, Save, Node.kind = "if", Node.left \notin mixed,
           NEW d, d = <<Current, Holds(Node, written)>>
    PROVE  Follows(d)'
<1> DEFINE c == Holds(Node, written)
           S == Scheduled(Node, chosen)
<1>1. /\ pc = "save" /\ pc # "idle" /\ flow' = flow
      /\ Node.next \in Seq(DOMAIN flow) /\ Current \in DOMAIN flow
  BY NodeFacts DEF Save
<1>2. Node.left \in Names
  <2>1. flow \in Workflows /\ Node \in Nodes
    BY <1>1, NodeFacts DEF TypeOK
  <2>2. Node.left # None
    BY <1>1, <2>1, NodeKindsAssumption DEF Node
  <2>3. QED
    BY <2>1, <2>2 DEF Nodes
<1>3. c = Holds(Node, state)
  BY <1>2 DEF Apart, Holds, LeftValue, GetGlobalValue
<1>4. chosen = Branch(Node, c)
  BY <1>1, <1>3 DEF Apart
<1>5. /\ Elems(S) \subseteq Elems(Node.next)
      /\ Elems(Node.next) \cap (Reached \cup {1}) = {}
      /\ Elems(queue') = (Elems(queue) \ {Current}) \cup Elems(S)
      /\ executed' = executed \cup {Current} /\ Current \in Elems(queue)
  BY SaveFacts
<1>6. Reached' = Reached \cup Elems(S)
  BY <1>5 DEF Reached, Elems
<1>7. c \in BOOLEAN
  BY DEF Holds
<1> HIDE DEF c
<1>8. SUFFICES ASSUME Len(Node.next) = 2
               PROVE  Side(d, c) \in Reached' /\ Side(d, ~c) \notin Reached'
  BY <1>1 DEF Follows, Side, Node, c
<1>9. /\ 1 \in DOMAIN Node.next /\ 2 \in DOMAIN Node.next
      /\ Side(d, c) = Node.next[IF c THEN 1 ELSE 2]
      /\ Side(d, ~c) = Node.next[IF c THEN 2 ELSE 1]
  BY <1>1, <1>7, <1>8 DEF Side, Node
<1>10. Side(d, c) # Side(d, ~c)
  BY <1>1, <1>9, Tree DEF Node
<1>11. S = <<Side(d, c)>>
  BY <1>4, <1>8, <1>9 DEF Branch, Scheduled
<1>12. Elems(S) = {Side(d, c)}
  BY <1>11 DEF Elems
<1>13. Side(d, ~c) \in Elems(Node.next)
  BY <1>7, <1>9 DEF Elems
<1>14. QED
  BY <1>5, <1>6, <1>10, <1>12, <1>13

LEMMA FollowedStep ==
    TypeOK /\ Working /\ Grown /\ Apart /\ Decided /\ Followed /\ [Next]_vars => Followed'
<1> SUFFICES ASSUME TypeOK, Working, Grown, Apart, Decided, Followed, [Next]_vars PROVE Followed'
  OBVIOUS
<1>1. \A d \in decided : Follows(d)
  BY DEF Followed
<1>2. \A d \in decided' : Follows(d)'
  <2>1. CASE Save
    <3>1. SUFFICES ASSUME NEW d \in decided' PROVE Follows(d)'
      OBVIOUS
    <3>2. CASE d \in decided
      <4> DEFINE S == Scheduled(Node, chosen)
      <4>1. /\ Elems(S) \subseteq Elems(Node.next)
            /\ Elems(queue') = (Elems(queue) \ {Current}) \cup Elems(S)
            /\ executed' = executed \cup {Current}
            /\ Current \in Elems(queue) /\ Current \notin executed
        BY <2>1, SaveFacts
      <4>2. Reached' = Reached \cup Elems(S)
        BY <4>1 DEF Reached, Elems
      <4>3. /\ d[1] \in DOMAIN flow /\ d[2] \in BOOLEAN /\ d[1] \in executed
            /\ Current \in DOMAIN flow /\ flow \in Seq(Nodes)
        BY <2>1, <3>2, NodeFacts DEF TypeOK, Decided, Save
      <4>4. ASSUME Len(flow[d[1]].next) = 2 PROVE Side(d, ~d[2]) \notin Elems(Node.next)
        <5>1. flow[d[1]].next \in Seq(Nat)
          <6>1. flow[d[1]] \in Nodes
            BY <4>3
          <6>2. QED
            BY <6>1 DEF Nodes
        <5>2. PICK i \in DOMAIN flow[d[1]].next : Side(d, ~d[2]) = flow[d[1]].next[i]
          BY <4>3, <4>4, <5>1 DEF Side
        <5>3. d[1] # Current
          BY <4>1, <4>3
        <5>4. \A j \in DOMAIN Node.next : Node.next[j] # flow[d[1]].next[i]
          BY <4>3, <5>3, Tree DEF Node
        <5>5. QED
          BY <5>2, <5>4 DEF Elems
      <4>5. flow' = flow /\ Follows(d)
        BY <1>1, <3>2, FlowStands
      <4> HIDE DEF S
      <4>6. QED
        BY <4>1, <4>2, <4>4, <4>5 DEF Follows, Side
    <3>3. CASE d \notin decided
      <4>1. Node.kind = "if" /\ Node.left \notin mixed /\ d = <<Current, Holds(Node, written)>>
        BY <2>1, <3>1, <3>3 DEF Save
      <4>2. QED
        BY <2>1, <4>1, NewDecision
    <3>4. QED
      BY <3>2, <3>3
  <2>2. CASE ~Save
    <3>1. UNCHANGED <<flow, executed, queue, decided>>
      BY <2>2, StepKinds, EndsFacts, GoesOnFacts, OutsideFacts DEF Begin, stored, history, past
    <3>2. QED
      BY <1>1, <3>1 DEF Follows, Side, Reached, Elems
  <2>3. QED
    BY <2>1, <2>2
<1>3. QED
  BY <1>2 DEF Followed
-------------------------------------------------------------------------------
(***************************************************************************)
(* Who pays for the orders.                                                *)
(***************************************************************************)

LEMMA CoveredStep == TypeOK /\ Early /\ Covered /\ [Next]_vars => Covered'
<1> SUFFICES ASSUME TypeOK, Early, Covered, [Next]_vars PROVE Covered'
  OBVIOUS
<1>1. Runs' = Runs /\ order \in [Runs -> {"none", "live", "expired"}]
      /\ ready \in [Runs -> SUBSET Parts]
  BY FlowStands DEF Runs, TypeOK
<1> DEFINE Paid == allowance = "enough" \/ approving
<1>2. ASSUME UNCHANGED <<allowance, approving, order, ready>>, unfunded \subseteq unfunded',
             Placing' \subseteq Placing \cup unfunded' \/ Paid
      PROVE  Covered'
  <2>1. Unfilled' = Unfilled
    BY <1>1, <1>2 DEF Unfilled
  <2>2. QED
    BY <1>2, <2>1 DEF Covered
<1>3. CASE Begin \/ Save \/ Ends
  <2>1. Placing' = {}
    BY <1>3, EndsFacts DEF Placing, Begin, Save, Dies, GoTo
  <2>2. UNCHANGED <<allowance, approving, order, ready, unfunded>>
    BY <1>3, EndsFacts DEF Begin, Save, chain, orders, history, excuses
  <2>3. QED
    BY <1>2, <2>1, <2>2
<1>4. CASE GoesOn
  <2>1. Run' = Run /\ Run \in Runs
    BY <1>4, GoesOnFacts, SameNode, NodeFacts
  <2>2. CASE Computes \/ Walk \/ Note \/ Post
    <3>1. UNCHANGED <<allowance, approving, order, ready, unfunded>>
      BY <2>2, ComputesFacts, WalkFacts, NoteFacts, PostFacts
         DEF Goes, Stores, Sends, chain, orders, history, excuses
    <3>2. Placing' \subseteq Placing
      BY <2>1, <2>2, ComputesFacts, WalkFacts, NoteFacts, PostFacts
         DEF Way, Goes, Stores, Sends, GoTo, Placing
    <3>3. QED
      BY <1>2, <3>1, <3>2
  <2>3. CASE Quote \/ CheckTokenAllowance \/ AllowanceUnread \/ ApproveFails
    <3>1. UNCHANGED <<allowance, approving, order, ready>> /\ unfunded \subseteq unfunded'
      BY <2>3 DEF Quote, Approves, CheckTokenAllowance, AllowanceUnread, ApproveFails, chain, orders,
                  history, excuses
    <3>2. Placing' \subseteq unfunded' \/ allowance = "enough"
      BY <2>1, <2>3 DEF Quote, Approves, CheckTokenAllowance, AllowanceUnread, ApproveFails, GoTo, Placing,
                        TypeOK
    <3>3. QED
      BY <1>2, <3>1, <3>2
  <2>4. CASE ApproveToken
    BY <2>4 DEF ApproveToken, Covered
  <2>5. CASE SubmitOrder
    <3>1. /\ order' = [order EXCEPT ![Run] = "live"] /\ Placing = {Run}
          /\ UNCHANGED <<allowance, approving, ready, unfunded>> /\ Placing' = {}
      BY <2>5 DEF SubmitOrder, GoTo, Placing, chain, history, excuses
    <3>2. Unfilled' \subseteq Unfilled \cup Placing
      BY <1>1, <2>1, <3>1 DEF Unfilled
    <3>3. QED
      BY <3>1, <3>2 DEF Covered
  <2>6. CASE \/ \E h \in {"hash", "salt", "none"} : Answer(h)
             \/ Status \/ StatusFails \/ PollAgain \/ PollFails
             \/ \E p \in Parts : SubmitSecret(p) \/ SecretFails(p)
    <3>1. UNCHANGED <<allowance, approving, order, ready, unfunded>>
      BY <2>6 DEF Answer, Status, StatusFails, PollAgain, PollFails, SubmitSecret, SecretFails,
                  chain, orders, history, excuses
    <3>2. pc' \in {"placed", "status", "poll", "reveal", "result"}
      BY <2>6 DEF Answer, Status, StatusFails, PollAgain, PollFails, Again, SubmitSecret,
                  SecretFails, GoTo
    <3>3. QED
      BY <1>2, <3>1, <3>2 DEF Placing
  <2>7. QED
    BY <1>4, <2>2, <2>3, <2>4, <2>5, <2>6 DEF GoesOn, Trades, Approve
<1>5. CASE Outside
  <2>1. Placing' = Placing
    BY <1>5, OutsideFacts DEF Placing, Run, running, copy
  <2>2. CASE UNCHANGED vars \/ \E r \in 1..Run : Mine(r)
    <3>1. UNCHANGED <<allowance, approving, order, ready, unfunded>>
      BY <2>2 DEF vars, Mine, chain, orders, history, excuses
    <3>2. QED
      BY <1>2, <2>1, <3>1
  <2>3. CASE MineApproval
    BY <2>3 DEF MineApproval, Covered
  <2>4. CASE ApprovalReverts
    <3>1. unfunded' = unfunded \cup Unfilled \cup Placing /\ UNCHANGED <<order, ready>>
      BY <2>4 DEF ApprovalReverts, orders
    <3>2. Unfilled' = Unfilled
      BY <1>1, <3>1 DEF Unfilled
    <3>3. QED
      BY <2>1, <3>1, <3>2 DEF Covered
  <2>5. ASSUME NEW r \in Runs, Expire(r) PROVE Covered'
    <3>1. UNCHANGED <<allowance, approving, ready, unfunded>>
          /\ order' = [order EXCEPT ![r] = "expired"]
      BY <2>5 DEF Expire, chain, history, excuses
    <3>2. Unfilled' \subseteq Unfilled
      BY <1>1, <3>1 DEF Unfilled
    <3>3. QED
      BY <2>1, <3>1, <3>2 DEF Covered
  <2>6. ASSUME NEW r \in Runs, NEW p \in Parts, Deploy(r, p) PROVE Covered'
    <3>1. order' = order /\ approving' = approving /\ ready' = [ready EXCEPT ![r] = @ \cup {p}]
      BY <2>6 DEF Deploy
    <3>2. Unfilled' = Unfilled \ {r}
      BY <1>1, <3>1 DEF Unfilled
    <3>3. CASE ready[r] # {}
      <4>1. UNCHANGED <<allowance, unfunded>>
        BY <2>6, <3>3 DEF Deploy
      <4>2. QED
        BY <2>1, <3>1, <3>2, <4>1 DEF Covered
    <3>4. CASE ready[r] = {}
      <4>1. unfunded' = unfunded \cup (Unfilled \ {r}) \cup Placing
        BY <2>6, <3>4 DEF Deploy
      <4>2. QED
        BY <2>1, <3>2, <4>1 DEF Covered
    <3>5. QED
      BY <3>3, <3>4
  <2>7. QED
    BY <1>5, <2>2, <2>3, <2>4, <2>5, <2>6 DEF Outside, World
<1>6. QED
  BY <1>3, <1>4, <1>5, StepKinds
-------------------------------------------------------------------------------
(***************************************************************************)
(* The invariant, and what follows from it.                                *)
(***************************************************************************)

IInv ==
    /\ TypeOK /\ Working /\ Stands /\ Grown /\ Settled /\ Early /\ Done
    /\ Apart /\ Decided /\ Followed /\ Covered

LEMMA InitInv == Init => IInv
<1> SUFFICES ASSUME Init PROVE IInv
  OBVIOUS
<1>1. TypeOK
  BY InitType
<1>2. Run = 0 /\ pc = "idle" /\ queue = <<1>> /\ executed = {} /\ torn = {} /\ decided = {}
  BY DEF Init, Run
<1>3. Working /\ Stands
  BY <1>2 DEF Working, Stands
<1>4. Grown
  BY <1>2 DEF Grown, Reached, Elems
<1>5. Settled /\ Done
  BY <1>2 DEF Settled, Done
<1>6. \A r \in Runs : sent[r] = "none" /\ order[r] = "none"
  BY DEF Init
<1>7. Unfilled = {} /\ Placing = {}
  BY <1>2, <1>6 DEF Unfilled, Placing
<1>8. Early /\ Covered
  BY <1>6, <1>7 DEF Early, Covered
<1>9. Apart
  BY <1>2 DEF Init, Apart
<1>10. Decided /\ Followed
  BY <1>2 DEF Decided, Followed
<1>11. QED
  BY <1>1, <1>3, <1>4, <1>5, <1>8, <1>9, <1>10 DEF IInv

LEMMA StepInv == IInv /\ [Next]_vars => IInv'
BY StepType, WorkingStep, StandsStep, GrownStep, SettledStep, EarlyStep, DoneStep, ApartStep,
   DecidedStep, FollowedStep, CoveredStep DEF IInv

LEMMA Invariance == Spec => []IInv
BY InitInv, StepInv, PTL DEF Spec

\* Every variable stays within its type: the rows of the workflow, the copy a run works
\* on, what it did to the world, and what the histories record.
THEOREM TypeCorrect == Spec => []TypeOK
<1>1. IInv => TypeOK
  BY DEF IInv
<1>2. QED
  BY Invariance, <1>1, PTL

\* No run of a node that was not torn has another run of that node before it do something
\* to the world, and no node is stored as done before its run did what it is for.
LEMMA SettledOnce == TypeOK /\ Settled /\ Done => EffectsOnce
<1> SUFFICES ASSUME TypeOK, Settled, Done PROVE EffectsOnce
  OBVIOUS
<1>1. \A q, r \in Effects : q < r /\ ran[q] = ran[r] => q \in torn
  BY DEF Effects, Settled
<1>2. ASSUME NEW n \in executed, Acts(flow[n])
      PROVE  \E r \in Effects \ torn :
                /\ ran[r] = n
                /\ flow[n].kind = "transfer" => sent[r] \in {"mined", "reverted"}
  <2>1. PICK r \in (1..Run) \ torn : ran[r] = n /\ Did(r)
    BY DEF Done
  <2>2. sent[r] # "none" \/ order[r] # "none"
    BY <1>2, <2>1 DEF Did, Acts
  <2>3. flow[n].kind = "transfer" => sent[r] \in {"mined", "reverted"}
    BY <2>1 DEF Did
  <2>4. QED
    BY <2>1, <2>2, <2>3 DEF Effects
<1>3. QED
  BY <1>1, <1>2 DEF EffectsOnce

\* A node does to the world once what it does, unless a run of it threw or died after doing
\* it, and a node that is stored as done has done it: NodeFactory's nodes send, place and
\* wait before the worker stores what they leave.
THEOREM OneEffect == Spec => []EffectsOnce
<1>1. IInv => EffectsOnce
  BY SettledOnce DEF IInv
<1>2. QED
  BY Invariance, <1>1, PTL

\* Of two children the workflow goes on with the one that the condition of the if node
\* selects by what the nodes before it wrote, and never with the other, however often runs
\* of the node die and begin anew.
THEOREM BranchesFollow == Spec => []Decides
<1>1. IInv => Decides
  BY FollowedDecides DEF IInv
<1>2. QED
  BY Invariance, <1>1, PTL

\* Every order of 1inch that waits to be filled has its token approved or about to be,
\* unless one of the ways in which the swap node goes without an approval was taken.
THEOREM OrdersFunded == Spec => []Funded
<1>1. IInv => Funded
  BY DEF IInv, Covered, Funded
<1>2. QED
  BY Invariance, <1>1, PTL
===============================================================================
