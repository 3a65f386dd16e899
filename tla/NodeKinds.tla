------------------------------- MODULE NodeKinds -------------------------------
(***************************************************************************)
(* What the kinds of nodes do when they run (compiler/src/NodeFactory): to *)
(* the global state of their workflow, that the nodes after them read, and *)
(* to the world: requests, transactions of the account at Coinbase, and    *)
(* orders of 1inch Fusion+, which live on after the node.                  *)
(*                                                                         *)
(* A worker runs the nodes of one workflow, one after the other.  A run of *)
(* a node works on a copy of what is stored, and the copy is stored when   *)
(* it is over; a run that throws or dies leaves the rows as they were, and *)
(* the node may run again: RemoteWorker has the worker in detail, and      *)
(* WorkflowEngine the order of the nodes, which form a tree here.  The     *)
(* world, the chain and the resolvers of 1inch, acts on its own.  Paths    *)
(* into values, inputs of nodes and contents of requests are left out.     *)
(***************************************************************************)
EXTENDS Integers, Sequences, FiniteSets

CONSTANTS
    Names,        \* names in the global state
    Workflows,    \* workflows: node -> what it is; node 1 is the entry
    Carried,      \* what the data of a carrier says: name -> value
    Parts,        \* the secrets an order may have
    MaxReruns,    \* bound: runs of a node but its first
    StatusTries,  \* maxStatusAttempts
    PollTries,    \* maxSecretPollAttempts
    MaxFaults,    \* bound: failed calls and crashes
    None          \* nothing stored under a name, nothing under way

\* Numbers, the strings of numbers, truth values and theirs, and other strings; objects,
\* and those that have a field "data".
Values == {"zero", "one", "text0", "text1", "true", "false", "textTrue", "textFalse",
           "text", "object", "carrier"}

Kinds == {"trigger", "variable", "code", "if", "http", "price", "wallet", "transfer",
          "contract", "sign", "swap", "error"}

States == [Names -> Values \cup {None}]

\* What a node is: where its result goes, the name it reads, a literal, the type of a
\* variable, what a code node sets, whether a wallet asks the faucet for coins, the options
\* of a swap and whether its token goes by the symbol of the coin, and its children.
Nodes == [kind : Kinds, out : Names, left : Names \cup {None}, right : Values,
          type : {"raw", "string", "number"}, sets : [Names -> Values \cup {None}],
          faucet : BOOLEAN, approve : BOOLEAN, native : BOOLEAN, reveal : BOOLEAN,
          next : Seq(Nat)]

ASSUME NodeKindsAssumption ==
    /\ {"result", "wallet"} \subseteq Names
    /\ None \notin Names \cup Values
    /\ Carried \in States /\ Carried["result"] = None
    /\ \A w \in Workflows :
          /\ w \in Seq(Nodes) /\ w # <<>>
          /\ \A n \in DOMAIN w :
                /\ \A i \in DOMAIN w[n].next : w[n].next[i] \in DOMAIN w
                /\ w[n].kind = "wallet" => w[n].out = "wallet"
                /\ w[n].kind = "if" => w[n].left # None
          /\ \A m, n \in DOMAIN w :
                \A i \in DOMAIN w[m].next, j \in DOMAIN w[n].next :
                    /\ w[m].next[i] # 1
                    /\ w[m].next[i] = w[n].next[j] => m = n /\ i = j
    /\ IsFiniteSet(Parts) /\ Parts # {}
    /\ {MaxReruns, StatusTries, PollTries, MaxFaults} \subseteq Nat

VARIABLES
    flow,        \* the workflow
    state,       \* its global state, as stored
    queue,       \* its nodes to run, as stored
    executed,    \* its nodes that have run, as stored
    pc,          \* where the run of a node stands
    work,        \* its copy of the global state
    chosen,      \* the children it names, or all if there are none
    attempt,     \* calls it has made of the kind it repeats
    handle,      \* what it takes for the hash of its order
    todo,        \* secrets it has yet to submit
    ran,         \* the runs so far: run -> node
    sent,        \* run -> its request or transaction: none, sent, mined, reverted
    allowance,   \* what the escrow may take from the account
    approving,   \* an approval is on its way
    order,       \* run -> its order: none, live, expired
    secrets,     \* run -> the secrets of its order
    ready,       \* run -> the secrets the resolvers wait for
    revealed,    \* run -> secrets that were submitted
    refused,     \* run -> secrets whose submission failed
    torn,        \* history: runs that threw or died
    missed,      \* history: runs that lost sight of their order
    unfunded,    \* history: runs that placed an order without allowance for it
    written,     \* history: name -> what the last node that names it wrote
    decided,     \* history: if nodes -> what they decide by what was written
    mixed,       \* history: names that a variable node overwrote by itself
    faults       \* faults so far

stored  == <<state, queue, executed>>
copy    == <<work, chosen, ran>>
calls   == <<attempt, handle, todo>>
chain   == <<sent, allowance, approving>>
orders  == <<order, secrets, ready, revealed, refused>>
excuses == <<torn, missed, unfunded>>
past    == <<written, decided, mixed>>
history == <<excuses, past>>
running == <<pc, copy, calls>>
vars == <<flow, stored, running, chain, orders, history, faults>>

\* Every node runs once, and some again.
Runs == 1..Len(flow) + MaxReruns

Fault == faults < MaxFaults /\ faults' = faults + 1

GoTo(where) == pc' = where

Run == Len(ran)
Current == ran[Run]
Node == flow[Current]

\* The run of a node of this kind stands here.
At(kind, here) == pc = here /\ Node.kind = kind

\* A step of the current run that touches nothing but where it stands.
Goes(here, there) ==
    /\ pc = here
    /\ GoTo(there)
    /\ UNCHANGED <<flow, stored, copy, calls, chain, orders, history, faults>>

\* ... or its copy of the global state.
Stores(here, value) ==
    /\ pc = here
    /\ work' = [work EXCEPT ![Node.out] = value]
    /\ GoTo("save")
    /\ UNCHANGED <<flow, stored, chosen, ran, calls, chain, orders, history, faults>>
-------------------------------------------------------------------------------
Swaps(w) == \E n \in DOMAIN w : w[n].kind = "swap"

Init ==
    /\ flow \in Workflows
    /\ state = [n \in Names |-> None]
    /\ queue = <<1>> /\ executed = {}
    /\ pc = "idle" /\ work = state /\ chosen = <<>>
    /\ attempt = 0 /\ handle = "none" /\ todo = {} /\ ran = <<>>
    /\ sent = [r \in Runs |-> "none"]
    /\ allowance \in IF Swaps(flow) THEN {"none", "short", "enough"} ELSE {"none"}
    /\ approving = FALSE
    /\ order = [r \in Runs |-> "none"]
    /\ secrets = [r \in Runs |-> {}] /\ ready = secrets
    /\ revealed = secrets /\ refused = secrets
    /\ torn = {} /\ missed = {} /\ unfunded = {}
    /\ written = state /\ decided = {} /\ mixed = {}
    /\ faults = 0

\* A worker takes the workflow and runs its next node, on a copy of its rows.
Begin ==
    /\ pc = "idle" /\ queue # <<>> /\ Run + 1 \in Runs
    /\ ran' = Append(ran, Head(queue))
    /\ work' = state /\ chosen' = <<>>
    /\ attempt' = 0 /\ handle' = "none" /\ todo' = {}
    /\ GoTo("start")
    /\ UNCHANGED <<flow, stored, chain, orders, history, faults>>
-------------------------------------------------------------------------------
\* What a path names in the global state, None if it names nothing.
GetGlobalValue(s, n) == s[n]

SetGlobalValue(s, n, v) == [s EXCEPT ![n] = v]

\* A patch goes over what was there.
UpdatePartialState(s, patch) == [n \in Names |-> IF patch[n] # None THEN patch[n] ELSE s[n]]

\* What a script returns becomes an object, with its fields if it is one.
NormalizeOutput(v) == IF v = "carrier" THEN v ELSE "object"

\* String(value).
Text(v) == CASE v \in {"zero", "text0"} -> "text0"
             [] v \in {"one", "text1"} -> "text1"
             [] v \in {"true", "textTrue"} -> "textTrue"
             [] v \in {"false", "textFalse"} -> "textFalse"
             [] OTHER -> "text"

\* Number(string) || 0.
Number(v) == IF v = "text1" THEN "one" ELSE "zero"

Truthy(v) == v \notin {None, "zero", "false"}

\* Names whose values getNodeInputData puts under "result", each over the one before, and
\* those it spreads the data of.  The database does not keep their order.
Plain(s) == {n \in Names : Truthy(s[n]) /\ s[n] # "carrier"}
Carriers(s) == {n \in Names : s[n] = "carrier"}

\* What getNodeInputData makes of the global state when n comes last.
Merged(s, n) ==
    LET spread == IF Carriers(s) = {} THEN s ELSE UpdatePartialState(s, Carried)
    IN  IF n \in Plain(s) THEN [spread EXCEPT !["result"] = s[n]] ELSE spread

\* The value of a variable: a literal, ${name}, which is left as it is if there is
\* nothing under that name, or input.name.
Resolved(node, s) ==
    IF node.left = None THEN node.right
    ELSE LET v == GetGlobalValue(s, node.left)
         IN  IF v = None THEN "text" ELSE IF node.type = "raw" THEN v ELSE Text(v)

Processed(node, v) == IF node.type = "number" THEN Number(v) ELSE v

Variable ==
    /\ At("variable", "start")
    /\ \E n \in Names :
          /\ n \in Plain(work) \/ Plain(work) = {}
          /\ LET s == Merged(work, n)
             IN work' = SetGlobalValue(s, Node.out, Processed(Node, Resolved(Node, s)))
    /\ GoTo("save")
    /\ UNCHANGED <<flow, stored, chosen, ran, calls, chain, orders, history, faults>>

\* The script sets names of the global state and returns an object.
Code ==
    /\ At("code", "start")
    /\ LET patched == UpdatePartialState(work, Node.sets)
       IN work' = [patched EXCEPT ![Node.out] = NormalizeOutput(Node.right)]
    /\ GoTo("save")
    /\ UNCHANGED <<flow, stored, chosen, ran, calls, chain, orders, history, faults>>

\* The path of an if node stands for what it names, or for itself.
LeftValue(node, s) ==
    LET v == GetGlobalValue(s, node.left) IN IF v = None THEN "text" ELSE v

\* The operator "equals".
Holds(node, s) == Text(LeftValue(node, s)) = node.right

\* Mutant of Branch: the second child is the one for "true".
BranchSwapped(node, c) ==
    IF Len(node.next) >= 2 THEN <<node.next[IF c THEN 2 ELSE 1]>>
    ELSE IF c THEN node.next ELSE <<>>

\* The children an if node names.
Branch(node, c) ==
    IF Len(node.next) >= 2 THEN <<node.next[IF c THEN 1 ELSE 2]>>
    ELSE IF c THEN node.next ELSE <<>>

IfElse ==
    /\ At("if", "start")
    /\ LET c == Holds(Node, work)
       IN /\ work' = [work EXCEPT ![Node.out] = IF c THEN "true" ELSE "false"]
          /\ chosen' = Branch(Node, c)
    /\ GoTo("save")
    /\ UNCHANGED <<flow, stored, ran, calls, chain, orders, history, faults>>

Trigger == At("trigger", "start") /\ Goes("start", "save")
-------------------------------------------------------------------------------
\* A request, transaction or order leaves for the world.
Sends(here, there) ==
    /\ pc = here
    /\ sent' = [sent EXCEPT ![Run] = "sent"]
    /\ GoTo(there)
    /\ UNCHANGED <<flow, stored, copy, calls, allowance, approving, orders, history,
                   faults>>

\* An http node takes any answer, a price node only a good one (and asks for nothing
\* that could be done twice).
Http == At("http", "start") /\ Sends("start", "answer")
HttpAnswer == At("http", "answer") /\ Stores("answer", "object")
CoinGekko == At("price", "start") /\ Stores("start", "object")

\* The account is created or found, ...
CdpWallet ==
    /\ At("wallet", "start")
    /\ IF Node.faucet THEN Goes("start", "send") ELSE Stores("start", "object")

\* ... and given coins if the node says so, and the nodes that follow are told.
RequestFaucet == At("wallet", "send") /\ Sends("send", "answer")
FaucetAnswers == At("wallet", "answer") /\ Stores("answer", "object")

\* Nodes of the wallet throw if no node has told of one.
HasWallet == GetGlobalValue(work, "wallet") # None

CdpTransaction == At("transfer", "start") /\ HasWallet /\ Goes("start", "send")
TransferWithSmartAccount == At("transfer", "send") /\ Sends("send", "wait")

\* Mutant of WaitForTransaction: it does not wait.
WaitForNothing == Goes("wait", "save")

\* The node waits for the receipt, and takes one that says "reverted" as well.
WaitForTransaction ==
    pc = "wait" /\ sent[Run] \in {"mined", "reverted"} /\ Goes("wait", "save")

\* A contract is invoked, and "confirmed", without waiting.
CdpSmartContract == At("contract", "start") /\ HasWallet /\ Goes("start", "send")
InvokeContract == At("contract", "send") /\ Sends("send", "answer")
Confirmed == At("contract", "answer") /\ Goes("answer", "save")

CdpSign == At("sign", "start") /\ HasWallet /\ Goes("start", "save")
-------------------------------------------------------------------------------
\* Tokens, then the account, are looked up, and a quote.
ResolveToken == At("swap", "start") /\ Goes("start", "account")
CreateOrGetAccount == Goes("account", "quote")
GetQuote == Goes("quote", "quoted")

\* The secrets of an order.
GenerateSecrets == (SUBSET Parts) \ {{}}

\* The escrow is approved unless the node is told not to, or isNativeToken says that its
\* token is the coin of the chain: by the address of the coin, or by the symbol ETH, which
\* tokens of other contracts have as well.
Approves(node) == node.approve /\ ~node.native

\* The quote says how many secrets it takes.  They are kept in memory only.
Quote ==
    /\ pc = "quoted"
    /\ \E parts \in GenerateSecrets :
          /\ secrets' = [secrets EXCEPT ![Run] = parts]
          /\ todo' = parts
    /\ GoTo(IF Approves(Node) THEN "allowance" ELSE "build")
    /\ unfunded' = IF Approves(Node) THEN unfunded ELSE unfunded \cup {Run}
    /\ UNCHANGED <<flow, stored, copy, attempt, handle, chain, order, ready, revealed,
                   refused, torn, missed, past, faults>>

\* Mutant of CheckTokenAllowance: a token that was never approved passes.
CheckNothing ==
    /\ pc = "allowance"
    /\ GoTo("build")
    /\ unfunded' = IF allowance = "short" THEN unfunded \cup {Run} ELSE unfunded
    /\ UNCHANGED <<flow, stored, copy, calls, chain, orders, torn, missed, past, faults>>

\* needsApproval: any allowance but zero is taken for enough.
CheckTokenAllowance ==
    /\ pc = "allowance"
    /\ GoTo(IF allowance = "none" THEN "approve" ELSE "build")
    /\ unfunded' = IF allowance = "short" THEN unfunded \cup {Run} ELSE unfunded
    /\ UNCHANGED <<flow, stored, copy, calls, chain, orders, torn, missed, past, faults>>

\* An allowance that cannot be read is taken for none.
AllowanceUnread ==
    /\ pc = "allowance"
    /\ Fault
    /\ GoTo("approve")
    /\ UNCHANGED <<flow, stored, copy, calls, chain, orders, history>>

\* The approval is sent, not waited for.
ApproveToken ==
    /\ pc = "approve"
    /\ approving' = TRUE
    /\ GoTo("build")
    /\ UNCHANGED <<flow, stored, copy, calls, sent, allowance, orders, history, faults>>

\* "continuing anyway".
ApproveFails ==
    /\ pc = "approve"
    /\ Fault
    /\ GoTo("build")
    /\ unfunded' = unfunded \cup {Run}
    /\ UNCHANGED <<flow, stored, copy, calls, chain, orders, torn, missed, past>>

\* The order is built by 1inch, its maker checked, signed at Coinbase, and the signature
\* checked, ...
BuildEvmOrder == Goes("build", "built")
CheckMaker == Goes("built", "sign")
SignTypedData == Goes("sign", "signed")
CheckSignature == Goes("signed", "submit")

\* ... and it is placed.
SubmitOrder ==
    /\ pc = "submit"
    /\ order' = [order EXCEPT ![Run] = "live"]
    /\ GoTo("placed")
    /\ UNCHANGED <<flow, stored, copy, calls, chain, secrets, ready, revealed, refused,
                   history, faults>>

\* The answer has the hash, or is empty or no JSON, when the salt of the order is taken
\* for it, or names none.
Answer(h) ==
    /\ pc = "placed"
    /\ handle' = h
    /\ missed' = IF h = "hash" THEN missed ELSE missed \cup {Run}
    /\ GoTo("status")
    /\ UNCHANGED <<flow, stored, copy, attempt, todo, chain, orders, torn, unfunded, past,
                   faults>>

\* What a run does again when a call fails, if it has calls left.
Again(here, tries, there) ==
    /\ pc = here
    /\ GoTo(IF attempt + 1 < tries THEN here ELSE there)
    /\ attempt' = IF attempt + 1 < tries THEN attempt + 1 ELSE 0

\* The run of the node is over, and left no trace in the rows.
Dies ==
    /\ torn' = torn \cup {Run}
    /\ GoTo("idle")

\* Secrets are submitted only if the node is told to, and has what it takes for a hash.
Reveals == Node.reveal /\ handle # "none"

Status ==
    /\ pc = "status"
    /\ GoTo(IF Reveals THEN "poll" ELSE "result")
    /\ attempt' = 0
    /\ UNCHANGED <<flow, stored, copy, handle, todo, chain, orders, history, faults>>

StatusFails ==
    /\ attempt + 1 < StatusTries
    /\ Fault
    /\ Again("status", StatusTries, "idle")
    /\ UNCHANGED <<flow, stored, copy, handle, todo, chain, orders, history>>

\* The last failure ends the run, although the order is live.
StatusThrows ==
    /\ pc = "status" /\ attempt + 1 >= StatusTries
    /\ Fault
    /\ Dies
    /\ UNCHANGED <<flow, stored, copy, calls, chain, orders, missed, unfunded, past>>

\* The fills that wait for their secret, as far as the node can see.
Fills == IF handle = "hash" THEN ready[Run] ELSE {}

Poll ==
    /\ Fills # {}
    /\ Goes("poll", "reveal")

PollAgain ==
    /\ Fills = {}
    /\ Again("poll", PollTries, "result")
    /\ missed' = IF attempt + 1 < PollTries THEN missed ELSE missed \cup {Run}
    /\ UNCHANGED <<flow, stored, copy, handle, todo, chain, orders, torn, unfunded, past,
                   faults>>

PollFails ==
    /\ Fault
    /\ Again("poll", PollTries, "result")
    /\ missed' = IF attempt + 1 < PollTries THEN missed ELSE missed \cup {Run}
    /\ UNCHANGED <<flow, stored, copy, handle, todo, chain, orders, torn, unfunded, past>>

\* All secrets are submitted as soon as one fill waits.
SubmitSecret(p) ==
    /\ pc = "reveal" /\ p \in todo
    /\ todo' = todo \ {p}
    /\ revealed' = [revealed EXCEPT ![Run] = @ \cup {p}]
    /\ GoTo(IF todo = {p} THEN "result" ELSE "reveal")
    /\ UNCHANGED <<flow, stored, copy, attempt, handle, chain, order, secrets, ready,
                   refused, history, faults>>

\* Mutant of SecretFails: the first failure ends the loop.
SecretBreaks(p) ==
    /\ pc = "reveal" /\ p \in todo
    /\ Fault
    /\ todo' = {}
    /\ refused' = [refused EXCEPT ![Run] = @ \cup {p}]
    /\ GoTo("result")
    /\ UNCHANGED <<flow, stored, copy, attempt, handle, chain, order, secrets, ready,
                   revealed, history>>

\* One that fails is noted, and the next one submitted.
SecretFails(p) ==
    /\ pc = "reveal" /\ p \in todo
    /\ Fault
    /\ todo' = todo \ {p}
    /\ refused' = [refused EXCEPT ![Run] = @ \cup {p}]
    /\ GoTo(IF todo = {p} THEN "result" ELSE "reveal")
    /\ UNCHANGED <<flow, stored, copy, attempt, handle, chain, order, secrets, ready,
                   revealed, history>>

Result == Stores("result", "object")
-------------------------------------------------------------------------------
\* Names a node writes by its definition.
Named(node) ==
    CASE node.kind \in {"variable", "if", "http", "price", "wallet", "swap"} -> {node.out}
      [] node.kind = "code" -> {node.out} \cup {n \in Names : node.sets[n] # None}
      [] OTHER -> {}

\* Names a variable node writes besides.
Besides(node, s) ==
    IF node.kind # "variable" THEN {}
    ELSE (IF Plain(s) = {} THEN {} ELSE {"result"})
             \cup (IF Carriers(s) = {} THEN {} ELSE {n \in Names : Carried[n] # None})

\* The children that are scheduled: those the node names, or all if it names none.
Scheduled(node, named) == IF named = <<>> THEN node.next ELSE named

\* The worker stores what the run leaves.
Save ==
    /\ pc = "save"
    /\ state' = work
    /\ executed' = executed \cup {Current}
    /\ queue' = Tail(queue) \o Scheduled(Node, chosen)
    /\ GoTo("idle")
    /\ mixed' = (mixed \cup Besides(Node, state)) \ Named(Node)
    /\ written' = [n \in Names |-> IF n \in Named(Node) THEN work[n] ELSE written[n]]
    /\ decided' = IF Node.kind = "if" /\ Node.left \notin mixed
                  THEN decided \cup {<<Current, Holds(Node, written)>>} ELSE decided
    /\ UNCHANGED <<flow, copy, calls, chain, orders, excuses, faults>>

\* A node that is not implemented, and one that finds no wallet, throw.
NodeThrows ==
    /\ pc = "start"
    /\ \/ Node.kind = "error"
       \/ Node.kind \in {"transfer", "contract", "sign"} /\ ~HasWallet
    /\ Dies
    /\ UNCHANGED <<flow, stored, copy, calls, chain, orders, missed, unfunded, past,
                   faults>>

\* A call fails that the node does not guard, or a check: the node throws and its workflow
\* is terminated.  It may be initiated again.
Throws ==
    /\ pc \in {"start", "answer", "send", "wait", "account", "quote", "quoted", "build",
               "built", "sign", "signed", "submit", "placed"}
    /\ Fault
    /\ Dies
    /\ UNCHANGED <<flow, stored, copy, calls, chain, orders, missed, unfunded, past>>

\* The worker dies.  Its message is delivered again.
Crash ==
    /\ pc # "idle"
    /\ Fault
    /\ Dies
    /\ UNCHANGED <<flow, stored, copy, calls, chain, orders, missed, unfunded, past>>
-------------------------------------------------------------------------------
\* The chain takes a transaction, or reverts it.
Mine(r) ==
    /\ sent[r] = "sent" /\ flow[ran[r]].kind \in {"transfer", "contract"}
    /\ \E outcome \in {"mined", "reverted"} : sent' = [sent EXCEPT ![r] = outcome]
    /\ UNCHANGED <<flow, stored, running, allowance, approving, orders, history, faults>>

MineApproval ==
    /\ approving
    /\ approving' = FALSE
    /\ allowance' = "enough"
    /\ UNCHANGED <<flow, stored, running, sent, orders, history, faults>>

\* Orders that no resolver has begun to fill, and the run that is about to place one.
Unfilled == {r \in Runs : order[r] = "live" /\ ready[r] = {}}
Placing == IF pc \in {"build", "built", "sign", "signed", "submit"} THEN {Run} ELSE {}

\* An approval that is reverted, after the node took it for done.
ApprovalReverts ==
    /\ approving
    /\ Fault
    /\ approving' = FALSE
    /\ unfunded' = unfunded \cup Unfilled \cup Placing
    /\ UNCHANGED <<flow, stored, running, sent, allowance, orders, torn, missed, past>>

\* A resolver fills a part of an order.  The first one takes the allowance, which another
\* order then does not find.
Deploy(r, p) ==
    /\ order[r] = "live" /\ p \in secrets[r] \ ready[r]
    /\ ready[r] # {} \/ allowance = "enough"
    /\ ready' = [ready EXCEPT ![r] = @ \cup {p}]
    /\ IF ready[r] # {} THEN UNCHANGED <<allowance, unfunded>>
       ELSE /\ allowance' = "none"
            /\ unfunded' = unfunded \cup (Unfilled \ {r}) \cup Placing
    /\ UNCHANGED <<flow, stored, running, sent, approving, order, secrets, revealed,
                   refused, torn, missed, past, faults>>

\* An order nobody fills expires.
Expire(r) ==
    /\ r \in Unfilled
    /\ order' = [order EXCEPT ![r] = "expired"]
    /\ UNCHANGED <<flow, stored, running, chain, secrets, ready, revealed, refused,
                   history, faults>>

World ==
    \/ \E r \in 1..Run : Mine(r)
    \/ MineApproval \/ ApprovalReverts
    \/ \E r \in Runs : Expire(r) \/ \E p \in Parts : Deploy(r, p)
-------------------------------------------------------------------------------
Compute == Trigger \/ Variable \/ Code \/ IfElse

Request == Http \/ HttpAnswer \/ CoinGekko

Coinbase ==
    \/ CdpWallet \/ RequestFaucet \/ FaucetAnswers
    \/ CdpTransaction \/ TransferWithSmartAccount \/ WaitForTransaction
    \/ CdpSmartContract \/ InvokeContract \/ Confirmed \/ CdpSign

Approve == CheckTokenAllowance \/ ApproveToken

Swap ==
    \/ ResolveToken \/ CreateOrGetAccount \/ GetQuote \/ Quote \/ Approve
    \/ BuildEvmOrder \/ CheckMaker \/ SignTypedData \/ CheckSignature
    \/ SubmitOrder \/ (\E h \in {"hash", "salt", "none"} : Answer(h))
    \/ Status \/ Poll \/ PollAgain \/ (\E p \in Parts : SubmitSecret(p)) \/ Result

Works == Compute \/ Request \/ Coinbase \/ Swap \/ Save

Failure ==
    \/ AllowanceUnread \/ ApproveFails \/ StatusFails \/ StatusThrows \/ PollFails
    \/ (\E p \in Parts : SecretFails(p)) \/ Throws \/ Crash

Next == Begin \/ Works \/ NodeThrows \/ Failure \/ World

Spec == Init /\ [][Next]_vars

\* A run that has begun goes on, unless it fails.
FairSpec == Spec /\ WF_vars(Works)
-------------------------------------------------------------------------------
Pcs == {"idle", "start", "answer", "send", "wait", "account", "quote", "quoted",
        "allowance", "approve", "build", "built", "sign", "signed", "submit", "placed",
        "status", "poll", "reveal", "result", "save"}

TypeOK ==
    /\ flow \in Workflows
    /\ state \in States /\ work \in States /\ written \in States
    /\ queue \in Seq(DOMAIN flow) /\ executed \subseteq DOMAIN flow
    /\ pc \in Pcs
    /\ pc # "idle" => Run > 0
    /\ chosen \in Seq(DOMAIN flow)
    /\ attempt \in Nat
    /\ handle \in {"none", "hash", "salt"}
    /\ todo \subseteq Parts
    /\ ran \in Seq(DOMAIN flow) /\ Run <= Len(flow) + MaxReruns
    /\ sent \in [Runs -> {"none", "sent", "mined", "reverted"}]
    /\ allowance \in {"none", "short", "enough"} /\ approving \in BOOLEAN
    /\ order \in [Runs -> {"none", "live", "expired"}]
    /\ {secrets, ready, revealed, refused} \subseteq [Runs -> SUBSET Parts]
    /\ torn \subseteq Runs /\ missed \subseteq Runs /\ unfunded \subseteq Runs
    /\ decided \subseteq (DOMAIN flow) \X BOOLEAN
    /\ mixed \subseteq Names
    /\ faults \in Nat

\* Nodes that do something to the world.
Acts(node) ==
    \/ node.kind \in {"http", "transfer", "contract", "swap"}
    \/ node.kind = "wallet" /\ node.faucet

\* Runs that did.
Effects == {r \in 1..Run : sent[r] # "none" \/ order[r] # "none"}

(***************************************************************************)
(* A node does to the world once what it does, unless a run of it threw or *)
(* died after doing it: then the client or the queue has it run again, and *)
(* a transfer, a request, an order or a gift of coins is made twice.  A    *)
(* node whose result is stored has done it, and a transfer is in a block   *)
(* by then.                                                                *)
(***************************************************************************)
EffectsOnce ==
    /\ \A q, r \in Effects : q < r /\ ran[q] = ran[r] => q \in torn
    /\ \A n \in executed :
          Acts(flow[n]) =>
              \E r \in Effects \ torn :
                  /\ ran[r] = n
                  /\ flow[n].kind = "transfer" => sent[r] \in {"mined", "reverted"}

(***************************************************************************)
(* Of two branches the workflow takes the one that the condition of the if *)
(* node selects by what the nodes before it wrote, crashes or not, unless  *)
(* a variable node wrote that name besides its own.  (A single branch is   *)
(* taken either way: no child named means all children.)                   *)
(***************************************************************************)
Decides ==
    LET Taken == executed \cup {queue[i] : i \in DOMAIN queue}
    IN  \A d \in decided :
            LET children == flow[d[1]].next
            IN  Len(children) = 2 =>
                    /\ children[IF d[2] THEN 1 ELSE 2] \in Taken
                    /\ children[IF d[2] THEN 2 ELSE 1] \notin Taken

(***************************************************************************)
(* An order that waits to be filled has its token approved, or the         *)
(* approval is on its way, unless the node was told not to approve, took   *)
(* its token for the coin of the chain (any token that goes by ETH), found *)
(* an allowance that was too small, was refused the approval, or another   *)
(* order took it.                                                          *)
(***************************************************************************)
Funded == \A r \in Unfilled \ unfunded : allowance = "enough" \/ approving

(***************************************************************************)
(* When a resolver has filled a part of an order, its run answers with all *)
(* its secrets, each submitted or refused, unless the node was not told    *)
(* to, the run ended, did not learn the hash, or polled in vain before.    *)
(* Otherwise the funds are locked until the escrow times out.              *)
(***************************************************************************)
FundedIsAnswered ==
    \A r \in UNION {1..Len(w) + MaxReruns : w \in {v \in Workflows : Swaps(v)}} :
        (r <= Run /\ ready[r] # {} /\ flow[ran[r]].reveal)
            ~> \/ r \in torn \cup missed
               \/ r <= Run /\ revealed[r] \cup refused[r] = secrets[r]
===============================================================================
