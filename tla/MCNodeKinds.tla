------------------------------ MODULE MCNodeKinds -------------------------------
(***************************************************************************)
(* NodeKinds on workflows of a few nodes.                                  *)
(***************************************************************************)
EXTENDS NodeKinds, TLC

MCNames == {"x", "y", "result", "wallet", "out"}

Unset == [n \in MCNames |-> None]

MCCarried == [Unset EXCEPT !["x"] = "text1"]

Basic(kind, next) ==
    [kind |-> kind, out |-> "out", left |-> None, right |-> "object", type |-> "string",
     sets |-> Unset, faucet |-> FALSE, approve |-> FALSE, native |-> FALSE, reveal |-> FALSE,
     next |-> next]

Set(name, v, next) == [Basic("variable", next) EXCEPT !.out = name, !.right = v]
Copy(name, from, type, next) ==
    [Basic("variable", next) EXCEPT !.out = name, !.left = from, !.type = type]
Script(result, x, next) ==
    [Basic("code", next) EXCEPT !.out = "y", !.right = result, !.sets["x"] = x]
If(name, v, next) == [Basic("if", next) EXCEPT !.left = name, !.right = v]
WalletNode(faucet, next) == [Basic("wallet", next) EXCEPT !.out = "wallet", !.faucet = faucet]
SwapNode(approve, native, reveal) ==
    [Basic("swap", <<>>) EXCEPT !.approve = approve, !.native = native, !.reveal = reveal]

\* Swaps; nodes of the wallet, and without it; conditions on names that were set, and on
\* names that were overwritten, with one branch or two.
MCWorkflows ==
    {<<SwapNode(approve, FALSE, reveal)>> : approve \in BOOLEAN, reveal \in BOOLEAN}
    \cup {<<SwapNode(TRUE, TRUE, reveal)>> : reveal \in BOOLEAN}
    \cup {<<WalletNode(faucet, <<2>>), Basic(kind, <<>>)>> :
             faucet \in BOOLEAN, kind \in {"transfer", "contract", "sign"}}
    \cup {<<Basic("trigger", <<2>>), Basic(kind, <<3>>), Basic("transfer", <<>>)>> :
             kind \in {"http", "price", "error"}}
    \cup {<<Script(result, v, <<2>>), Copy("result", "x", type, <<3>>),
            If(name, "text1", <<4, 5>>), Basic("http", <<>>), Basic("price", <<>>)>> :
             result \in {"object", "carrier"}, v \in {"zero", "one"},
             type \in {"raw", "number"}, name \in {"x", "result"}}
    \cup {<<Set("x", "text1", <<2>>), second, If(name, "text1", <<4>>), Basic("http", <<>>)>> :
             second \in {Copy("y", "x", "string", <<3>>), Copy("y", "out", "number", <<3>>)},
             name \in {"x", "y", "result"}}
===============================================================================
