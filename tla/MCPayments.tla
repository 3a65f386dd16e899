------------------------------ MODULE MCPayments ------------------------------
(***************************************************************************)
(* Payments on a short chain: two transfers to one user, in two blocks,    *)
(* the second too small for a credit, and one to another user beside it.   *)
(***************************************************************************)
EXTENDS Payments, TLC

CONSTANTS u1, u2, stranger

Transfer(block, payee, raw, chainId) ==
    [block |-> block, payee |-> payee, raw |-> raw, scale |-> 1000, chain |-> chainId]

\* On chain 1, one credit for u1 and then less than a credit; on another chain, two
\* credits for u2.
MCLog == <<Transfer(1, u1, 1, 1), Transfer(2, u1, 0, 1), Transfer(2, u2, 2, 5)>>

\* One payment on the chain the system is deployed for.
MCSepoliaLog == <<Transfer(1, u1, 1, 11155111)>>
===============================================================================
