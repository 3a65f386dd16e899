------------------------------- MODULE MCAccounts -------------------------------
(***************************************************************************)
(* Accounts with prices of one or two credits.                             *)
(***************************************************************************)
EXTENDS Accounts, TLC

Amount(unified, cdp) == [k \in Kinds |-> IF k = "unified" THEN unified ELSE cdp]

\* Enough for an image, but not after anything else.
MCInitial == Amount(2, 1)

MCDelta ==
    [op \in Ops |-> CASE op = "grant" -> Amount(2, 1)
                      [] op = "take"  -> Amount(1, 1)
                      [] op = "store" -> Amount(2, 0)
                      [] op = "open"  -> Amount(0, 1)
                      [] op = "run"   -> Amount(1, 0)
                      [] OTHER        -> Amount(0, 0)]

\* Users differ in what they have, requests in what they ask, servers in what they count.
MCSymmetry == Permutations(Users) \cup Permutations(Requests) \cup Permutations(Servers)
===============================================================================
