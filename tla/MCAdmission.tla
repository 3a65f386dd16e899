------------------------------ MODULE MCAdmission ------------------------------
(***************************************************************************)
(* Admission with a batch of two that is deleted once, a batch of one that *)
(* is deleted twice, one cron job and one workflow loaded, each alone in   *)
(* the system.                                                             *)
(***************************************************************************)
EXTENDS Admission, TLC

CONSTANTS b, s, k, l, d1, d2, d3

MCSize == b :> 2 @@ s :> 1 @@ k :> 2 @@ l :> 1

MCTarget == d1 :> b @@ d2 :> s @@ d3 :> s

\* Clients initiate the runs of the cron job and the workflow loaded.
MCStartable == {<<k, 1>>, <<k, 2>>, <<l, 1>>}

\* Of the batch of two, one workflow does not fill its trace.
MCLong == Jobs \ {<<b, 2>>}
===============================================================================
