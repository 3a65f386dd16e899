------------------------------- MODULE MCListing -------------------------------
(***************************************************************************)
(* Listing with pages of two out of up to five rows of two owners, in a    *)
(* locale that orders the names as JavaScript does, and in one that does   *)
(* not.                                                                    *)
(***************************************************************************)
EXTENDS Listing

MCCodes == {[k \in Keys |-> k], [k \in Keys |-> IF k = 2 THEN 3 ELSE IF k = 3 THEN 2 ELSE k]}

MCOwnerOf == [k \in Keys |-> k % 2]
===============================================================================
