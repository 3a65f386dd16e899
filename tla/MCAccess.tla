-------------------------------- MODULE MCAccess --------------------------------
(***************************************************************************)
(* Access with two users.  A server may be started with either of them as  *)
(* the owner, and with another spelling of the address of one.             *)
(***************************************************************************)
EXTENDS Access, TLC

CONSTANTS u1, u2

MCOwners == {<<u1, TRUE>>, <<u1, FALSE>>, <<u2, TRUE>>}

\* Somebody as a developer, and as an owner to be.
MCNamed == {<<u2, TRUE, "Developer">>, <<u2, TRUE, "PlatformOwner">>}

\* Roles and secrets have nothing to do with each other; they meet logins and logouts in
\* the session that a request was let in with.
MCMixes == {SessionOps, RoleOps \cup {"logout"}, SecretOps \cup {"logout"}}

\* The requests and the secrets differ in nothing but their names.
MCSymmetry == Permutations(Requests) \cup Permutations(Secrets)
===============================================================================
