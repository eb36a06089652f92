---------------------------- MODULE MCManagedAuth ----------------------------
(***************************************************************************)
(* Small instances of the resolver on top of the pool for TLC.             *)
(***************************************************************************)
EXTENDS ManagedAuth

CONSTANTS a1, a2

TwoAccounts == <<a1, a2>>
(* One slot per account, a queue for everybody.                            *)
Single == [per |-> 1, queue |-> 4, global |-> Unset]
(* AcquireWait always starts without exclusions.                           *)
NoExclusions == {{}}
=============================================================================
