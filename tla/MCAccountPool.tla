---------------------------- MODULE MCAccountPool ----------------------------
(***************************************************************************)
(* Small instances of the pool under its callers for TLC.                  *)
(***************************************************************************)
EXTENDS AccountPoolClients

CONSTANTS a1, a2

TwoAccounts == <<a1, a2>>
OneAccount == <<a1>>

(* Two slots per account, two in all, one place in the queue.              *)
Tight == [per |-> 2, queue |-> 1, global |-> 2]
(* One slot per account; a queue for everybody; no global limit of its own *)
Single == [per |-> 1, queue |-> 4, global |-> Unset]
(* Two slots and two places to wait.                                       *)
Narrow == [per |-> 1, queue |-> 2, global |-> Unset]
(* Nothing configured: every limit is derived.                             *)
Derived == [per |-> Unset, queue |-> Unset, global |-> Unset]

NoExclusions == {{}}
SomeExclusions == {{}, {a1}}
SettingsChoices == {Tight, Derived}
=============================================================================
