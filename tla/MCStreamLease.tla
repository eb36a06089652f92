---------------------------- MODULE MCStreamLease ----------------------------
(***************************************************************************)
(* Small instances of the stream leases for TLC.                           *)
(***************************************************************************)
EXTENDS StreamLease

CONSTANTS a1, a2

TwoAccounts == <<a1, a2>>
(* One slot per account, a queue for everybody.                            *)
Single == [per |-> 1, queue |-> 4, global |-> Unset]
(* Two accounts of which one may be in use at a time.                      *)
OneAtATime == [per |-> 1, queue |-> 4, global |-> 1]

OneSlotEach == {Single}
OneSlotEachOrRefused == {Single, [Single EXCEPT !.queue = 0]}
JustOneSlot == {OneAtATime}
=============================================================================
