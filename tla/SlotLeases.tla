------------------------------ MODULE SlotLeases ------------------------------
(***************************************************************************)
(* What the account pool promises its callers, without queue, counters or  *)
(* waiting: at any time at most PerAccount requests lease one account, at  *)
(* most Global lease any, and a lease ends only when its holder ends it.   *)
(***************************************************************************)
EXTENDS Naturals, FiniteSets

CONSTANTS Accounts, Requests, NoAccount, PerAccount, Global

VARIABLE lease     \* the account each request leases, or NoAccount

LeaseHolders(a) == {r \in Requests : lease[r] = a}
Leased == {r \in Requests : lease[r] # NoAccount}

Init == lease = [r \in Requests |-> NoAccount]

Take(r, a) ==
  /\ lease[r] = NoAccount
  /\ Cardinality(LeaseHolders(a)) < PerAccount
  /\ Global > 0 => Cardinality(Leased) < Global
  /\ lease' = [lease EXCEPT ![r] = a]

Give(r) ==
  /\ lease[r] # NoAccount
  /\ lease' = [lease EXCEPT ![r] = NoAccount]

Next == \E r \in Requests : Give(r) \/ \E a \in Accounts : Take(r, a)

Spec == Init /\ [][Next]_lease
=============================================================================
