\* Dying Node functions, lost calls and expiring leases; no account is switched.
\* A stream that waits for the slot of an expired lease may wait for ever.
SPECIFICATION Spec
CONSTANTS
  a1 = a1  a2 = a2
  NoAccount = NoAccount
  Unset = Unset
  DefaultMaxInflight = 2
  Accounts = {a1, a2}
  Requests = {s1, s2, s3}
  Switching = {}
  Faulty = {s1}
  Expiring = {s1, s2}
  InitialAccounts <- TwoAccounts
  InitialRuntimes <- OneSlotEachOrRefused
INVARIANT OneKeeperPerSlot
CHECK_DEADLOCK FALSE
