\* Requests that pin nothing and are never abandoned, fixed limits.
SPECIFICATION FairSpec
CONSTANTS
  a1 = a1  a2 = a2
  NoAccount = NoAccount
  Unset = Unset
  DefaultMaxInflight = 2
  Accounts = {a1, a2}
  Requests = {r1, r2, r3, r4, r5}
  Admins = {}
  Cancellable = {}
  Pinnable = {}
  Managed = {}
  Exclusions <- NoExclusions
  Settable = {}
  InitialAccounts <- TwoAccounts
  InitialRuntime <- Narrow
  InitialTokened = {a2}
INVARIANT NoLostWakeup
PROPERTY RefusedOnlyWhenOverloaded
PROPERTY WaitersAnswered
PROPERTY ImplementsSlotLeases
