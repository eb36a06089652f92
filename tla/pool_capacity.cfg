\* Pinned and excluding requests, hang-ups, Resets and limits changed while slots are in use.
SPECIFICATION Spec
CONSTANTS
  a1 = a1  a2 = a2
  NoAccount = NoAccount
  Unset = Unset
  DefaultMaxInflight = 2
  Accounts = {a1, a2}
  Requests = {r1, r2, r3}
  Admins = {m1}
  Cancellable = {r1}
  Pinnable = {a1}
  Managed = {a2}
  Exclusions <- SomeExclusions
  Settable <- SettingsChoices
  InitialAccounts <- TwoAccounts
  InitialRuntime <- Tight
  InitialTokened = {a2}
INVARIANT SlotsMatchHolders
INVARIANT NoAbandonedWaiter
PROPERTY GrantWithinLimits
