\* Logins that fail, switches, refreshes, a hang-up and a reconfiguration.
SPECIFICATION AuthSpec
CONSTANTS
  a1 = a1  a2 = a2
  NoAccount = NoAccount
  Unset = Unset
  DefaultMaxInflight = 2
  Accounts = {a1, a2}
  Requests = {r1, r2}
  Admins = {m1}
  Cancellable = {r1}
  Pinnable = {a1}
  Managed = {a2}
  Exclusions <- NoExclusions
  Settable = {}
  InitialAccounts <- TwoAccounts
  InitialRuntime <- Single
  InitialTokened = {a2}
  LoginFails = {a1, a2}
  RefreshDue = {a2}
INVARIANT ServedOnOwnSlot
INVARIANT InUseNeverOvercounts
PROPERTY GivesUpExactlyAfterAll
