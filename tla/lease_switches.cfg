\* The account of one stream is switched while its lease expires, is released and
\* swept; its Node function may die or lose a call.  The other stream waits for
\* slots: for ever, when they are kept by the lease of the first.
SPECIFICATION FairSpec
CONSTANTS
  a1 = a1  a2 = a2
  NoAccount = NoAccount
  Unset = Unset
  DefaultMaxInflight = 2
  Accounts = {a1, a2}
  Requests = {s1, s2}
  Switching = {s1}
  Faulty = {s1}
  Expiring = {s1}
  InitialAccounts <- TwoAccounts
  InitialRuntimes <- JustOneSlot
PROPERTY PreparesAnswered
PROPERTY LeasesEnd
CHECK_DEADLOCK FALSE
