\* Two requests, tokens and client addresses, two passwords; a window of one
\* tick, sessions of two.  Two callers of two feed keys.  Three simulated orders.
CONSTANTS
  r1 = r1
  r2 = r2
  t1 = t1
  t2 = t2
  a1 = a1
  a2 = a2
  c1 = c1
  c2 = c2
  f1 = f1
  f2 = f2
  i1 = i1
  i2 = i2
  i3 = i3
  x = x
  y = y
  Request = {r1, r2}
  Token = {t1, t2}
  Address = {a1, a2}
  Window = 1
  Lifetime = 2
  RenewAfter = 1
  PerAddress = 1
  Overall = 2
  MaxPassword = 2
  MaxTime = 2
  Caller = {c1, c2}
  Feed = {f1, f2}
  Gap = 2
  LastTick = 7
  Id = {i1, i2, i3}
  Coin = {x, y}
  Price = {1, 2}
  Amount = {2, 4}
  Opening = 8
  Unit = 10
  Fee = 1
  Moving = {1, 2, 3}
  Contested = {3}
  Items <- MCItems
  Refreshing = {1, 2}
  Alone = {1}
  Currencies = {"eur", "coin"}
  Funds <- MCFunds
  Second = 2
  Day = 2
  LookBack = 3
  Reach = 1
  Backfill = 6
  FreshFor = 0
  LastSecond = 4
  MaxReversals = 2
  Transactions = 2
  Lag = 2
  Overlap = 2
  Span = 3
  PageSize = 1
  LastRead = 6
SPECIFICATION MCSpec
SYMMETRY Symmetry
INVARIANTS
  SessionsOfPassword
  AttemptsBounded
  Solvent
  TrueHistory
  NothingSkipped
PROPERTIES
  NeverRevived
  Coalesced
  HistoryKept
CHECK_DEADLOCK FALSE
