CONSTANTS
  LocalPart = {lp}
  Domain = {d1, d2}
  Registration = {reg1, reg2}
  Login = {l1, l2}
  Finish = {f1, f2}
  MaxSigned = 2
  StoreHasInterface = FALSE
SPECIFICATION AccountsSpec
INVARIANT BeginsAnswered
CHECK_DEADLOCK FALSE
