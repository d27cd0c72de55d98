SPECIFICATION Spec
CONSTANTS
  TypeOf <- AllTypes
  Goroutine <- Goroutines
  NShards = 2
  Keys = {0, 97}
  ctrlers <- Controllers
  Configs <- SomeConfigs
  Values = {"", "v"}
  Client = client
  Tester = {t1, t2}
  TesterTypes <- TestCapital
  None = None
  MaxOps = 2
  MaxBad = 3
CHECK_DEADLOCK FALSE
INVARIANTS
  TypeOK
  ReplyIsAnswer
  ComplainOnce
  RefusedGroupLeft
PROPERTY OpReturns
