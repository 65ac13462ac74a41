SPECIFICATION TickSpec
CONSTANTS
  Pids = {1, 2, 3}
  Programs = {"app", "reaper"}
  BinOf <- MCBinOf
  ExeOf <- MCExeOf
  ScopeOf <- MCScopeOf
  GameOf <- MCGameOf
  NoName = ""
  NoGame = ""
  Subreapers = {1}
  MaxEvents = 2
  Owners = {"u", "v"}
  Launcher = "steam"
  NormalOf <- MCNormalOf
  Sessions = {"s1", "s2"}
  Setups <- MCSetups
  MaxChanges = 2
INVARIANTS
  TickTypeOK
  NoSecondVisit
  SystemNamesKept
  SessionsJudged
  SteadyCounted
PROPERTIES
  TickEnds
CHECK_DEADLOCK FALSE
