SPECIFICATION Spec
CONSTANTS
  Days = 2
  None = None
  TailPrices <- MCTailPrices
  MaxHedges = 2
  ZMagnitudes <- MCZMagnitudes
  SpreadProfits <- MCSpreadProfits
  Nets <- MCNets
  MaxHoldingTicks = 3
  StopCooldown = 3
  ExitCooldown = 2
  SpreadPremium = 25
  ExitCost = 20
  MaxGapTicks = 5
  GapOpenings <- MCGapOpenings
  GapPrices <- MCGapPrices
  InsurancePrices <- MCInsurancePrices
  Skews <- MCSkews
  ExpiryMode = "D-4"
  DaysToExpiry <- MCDaysToExpiry
  StranglePrices <- MCStranglePrices
  Budgets <- MCBudgets
  StrangleProfits <- MCStrangleProfits
  StrangleTarget = 30
  EventProfits <- MCEventProfits
  EventTarget = 400
  EventPremium = 250
INVARIANTS
  StopsHonoured
  TypeOK
PROPERTIES
  BeliefFollowsSignals
  EntriesRationed
CHECK_DEADLOCK FALSE
