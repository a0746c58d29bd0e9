SPECIFICATION Spec
CONSTANTS
  i1 = i1
  i2 = i2
  Targets <- OneTarget
  Names <- EthLan
  FirstName <- CalledEth
  Rates = {0, 9, 10}
  RuleSets <- SampledOrNone
  Elapsed <- Ticks
  MaxAge = 3
  MaxEdits = 2
  CanVanish = FALSE
  CanRename = TRUE
INVARIANTS NoAlertWithoutRule
