SPECIFICATION Spec
CONSTANTS
  i1 = i1
  i2 = i2
  Targets <- OneTarget
  Names <- Eth
  FirstName <- CalledEth
  Rates = {0, 9, 10}
  RuleSets <- SampledOnly
  Elapsed <- Ticks
  MaxAge = 3
  MaxEdits = 0
  CanVanish = TRUE
  CanRename = FALSE
PROPERTIES MissingNeverTrips
