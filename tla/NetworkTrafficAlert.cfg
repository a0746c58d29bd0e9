SPECIFICATION FairSpec
CONSTANTS
  i1 = i1
  i2 = i2
  Targets <- TwoTargets
  Names <- EthLan
  FirstName <- CalledBoth
  Rates = {0, 9, 10}
  RuleSets <- TwoTargetRules
  Elapsed <- Ticks
  MaxAge = 3
  MaxEdits = 1
  CanVanish = FALSE
  CanRename = FALSE
INVARIANTS DashboardShowsEpisodes
PROPERTIES EpisodesAreMeasured EpisodesFollowRates
