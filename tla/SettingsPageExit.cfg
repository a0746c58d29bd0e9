SPECIFICATION SettingsSpec
CONSTANTS
    Contents <- UserContents
    ThresholdPairs <- UserCategories
    RuleLists <- UserRules
PROPERTIES SavedOnExit
CHECK_DEADLOCK FALSE
