SPECIFICATION FairSpec
CONSTANTS
  Specs <- PinOnly
  MaxEdits = 1
  MaxTampers = 0
  MaxAborts = 0
PROPERTIES
  MatchesDesired
