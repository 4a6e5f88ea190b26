CONSTANTS
  Popular = {"irb"}
  Locations = {"irb", "mck"}
  User = user
  None = none
  Campus = campus
  MaxTaps = 3
SPECIFICATION MapSpec
INVARIANTS
  MapTypeOK
  PinIsLastTap
  AloneTripShown
  NoOldDirections
PROPERTY
  EveryTapServed
