CONSTANTS
  Popular = {"irb"}
  Locations = {"irb", "mck"}
  User = user
  None = none
  Campus = campus
  MaxTaps = 2
SPECIFICATION MapSpec
INVARIANT DirectionsOfPin
