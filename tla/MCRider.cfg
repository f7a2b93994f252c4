CONSTANTS
  MaxFaults = 1
  MaxHails = 2
  MaxInbox = 1
  home = home
  town = town
  ewr = ewr
  Places = {home, town, ewr}
  NoPlace = NoPlace
  Here = home
  Airports = {ewr}
  Terminals = {ewr}
  NamedEwr = {ewr, town}
  Miles <- MCMiles
  AiAnswers <- MCAiAnswers
  MaxTexts = 1
  MaxPicks = 2
  Rated = {t1, t2}
  MaxScreens = 3
  MaxStars = 2
SPECIFICATION Spec
INVARIANTS
  QuoteHonoured
  RatingsAgree
PROPERTIES
  EndIsShown
CHECK_DEADLOCK FALSE
