SPECIFICATION Spec
CONSTANTS
  FastFailWindow = 1
  Debounce = 2
  MinGap = 3
  FirstBase = 4
  FirstWindow = 2
  BackstopBase = 6
  BackstopWindow = 2
  PostDelay = 1
  Phrases = 2
  MaxAttempts = 3
  Routes <- AllRoutes
  Old = 14
PROPERTY
  FloorBetweenPosts
