SPECIFICATION MCSpec
CONSTANTS
  p1 = p1
  p2 = p2
  p3 = p3
  i1 = i1
  i2 = i2
  t1 = t1
  t2 = t2
  Prompts = {p1, p2, p3}
  Ideas = {i1, i2}
  Titles = {t1}
  Home = "home"
  Scout = "scout"
  ItemLimit = 2
  IdeaLimit = 2
  ItemHistory = 1
  IdeaHistory = 1
  BareCaptures = TRUE
  MaxAsks = 3
  MaxReviews = 1
  MaxCrashes = 1
INVARIANT StartupSucceeds
CHECK_DEADLOCK FALSE
