CONSTANTS
  None = None
  Blank = Blank
  OverPopup = OverPopup
  Outside = Outside
  kd = kd
  kn = kn
  kb = kb
  kt = kt
  ku = ku
  cx = cx
  cw = cw
  e1 = e1
  e2 = e2
  e3 = e3
  Char <- MCChar
  Japanese <- MCJapanese
  Wide <- MCWide
  Rules <- MCRules
  Groups <- MCGroups
  Headword <- MCHeadword
  MaxScan = 4
  Articles <- MCArticles
  Feed <- MCFeed
  Spots <- MCSpots
  Words = {e2, e3}
  Patient = TRUE
  MaxChanges = 1
  MaxRefills = 1
SPECIFICATION Spec
INVARIANTS
  NothingLeftBehind
  PopupShowsHovered
  UnderlinesFollowDeck
PROPERTIES
  PopupGoesAway
