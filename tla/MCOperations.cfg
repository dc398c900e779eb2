SPECIFICATION Spec
CONSTANTS
  Target = 4
  MaxTouches = 8
  MaxGallery = 3
  Scores <- MCScores
  Reports <- MCReports
INVARIANTS
  TypeOK
  PrintIsWhole
  ToldIsRetained
  GalleryBeforeTouch
  MatchIsBest
  DecisionsAreFresh
CHECK_DEADLOCK FALSE
