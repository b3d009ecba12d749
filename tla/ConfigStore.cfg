SPECIFICATION FairSpec
CONSTANTS
  Sane <- SaneOf
  Sent <- SentOf
  Default <- DefaultOf
  ERASED = 255
  ROWS = 4
INVARIANTS AckedSurvives SpareIsErased
PROPERTIES ImplementsSettings NeverOverwrites Recovers
