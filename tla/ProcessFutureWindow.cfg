SPECIFICATION TimedSpec
CONSTANTS
  Controllers = {c1}
  Editors = {c2}
  Ids = {"a", "b"}
  NoId = "none"
  Initial <- OneToCome
  Plans <- Moved
  Additions <- Another
  MaxEntries = 2
  MaxTime = 1
  Never = 2
  Cadences = {TRUE, FALSE}
  Budget <- NoCalls
PROPERTIES
  FutureWindowRuns
CHECK_DEADLOCK FALSE
