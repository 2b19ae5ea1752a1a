SPECIFICATION LiveSpec
CONSTANTS
    MaxRound = 2
    MaxChanges = 2
    MaxTroubles = 1
    MaxLag = 2
    PageLimit = 1
    EventCap = 1
  
PROPERTIES GenerationsNeverFall MirrorCertifies
CHECK_DEADLOCK FALSE
