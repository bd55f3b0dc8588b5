SPECIFICATION FairSpec
CONSTANTS
  Study = {t1, t2}
  Contested = {t2}
  Note = {1, 2}
  Request = {r1, r2}
  Rival = {r2}
  Hook = {h1}
  None = None
  Reported = {t1, t2}
  MaxNumber = 3
  MaxFaults = 1
ACTION_CONSTRAINT OneScene
CHECK_DEADLOCK FALSE
INVARIANTS SignatureIsReal LockedByNote
PROPERTIES SentNotesKept SignatureRecorded SignedCloses
