CONSTANTS
  Threads = {t1, t2, t3}
  NoThread = NoThread
  MaxHolds = 3
SPECIFICATION FairSpec
INVARIANTS Exclusion FieldsMatchHolds NoLostWakeup NoPanic
PROPERTIES Implements SleepersWake UpgradeCompletes
