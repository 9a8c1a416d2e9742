\* Every operation on small trees, dying, being refused a write and being resumed between
\* any two lines, and branches, compactions and labels of one session taken out into another.
SPECIFICATION Spec
CONSTANTS
  MaxEntries = 4
  MaxFiles = 2
  Limits <- SmallLimits
INVARIANTS
  SavedSinceFirstAnswer
  CutLineCostsTwoEntries
  LabelsAreReplayed
PROPERTIES
  HistoryKept
  BranchedKeepsLabels
  BranchedKeepsConversation
\* A session ends when its bounds are reached.
CHECK_DEADLOCK FALSE
