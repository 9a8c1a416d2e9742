\* A labelled conversation goes on, and is cloned.
SPECIFICATION Spec
CONSTANTS
  MaxEntries = 4
  MaxFiles = 2
  Limits <- CloneLimits
PROPERTY CloneKeepsConversation
\* A session ends when its bounds are reached.
CHECK_DEADLOCK FALSE
