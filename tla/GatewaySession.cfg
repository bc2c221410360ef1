\* Two channels and two goroutines; one statement may fail and the gateway die once.
SPECIFICATION FairSpec
CONSTANTS
  Channels = {c1, c2}
  Workers = {w1, w2}
  Free = Free
  MaxMessages = 3
  MaxFaults = 1
  MaxCrashes = 1
INVARIANTS TypeOK ConversationBelongs ConversationsNotShared ContextKept SavedMatchesRunner
PROPERTY MessagesAnswered
CHECK_DEADLOCK FALSE
