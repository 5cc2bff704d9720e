SPECIFICATION Spec
CONSTANTS
  Subs = {"a", "b", "c", "w"}
  ConnOf <- MCConnOf
  TopicOf <- MCTopicOf
  GroupOf <- MCGroupOf
  MatchesOf <- MCMatchesOf
  Publishers = {1}
  Subjects = {"t"}
  DropSlow = TRUE
  Words = {"t", "u"}
  MaxTokens = 4
  NoConn = 0
  NoGroup = "none"
  NoSub = "nosub"
CHECK_DEADLOCK FALSE
INVARIANTS NoResidue Reached GroupServedOnce
