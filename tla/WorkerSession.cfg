SPECIFICATION FairSessionSpec
CONSTANTS
  Tasks = {t1}
  MaxEpoch = 3
  MaxTaskDecisions = 3
  MaxTaskCalls = 3
  MaxTaskAttempts = 1
  MaxEpisode = 2
  NoProgressLimit = 2
  ControlPage = 2
  MaxControls = 2
  MaxFaults = 1
INVARIANTS AnswerForAsker WithinTaskBudget
PROPERTIES InputNotReplayed SessionEnds
CHECK_DEADLOCK FALSE
