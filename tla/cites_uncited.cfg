SPECIFICATION PipelineSpec
CONSTANTS
  Asks = {ask1}
  Retrieved = {chunk}
  Stray = stray
  JudgeMax = 1
  RowsMax = 2
  MaxLosses = 1
INVARIANT
  AnsweredCites
CHECK_DEADLOCK FALSE
