CONSTANTS
  Nothing = Nothing
  Questions <- MCQuestions
  ChanSize <- MCChanSize
  PipeSize = 3
SPECIFICATION FairSpec
INVARIANTS TypeOK OneQuestion
PROPERTIES ImplementsCommand CallReturns LeavesNothing
