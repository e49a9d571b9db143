CONSTANTS
  Ids = {1}
  MaxConcurrent = 2
  MaxBody = 1
  MaxRuns = 2
  Sessions = {s1}
  Served = s1
  MaxSessions = 1
SPECIFICATION FairRemoteSpec
INVARIANT AnsweredOnce
 
PROPERTY RequestsAnswered
CHECK_DEADLOCK FALSE
