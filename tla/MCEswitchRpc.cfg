SPECIFICATION FairSpec
CONSTANTS
  Calls = {c1, c2}
  NoCall = NoCall
  Retries = 1
  MaxRestarts = 1
CHECK_DEADLOCK FALSE
INVARIANTS
  TypeOK
  AnswerIsMine
  SocketReady
  NoLateService
PROPERTIES
  CallSpec
  CallsEnd
