CONSTANTS
  status = status
  question = question
  Sources = {status, question}
  MaxMsgs = 3
  Ending = {status}
SPECIFICATION FairSpec
INVARIANT TypeOK
PROPERTY InOrder
PROPERTY BrokenStreamReopened
PROPERTY ListenEndsOnCancel
CHECK_DEADLOCK FALSE
