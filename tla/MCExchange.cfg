SPECIFICATION ExchangeFairSpec
CONSTANTS
  LineLen = 2
  HeadLen = 4
  BodyLen = 3
  AnswerLen = 5
  BufSize = 4
  ChunkSize = 2
  PipeSize = 4
  MaxAddresses = 2
  Descriptors = 3
  MaxRequests = 3
INVARIANTS ReadAsSent AnswerWhole DescriptorsExplained
PROPERTIES BrowserReturns
CHECK_DEADLOCK FALSE
