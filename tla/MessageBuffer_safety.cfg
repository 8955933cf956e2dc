SPECIFICATION Spec
CONSTANTS
  Size = 8
  WordLen = 2
  Byte <- MCByte
  Validity <- MCValidity
  LenBytes <- MCLenBytes
  LenValue <- MCLenValue
  Payloads <- MCPayloads
  RecvCaps = {1}
  MaxInline = 4
  MaxSendWr = 4
  CqSize = 1
  MaxMsgs = 4
INVARIANTS
  TypeOK
  InOrderExactlyOnce
  NoOverrun
  FreeIsZero
  AcceptedIsComplete
  SendQueueNeverFull
  CqNeverOverruns
  HasDataNonBlocking
PROPERTIES
  AcceptedStable
  InFlightStable
