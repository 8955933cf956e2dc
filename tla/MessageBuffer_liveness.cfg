SPECIFICATION FairSpec
CONSTANTS
  Size = 8
  WordLen = 2
  Byte <- MCByte
  Validity <- MCValidity
  LenBytes <- MCLenBytes
  LenValue <- MCLenValue
  Payloads <- LivePayloads
  RecvCaps = {1}
  MaxInline = 4
  MaxSendWr = 4
  CqSize = 1
  MaxMsgs = 3
PROPERTIES
  SendReturns
  ImplementsFifo
  EveryMessageArrives
