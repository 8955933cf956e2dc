SPECIFICATION Spec
CONSTANTS
  Size = 8
  WordLen = 2
  Byte <- MCByte
  Validity <- MCValidity
  LenBytes <- MCLenBytes
  LenValue <- MCLenValue
  Payloads <- PhantomPayloads
  RecvCaps = {1}
  MaxInline = 4
  MaxSendWr = 4
  CqSize = 1
  MaxMsgs = 2
INVARIANT
  AcceptedIsComplete
