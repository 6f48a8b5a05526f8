\* One name set by its own setter, one of the protocol and the content type by name.
SPECIFICATION Spec
CONSTANTS
  Names = {"Content-Type", "X-Mms-Message-Type", "X-Mms-Transaction-Id", "X-Mms-MMS-Version", "X-Mms-Delivery-Report", "X-Mms-Read-Report", "From", "To", "Subject", "X-Mms-Expiry", "Date"}
  Open = {"X-Mms-Transaction-Id", "Content-Type"}
  Texts = {"a"}
  Charsets = {"utf8"}
  Settable = {"From"}
  Numbers = {"7"}
  Times = {"t"}
  Token = "insert"
  ContentTypes = {"ct"}
  Plain = "plain"
  Received <- MCReceived
  Absent = Absent
  Unknown = Unknown
INVARIANTS
  WholeIsRead
  ProtocolFirst
PROPERTIES
  ImplementsFields
CHECK_DEADLOCK FALSE
