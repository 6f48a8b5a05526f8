\* Two items of every kind, then for a message its content type and parts.
SPECIFICATION CodecSpec
CONSTANTS
  Items <- MCItems
  Messages <- MCMessages
  MaxItems = 2
INVARIANTS
  InStep
  LengthsTrue
PROPERTIES
  ImplementsChannel
CHECK_DEADLOCK FALSE
