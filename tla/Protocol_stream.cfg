\* Every request over a stream that may be cut anywhere.
SPECIFICATION Spec
CONSTANTS
  Text <- MCText
  Asks <- MCAsks
  MaxRequest = 11
  MaxField = 3
INVARIANTS WholeLineOnly ActedAsAsked
PROPERTIES IsExchange
CHECK_DEADLOCK FALSE
