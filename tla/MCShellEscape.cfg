SPECIFICATION EscapeSpec
CONSTANTS
  Byte <- MCByte
  MaxLen = 4
INVARIANTS
  RoundTrip
  Fits
CHECK_DEADLOCK FALSE
