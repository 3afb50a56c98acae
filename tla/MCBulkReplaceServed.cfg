SPECIFICATION Spec
CONSTANTS
  long = long
  short = short
  fixed = fixed
  bytes = bytes
  Arrays <- MCArrays
  First <- MCFirst
  binary <- MCBinary
  dynamic <- MCDynamic
  Stops <- Indices
  Starts <- Indices
INVARIANTS
  CallsServed
\* RangeChecked, in its place, fails in the first state.
\*  RangeChecked
