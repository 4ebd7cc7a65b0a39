SPECIFICATION Spec
CONSTANTS
  Addresses <- MCAddresses
  Arguments <- MCArguments
  Foreign <- MCForeign
INVARIANTS
  TypeOK
  RoundTrip
  OnlyLastShort
  EscapesOnlyOnEmpty
  PrintStaysInside
