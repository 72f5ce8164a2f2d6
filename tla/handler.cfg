CONSTANTS
  Profile <- MCProfile
  NoProfile = NoProfile
  Message <- MCMessage
  Fill <- MCFill
  MaxSwaps = 1
SPECIFICATION Spec
INVARIANTS OneReply AddressWritesOut OneSnapshot OverloadAsksUnderLoad
