CONSTANTS
  Payload = {v1, v2, v3}
  None = None
SPECIFICATION FairLinkSpec
INVARIANTS
  LinkInv
PROPERTIES
  ImplementsMailbox
  Arrives
