\* Unit ids 1 and 2 are the ones a charger is known to use, 5 is another.
CONSTANTS
  None = None
  DefaultUnit = 2
  FallbackUnit = 1
  Boxes <- MCBoxes
  Devices <- MCDevices
  Units = {1, 2, 5}

SPECIFICATION FairSpec

INVARIANTS
  TypeOK
  RootIsTheDevice
  KnownProfileDecodesRight
  SlotTypesAreTrue
  EveryEntityIsRead

PROPERTIES
  EntryComesUp
