SPECIFICATION FairSpec
CONSTANT Addresses = {1, 2}
INVARIANTS
  TypeOK
  EpoutIntact
  MountedIsPolled
PROPERTY StaysUsable
