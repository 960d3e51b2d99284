CONSTANTS
  NumElem = 4
  CounterMod = 16
  NullPtr = NullPtr
  ConsumerLoops = {"engine", "logger", "test"}
  MaxElems = 9
SPECIFICATION SizedSpec
INVARIANTS
  TypeOK
  NoSlotRace
  InOrder
  CountAtRest
  CountNeverWraps
  SizeMeansReadable
PROPERTIES
  ImplementsFifo
  EveryElementArrives
