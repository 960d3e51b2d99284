CONSTANTS
  NumElem = 3
  CounterMod = 16
  NullPtr = NullPtr
  ConsumerLoops = {"test"}
  MaxElems = 3
SPECIFICATION Spec
INVARIANT
  SizeMeansReadable
