CONSTANTS
  r1 = r1
  r2 = r2
  r3 = r3
  w1 = w1
  w2 = w2
  Readers <- MCReaders
  Writers <- MCWriters
  Cancellable <- MCReaders
SPECIFICATION Spec
PROPERTIES
  ImplementsGate
