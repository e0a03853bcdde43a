SPECIFICATION Spec
CONSTANTS
  Element <- MCElement
  Chunk <- MCChunk
  Blank = Blank
  Size = 4
  ExtraSize = 2
INVARIANTS
  TypeOK
  IndexAgree
PROPERTIES
  ImplementsFifo
