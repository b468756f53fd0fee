CONSTANTS
  reader = reader  writer = writer
  Thread = {reader, writer}
  Programs <- SomePrograms
  MaxSize = 2
  MaxAttr = 3
  Rooms <- Buffers
  Wrap = 2
  FirstAlloc = 1
  Growth = 2
  NULL = NULL
SPECIFICATION Spec
INVARIANTS
  FilesTypeOK ContentsExplained WholeXattr HeldForTheCall
