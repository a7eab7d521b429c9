SPECIFICATION Spec
CONSTANTS
  Sizes <- MCSizes
  TransmitLimit = 2
  SendfileLimit = 2
  DwordSize = 4
  BlockSize = 2
  Room = 3
  ReplySize = 2
  Faults = {"hostread", "readerror", "diskfull", "hostio", "reset", "senderdies", "receiverdies", "resize"}
INVARIANTS TypeOK InOrder ChunkFits NotTooMany WholeFile
PROPERTIES LoopsEnd
