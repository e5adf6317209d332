SPECIFICATION ExchangeSpec
CONSTANTS
  Byte <- MCByte
  LINE_CAPACITY = 9
  Command <- MCCommand
  NoCommand <- NoCommandValue
  QUEUE_CAPACITY = 2
  MaxCommands = 3
  Operations <- MCOperations
  MaxLoss = 1
  MaxReports = 1
  MaxNoise = 2
  Noise <- BootText
  Retries <- MCRetries
  MaxRetries = 1
  TIMEOUT = 5
  SAVE_TIMEOUT = 6
  TAIL = 3
  VERSION_TAIL = 3
  GAP = 1
  SAVE_GAP = 2
  LINE_TIME = 1
INVARIANT BufferHoldsLine
PROPERTIES LinesAreWhole RingIsSequence InTurn OwnAnswer OkIsTrue RetryMeansLoss EveryCommandEnds
