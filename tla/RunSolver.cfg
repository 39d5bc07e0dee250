SPECIFICATION FairSpec
CONSTANTS
  NbCpus = 4
  Processor <- MCProcessor
  GroupSize = 32
  DigitSize = 4
  CommandLines <- MCCommandLines
  StartMasks <- MCStartMasks
  HardDelay = 2
  Reserve = 2
  MiB = 4
  IntHalf = 32
  LongRange = 256
  MayFail = TRUE
  HardLimits <- MCHardLimits
  Forks <- MCForks
INVARIANTS
  SoftBeforeHard
  FilterAsAsked
  OutputRouted
  CoresAsAsked
  PrintedSelects
  OnLastCore
  FlagsExplained
  ReportComplete
  HistoryKnown
PROPERTY Ends
