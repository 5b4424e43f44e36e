SPECIFICATION Spec
CONSTANTS
  Kinds = {"catalog", "archive", "json"}
  alike1 = alike1
  alike2 = alike2
  print = print
  unlike1 = unlike1
  unlike2 = unlike2
  Files <- MCFiles
  Sample <- MCSample
  Length = 2
  MaxJobs = 2
  Tabs = {t1, t2}
  Attempts = 2
  Blind = {}
  Missing = Missing
  Blank = Blank
  NoJob = NoJob
  MaxUnderWay = 2
  Choices <- MCChoices
INVARIANTS ConfirmedIsStored OffsetIsConfirmed QueuedIsWhole OneLiveJob
PROPERTIES SuccessIsAnswered ImplementsUploadedFile
SYMMETRY Symmetry
CHECK_DEADLOCK FALSE
