SPECIFICATION Spec
CONSTANTS
  PubMaxEvents = 4
  MaxChapters = 3
  MmMaxEvents = 3
  StMaxEvents = 3
  ToolMaxEvents = 3
  ToolMaxPolls = 2
  GalMaxEvents = 4
  GalMaxPictures = 3
  NoteMaxEvents = 2
  NoteMaxPolls = 2
  BillMaxEvents = 2
  MaxSockets = 5
  MaxTokens = 2
  AuthPages = {1, 2}
  AuthMaxEvents = 4
  Lines <- SomeLines
  MaxLines = 3
  CellLimit = 6
  TokenLimit = 3
  HistMaxEvents = 4
  MileMaxEvents = 4
INVARIANTS
  BusyIsHonest
  ChaptersFollowOutline
  OverviewIsKept
  GatesFailClosed
  PublishedIsABeginning
  DiffIsFaithful
  ShownIsTrue
PROPERTIES
  TextCanBeBroughtBack
  LateAnswersAreHarmless
  StaysSignedInAndConnected
CHECK_DEADLOCK FALSE
