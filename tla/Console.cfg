SPECIFICATION FairSpec
CONSTANTS
  Width = 3
  Height = 3
  Blank = " "
  NewLine = "nl"
  Backspace = "bs"
  NoChar = "0"
  Key <- SomeKeys
  Plain <- PlainTable
  Shifted <- ShiftedTable
  Size = 3
  LineMax = 4
  Prompt <- ShortPrompt
  Replies <- SomeReplies
  Upper <- Characters
  MaxLine = 8
  CommandSize = 2
  ArgsSize = 5
  NameSize = 4
  EchoNameSize = 3
  BaseSize = 2
  ExtensionSize = 1
INVARIANTS ScreenShowsLine KeyIsKept WordsBecomeNames EchoLosesNothing
PROPERTIES BufferIsFifo KeysAreRead
