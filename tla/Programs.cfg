SPECIFICATION UserSpec
CONSTANTS
  FS_BLOCK = 2
  MAX_FD = 8
  Word = 1048576
  Half = 65536
  dentry <- MCdentry
  inodes <- MCinodes
  num_data = 700
  Names = {}
  NBytes = {}
  MaxPosition = 200
  image <- MCimage
  Typed <- MCTyped
  BUFSIZE = 3
  Dotted <- HiddenNames
  Garbage <- AnyByte
  Maximum <- MCMaximum
  Letters <- MCLetters
  SCREENWIDTH = 8
  Balls <- AB
  Columns = 8
  Rows = 4
  ArraySize = 12
  Short = 65536
  Structs <- NoStructs
  WAIT = 16
  Mark = 12
  Commands <- MCCommands
INVARIANTS
  OutputRight
  CountsUp
  TestsPass
  PictureComplete
PROPERTIES
  BallInside
  ProgramEnds
