SPECIFICATION FairSpec
CONSTANTS
  FS_BLOCK = 2
  MAX_FD = 4
  Word = 4096
  Half = 32
  dentry <- Directory
  inodes <- Inodes
  num_data = 7
  Names <- Present
  NBytes <- Sizes
  MaxPosition = 7
INVARIANTS
  SequentialRead
PROPERTIES
  OneDescriptor
  ReachesEnd
