SPECIFICATION TransferSpec
CONSTANTS
  plain = plain
  small = small
  large = large
  bare = bare
  Maps = {plain, small, large, bare}
  Archived = {small, large, bare}
  MapSize <- MCMapSize
  ArchiveSize <- MCArchiveSize
  MaxChunk = 3
  NoMap = NoMap
  NoFile = NoFile
INVARIANTS SplitAtMapEnd
