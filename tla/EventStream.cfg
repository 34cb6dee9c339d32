\* Three frames of 16, 21 and 17 bytes, the real prelude of 12, reads that fall
\* on, before and after every boundary, a channel of one item.
CONSTANTS
  Streams <- MCStreams
  Sizes = {4, 6, 12, 27}
  QueueCap = 1
  PreludeLen = 12
SPECIFICATION FairSpec
CHECK_DEADLOCK FALSE
INVARIANTS
  NoByteLost
  NothingHeldBack
  SourceIsReleased
PROPERTIES
  DeliversFrames
  ReaderEnds
