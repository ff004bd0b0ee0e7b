SPECIFICATION FairStreamSpec
CONSTANTS
  Viewers = {v1}
  Writers = {out, err}
  Main = main
  Ghost = ghost
  NoPost = NoPost
  MaxWrites = 2
  BufSize = 1
  MaxBreaks = 1
CHECK_DEADLOCK FALSE
INVARIANTS DoneMeansOver EachPieceOnce FinalOutputWhole EndNoticed
PROPERTIES OutputOnlyGrows EndReachesPages
