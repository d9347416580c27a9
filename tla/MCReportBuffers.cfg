CONSTANTS
  BUF_SIZE = 20
  TITLE_SIZE = 6
  TitleLengths <- MCTitleLengths
  DetailLengths <- MCDetailLengths
  LineLengths = {1}
  DataLengths = {1}
  SUMMARY_LENGTH = 2
  HEADER_LENGTH = 2
  RESULT_LINES = 2
  UsedBuckets = {0, 1, 2}
  DATASETS = 3
  Verbosities <- MCVerbosities

SPECIFICATION Spec

INVARIANTS
  BufTypeOK
  ResultsAreWhole
  EscapedTitleFits
  PlotWholeWithRoomInResults
  AbortsOnlyWhenFull
  PlotFileHasEveryDataset

CHECK_DEADLOCK FALSE
