SPECIFICATION FairSpec
CONSTANTS
  cwd = cwd
  lib = lib
  util = util
  build = build
  obj = obj
  doc = doc
  Dirs = {cwd, lib, util, build, obj, doc}
  Root = cwd
  Parent <- Tree
  InitialDirs = {cwd, lib, build, obj, doc}
  Removable = {util, obj}
  IgnoreDirs = {build}
  Failed = Failed
  MaxRefusals = 1
  MaxOpen = 4
  InitialSizes = {2, 7}
  Increment = 2
  MaxArraySize = 7
  MaxChars = 8
  Cwds <- Homes
  EntryNames <- ShortNames
  Chains <- ShortChains
  Values <- AnyValues
INVARIANTS NothingSkippedWatched AllWatched IInv SmallWalkIsSafe SmallWalkSurvives PathsCompare
PROPERTIES WalkEnds WalkOfWatcher
CHECK_DEADLOCK FALSE
