SPECIFICATION Spec
CONSTANTS
  cwd = cwd
  lib = lib
  util = util
  build = build
  obj = obj
  doc = doc
  Dirs = {cwd, lib, util, build, obj, doc}
  Root = cwd
  Parent <- Tree
  InitialDirs = {cwd, lib, build, obj, doc}
  Removable = {}
  IgnoreDirs = {build}
  Failed = Failed
  MaxRefusals = 0
  MaxOpen = 4
  InitialSizes = {2}
  Increment = 2
  MaxArraySize = 14
  MaxChars = 8
  Cwds = {}
  EntryNames = {}
  Chains = {}
  Values = {}
INVARIANT NoFreedArrayUsed
CHECK_DEADLOCK FALSE
