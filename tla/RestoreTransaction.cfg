\* Kills, failing calls, power losses and the files of other programs.
CONSTANTS
  f1 = f1
  f2 = f2
  d1 = d1
  v1 = v1
  v2 = v2
  Top = Top
  Nothing = Nothing
  Theirs = Theirs
  File = {f1, f2}
  Folder = {d1}
  FolderOf <- MCFolderOf
  Version = {v1, v2}
  Checkpoint <- MCCheckpoints
  Adversity = {{"kill", "io", "foreign"}, {"power"}}
SPECIFICATION FairSpec
INVARIANTS
  PendingHasData
  TerminalMeansDone
  SettledIsDurable
PROPERTIES
  RestoreIsAtomic
  ForeignKept
  RecoveryEnds
