\* A kill while the terminal marker is written.
CONSTANTS
  f1 = f1
  f2 = f2
  d1 = d1
  v1 = v1
  v2 = v2
  Top = Top
  Nothing = Nothing
  Theirs = Theirs
  File = {f1, f2}
  Folder = {d1}
  FolderOf <- MCFolderOf
  Version = {v1, v2}
  Checkpoint <- MCCheckpoints
  Adversity = {{"kill"}}
SPECIFICATION FairSpec
PROPERTIES
  CleanupRestartable
