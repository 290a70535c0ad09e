SPECIFICATION Spec
CONSTANTS
  Commands = {c1, c2}
  Connections = {dev}
  Nothing = Nothing
  MaxEdits = 1
  Sockets = {s1, s2}
  Posters = {b1}
  QueueSize = 1
  BufferSize = 1
  MaxInputs = 1
  Files = {main, other}
  Resources = {res}
  Blocks = {blk}
  Syncs = {y1, y2}
  MainFile = main
  MaxFileEdits = 1
INVARIANT HubDelivers
PROPERTIES Completes HubReleases SyncsKeepBlocks EditsReported
CHECK_DEADLOCK FALSE
