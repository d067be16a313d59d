SPECIFICATION MCSpec
CONSTANTS
  Watcher = {w1, w2, w3}
  Channel = {ch1, ch2}
  Ctx = {c1, c2}
  NoWatcher = NoWatcher
  MaxDepth = 3
  Fd = {fd1, fd2}
  Address = {a1, a2, a3}
  MaxInteractors = 2
  MaxCallbacks = 4
SYMMETRY MCSymmetry
INVARIANTS
  WatcherPerCallback
  EnabledUnlessRunning
  NoReentry
  TagsStayValid
  DeafIsKnown
