SPECIFICATION MCSpec
CONSTANTS
  LineCount = 4
  DevLine <- Wired
  Command = {"eoi", "seoi", "rotate", "poll", "ocw1", "ocw3", "icw"}
  Mask = {{}, {1}, {2}, {1, 2, 3}}
  Sector = {0, 1, 2}
  Slots = 2
  SecWords = 3
  Content = {c1, c2}
  Depth = 2
  MaxCount = 2
  MaxChanges = 1
  Noise = Noise
INVARIANTS Signalled CascadeKept HitsTrue
