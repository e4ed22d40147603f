\* Two threads remember the same things in two workspaces.
CONSTANTS
  RThreads = {t1, t2}
  RSpaces = {w1, w2}
  OwnSpace = w1
  Texts = {x}
  Noise = {}
  NoteRoom = 1
  MaxRemembers = 3
  NoBuffer = NoBuffer
INIT RememberInit
NEXT RememberNext
CHECK_DEADLOCK FALSE
INVARIANT DropsAreOfTheWorkspace
