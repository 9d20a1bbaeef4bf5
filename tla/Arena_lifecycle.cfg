SPECIFICATION Spec
CONSTANTS
  a = a
  b = b
  Procs = {a, b}
  N = 3
  Home <- HomeEnds
  Lens <- LensTwo
  Rooms = {1, 2}
  Wrap = 4
  Torn = Torn
  Nothing = Nothing
  NoProc = NoProc
INVARIANTS
  TypeOK
  AttachedIsBacked
  SoundArena
  EntriesKept
  GetTells
