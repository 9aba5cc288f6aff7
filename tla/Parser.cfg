SPECIFICATION Spec
CONSTANTS
  Chars <- MCChars
  Frames <- MCFrames
  MaxTyped = 4
  MaxBehind = 1
INVARIANTS
  TypeOK
  TokensTile
  SemicolonsAgree
  DepartsAsNamed
  ErrorsInBlock
