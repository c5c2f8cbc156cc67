CONSTANTS
  z1 = z1  z2 = z2
  MaxArgs = 6
  MaxMsg = 13
  ErrText <- MCErrText
  Spelling <- MCSpelling
  Dbl <- MCDbl
  Int64 <- MCInt64
  ZSetObj = {z1, z2}
  NULL = NULL
  Argv <- MCArgv
  Garbage <- MCGarbage
  Beyond <- MCBeyond
SYMMETRY Objects
SPECIFICATION Spec
PROPERTY SetReplaces
