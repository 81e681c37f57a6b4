\* Four items: front, back and two in the middle, and removed ones with stale
\* pointers that are pushed again. Five units of a file and a chunk of two: two
\* full chunks and a short one.
CONSTANTS
  Item = {i1, i2, i3, i4}
  Nil = Nil
  Letter = Letter
  Rune = {Letter, 0, 2, Slash, Foreign}
  Slash = Slash
  Foreign = Foreign
  Domain = {d1, d2}
  Name = {1, 2}
  BadName = BadName
  Unset = Unset
  Char = {Letter, Blank, Zero, Newline}
  Blank = Blank
  Zero = Zero
  Newline = Newline
  NoTag = NoTag
  Nested = Nested
  Junk = Junk
  Word = {1, 2, 3, 4}
  NoWord = 0
  NumberOfTopWordsToReturn = 2
  File = {f1, f2}
  Chunk = 2
  MaxSize = 5
  Width = 4
SPECIFICATION MCSpec
\* A function has ended when it has given its result.
CHECK_DEADLOCK FALSE
INVARIANTS Linked UnpackMeans StatCounts EnvdirPromised ValidateReports TopIsRanking
           CopyInv NilMeansCopied BarFits
PROPERTIES RefusedIsUntouched CopyReturns
