\* Two files and an entry with a bad name; the other programs do not run.
CONSTANTS
  Item = {i1}
  Nil = Nil
  Letter = Letter
  Rune = {Letter, 0, 2, Slash, Foreign}
  Slash = Slash
  Foreign = Foreign
  Domain = {d1, d2}
  Name = {1, 2}
  BadName = BadName
  Unset = Unset
  Char = {Letter, Blank, Zero, Newline}
  Blank = Blank
  Zero = Zero
  Newline = Newline
  NoTag = NoTag
  Nested = Nested
  Junk = Junk
  Word = {1, 2, 3, 4}
  NoWord = 0
  NumberOfTopWordsToReturn = 2
  File = {f1}
  Chunk = 2
  MaxSize = 5
  Width = 4
SPECIFICATION EnvdirSpec
\* The tool has ended when it has exited.
CHECK_DEADLOCK FALSE
INVARIANT EmptyFileRemoves
