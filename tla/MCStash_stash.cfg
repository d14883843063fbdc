SPECIFICATION Spec
CONSTANTS
  s1 = s1
  s2 = s2
  s3 = s3
  Nothing = Nothing
  Objs = {s1, s2, s3}
  Letters <- Texts
  Sketches <- StashSketches
  Blocks = 5
  TailPlace = 4
  Junk = {2}
  Hurried = FALSE
INVARIANT TypeOK
INVARIANT NoLeak
INVARIANT BlocksDisjoint
PROPERTY KeepsTexts
