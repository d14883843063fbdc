SPECIFICATION Spec
CONSTANTS
  s1 = s1
  s2 = s2
  s3 = s3
  Nothing = Nothing
  Objs = {s1, s2, s3}
  Letters <- Texts
  Sketches <- HurriedSketches
  Blocks = 6
  TailPlace = 4
  Junk = {0, 3}
  Hurried = TRUE
INVARIANT BlocksDisjoint
