CONSTANTS
  Readers = {r1}
  Words = {present, skel}
  Vals = {0, 1}
  Zero = 0
  Shadows <- MCShadows
  SeqMod = 4
  Cleared = {present}
SPECIFICATION LifeSpec
INVARIANT OddMeansWriting
