SPECIFICATION TopSpec
CONSTANTS
  TopCount = 2
  FirstFiles <- MCGoodFile
  Rewards = {1, 2}
  MaxScore = 3
  MaxSaved = 4
INVARIANT
  KeepsTheBest
