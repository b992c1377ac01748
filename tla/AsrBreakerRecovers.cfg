SPECIFICATION FairSpec
CONSTANTS
  s1 = s1
  s2 = s2
  Sessions <- OneSession
  Threshold = 2
  MaxFails = 4
PROPERTY RecoversWithVendor
