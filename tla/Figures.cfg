SPECIFICATION FigureSpec
CONSTANTS
  edr = edr
  fw = fw
  tech1 = tech1
  tech2 = tech2
  cap1 = cap1
  cap2 = cap2
  Kinds <- MCKinds
  Technique <- MCTechnique
  Tool <- MCTool
  Judged <- MCJudged
  TechniqueRow <- MCTechniqueRow
  TierRows <- MCTierRows
  Capab <- MCCapab
  Stored <- MCStored
  Vendor <- MCVendor
  Category <- MCCategory
  Cost <- MCCost
  MaxItems = 3
INVARIANT CoverageIsBound
INVARIANT EnterpriseIsFloor
INVARIANT RegisterFindsTheGaps
PROPERTY SplitCountsOnce
