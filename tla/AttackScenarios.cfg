SPECIFICATION Spec
CONSTANTS
  tech1 = tech1
  tech2 = tech2
  s1 = s1
  s2 = s2
  q1 = q1
  q2 = q2
  soc = soc
  clientSoc = clientSoc
  edr = edr
  unit1 = unit1
  unit2 = unit2
  own = own
  address = address
  Technique <- MCTechnique
  Tool <- MCTool
  Judged <- MCJudged
  Form <- MCForm
  Shown <- MCShown
  Scenario <- MCScenario
  Request <- MCRequest
  MaxRun = 2
  BaseRows <- MCBaseRows
  Change <- MCChanges
  ToolSets <- MCToolSets
  Answers <- MCAnswers
SYMMETRY Symmetry
CHECK_DEADLOCK FALSE
INVARIANT WhatIfNamesItsRun
INVARIANT ResultsAreTrue
PROPERTY ResultStands
