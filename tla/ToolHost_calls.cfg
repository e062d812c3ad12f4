CONSTANTS
  Source = {s1, s2}
  File = {f1, f2}
  Outside = {f2}
  None = None
  Torn = Torn
  MaxCalls = 3
  Width = 2
  MaxFailures = 1
  MaxLate = 1
SPECIFICATION Spec
CHECK_DEADLOCK FALSE
INVARIANTS
  RepeatedOnlyIfLate
  
  SkillsSurvive
  RecordIsTrue
