SPECIFICATION Spec
CONSTANTS
  Configs <- MCConfigs
  MaxCases = 2
  Groups = 2
  Times = {0, 1, 2, 3}
INVARIANT ExitCodeExact
INVARIANT JUnitAgrees
INVARIANT GroupsBalanced
