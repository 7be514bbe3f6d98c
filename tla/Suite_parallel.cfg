SPECIFICATION FairSpec
CONSTANTS
  Files <- MCFiles
  Content <- MCContent
  flat = flat
  nest = nest
  refuse = refuse
  skip = skip
  TestLists <- MCTests
  Configs <- MCConfigs
  MaxRuns = 2
  MaxPolls = 2
INVARIANT ClonesOfTheTest
INVARIANT SuccessExact
INVARIANT ReportTellsAll
INVARIANT ServersAround
INVARIANT SlotPerCase
PROPERTY SuiteEnds
