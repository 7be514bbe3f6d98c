------------------------------- MODULE Apitest -------------------------------
(***************************************************************************)
(* The process: runApiTests of main.go and newTestSuite of                 *)
(* api_testsuite.go.                                                       *)
(*                                                                         *)
(* One manifest after the other gets a report element and a suite; the     *)
(* suite is left in the report by Suite.run and again by runApiTests.  The *)
(* report file is written at the end, and also when the configuration or a *)
(* manifest cannot be loaded; writing it adds up the report tree in place. *)
(* The exit code comes from the report alone.                              *)
(*                                                                         *)
(* What Suite models in detail is one step per test here: a test leaves    *)
(* its cases and itself in the report, and a suite stops at a failed test. *)
(***************************************************************************)
EXTENDS ReportFormats, FiniteSets

CONSTANTS
  Configs,   \* the flags and manifests under study
  MaxCases,  \* bound on the cases of one test
  Groups,    \* --report-format-stats-group
  Times      \* running times of manifests, for the statistics

(* tests is what a manifest lists; loads is FALSE if newTestSuite returns an
   error. *)
Manifest == [loads: BOOLEAN, tests: Nat]
Config   == [manifests: Seq(Manifest), stopOnFail: BOOLEAN, reportFile: BOOLEAN]

ASSUME ConfigAssumption == Configs \subseteq Config
ASSUME BoundsAssumption == MaxCases \in Nat /\ Groups \in Nat \ {0} /\ Times \subseteq Nat

VARIABLES
  conf,       \* the command line and apitest.yml
  pc,         \* where runApiTests stands
  todo,       \* the manifests it walks through
  k,          \* number of manifests begun
  t,          \* number of tests the current suite has run
  rep,        \* the report
  cur,        \* the element of the current manifest
  success,    \* what runSingleTest returns
  logged,     \* elements with a line in their log
  file,       \* the tree that the report file is made of
  exit,       \* the exit code
  failed      \* history: a case, a test or a manifest failed

vars == <<conf, pc, todo, k, t, rep, cur, success, logged, file, exit, failed>>

Init ==
  /\ conf \in Configs
  /\ pc = "config"
  /\ todo = << >>
  /\ k = 0 /\ t = 0
  /\ rep = NewReport
  /\ cur = Root
  /\ success = TRUE
  /\ logged = {}
  /\ file = << >>
  /\ exit = 0
  /\ failed = FALSE

(* rep.WriteToFile, if a report file is asked for: the tree is added up. *)
WriteToFile ==
  IF conf.reportFile
    THEN rep' = getTestResult(rep) /\ file' = rep'
    ELSE UNCHANGED <<rep, file>>

Configure ==
  /\ pc = "config"
  /\ todo' = conf.manifests
  /\ pc' = "next"
  /\ UNCHANGED <<conf, k, t, rep, cur, success, logged, file, exit, failed>>

(* newTestToolConfig fails: one of the directories cannot be looked at, and this
   is found out before any manifest is collected.  The error is logged, and the
   manifests named by --single are run all the same. *)
ConfigError ==
  /\ pc = "config"
  /\ WriteToFile
  /\ todo' \in {<< >>, conf.manifests}
  /\ pc' = "next"
  /\ UNCHANGED <<conf, k, t, cur, success, logged, exit, failed>>

Current == todo[k]

NextManifest ==
  /\ pc = "next"
  /\ k < Len(todo)
  /\ k' = k + 1
  /\ t' = 0
  /\ rep' = NewChild(rep, Root)
  /\ cur' = Newest(rep')
  /\ pc' = "load"
  /\ UNCHANGED <<conf, todo, success, logged, file, exit, failed>>

(* newTestSuite fails. *)
LoadError ==
  /\ pc = "load"
  /\ ~Current.loads
  /\ WriteToFile
  /\ success' = FALSE
  /\ failed' = TRUE
  /\ pc' = "leave"
  /\ UNCHANGED <<conf, todo, k, t, cur, logged, exit>>

Load ==
  /\ pc = "load"
  /\ Current.loads
  /\ success' = TRUE
  /\ pc' = "suite"
  /\ UNCHANGED <<conf, todo, k, t, rep, cur, logged, file, exit, failed>>

(* n cases under element e, of which bad fail. *)
WithCases(r, e, n, bad) ==
  LET after[i \in 0 .. n] ==
        IF i = 0 THEN r
        ELSE Leave(NewChild(after[i - 1], e), Newest(after[i - 1]) + 1, i > bad)
  IN  after[n]

(* One test of the suite: n cases, of which bad fail.  It is ok if every failure
   was forgiven.  It need not be ok if all its cases passed, or if there are none:
   a further file or case may not load, a clone not render, and parallel runs are
   refused in a nested file, where nothing is logged.  lines are the elements
   that get a line in their log: any of the cases, for one that passes may log
   what it reversed, and one that fails may have nothing to say; the test itself
   only if it is not ok. *)
RunTest(n, bad, ok, lines) ==
  /\ pc = "suite"
  /\ t < Current.tests /\ success
  /\ t' = t + 1
  /\ LET e == Newest(rep) + 1
     IN  /\ rep' = Leave(WithCases(NewChild(rep, cur), e, n, bad), e, ok)
         /\ logged' = logged \cup {e + i : i \in lines}
  /\ success' = ok
  /\ failed' = (failed \/ ~ok \/ bad > 0)
  /\ UNCHANGED <<conf, pc, todo, k, cur, file, exit>>

LeaveSuite ==
  /\ pc = "suite"
  /\ t = Current.tests \/ ~success
  /\ rep' = Leave(rep, cur, success)
  /\ pc' = "leave"
  /\ UNCHANGED <<conf, todo, k, t, cur, success, logged, file, exit, failed>>

(* Mutant: a manifest is only left by Suite.run. *)
LeaveManifest_Once ==
  /\ pc = "leave"
  /\ UNCHANGED rep
  /\ pc' = IF conf.stopOnFail /\ ~success THEN "report" ELSE "next"
  /\ UNCHANGED <<conf, todo, k, t, cur, success, logged, file, exit, failed>>

LeaveManifest ==
  /\ pc = "leave"
  /\ rep' = Leave(rep, cur, success)
  /\ pc' = IF conf.stopOnFail /\ ~success THEN "report" ELSE "next"
  /\ UNCHANGED <<conf, todo, k, t, cur, success, logged, file, exit, failed>>

LastManifest ==
  /\ pc = "next"
  /\ k = Len(todo)
  /\ pc' = "report"
  /\ UNCHANGED <<conf, todo, k, t, rep, cur, success, logged, file, exit, failed>>

WriteReport ==
  /\ pc = "report"
  /\ WriteToFile
  /\ pc' = "exit"
  /\ UNCHANGED <<conf, todo, k, t, cur, success, logged, exit, failed>>

(* os.Exit(1) if rep.DidFail(), which adds up the tree once more. *)
Exit ==
  /\ pc = "exit"
  /\ rep' = getTestResult(rep)
  /\ exit' = IF DidFail(rep) THEN 1 ELSE 0
  /\ pc' = "exited"
  /\ UNCHANGED <<conf, todo, k, t, cur, success, logged, file, failed>>

(* logrus.Fatalf: for a path on the command line that does not exist, or in
   any suite (Suite!Fatal). *)
Fatal ==
  /\ pc \in {"config", "suite"}
  /\ exit' = 1
  /\ pc' = "fatal"
  /\ UNCHANGED <<conf, todo, k, t, rep, cur, success, logged, file, failed>>

Ended == pc \in {"exited", "fatal"} /\ UNCHANGED vars

Next ==
  \/ Configure \/ ConfigError
  \/ NextManifest \/ LoadError \/ Load
  \/ \E n \in 0 .. MaxCases, ok \in BOOLEAN : \E bad \in 0 .. n, lines \in SUBSET (0 .. n) :
       (0 \in lines => ~ok) /\ RunTest(n, bad, ok, lines)
  \/ LeaveSuite \/ LeaveManifest \/ LastManifest \/ WriteReport \/ Exit
  \/ Fatal \/ Ended

Spec == Init /\ [][Next]_vars

(***************************************************************************)
(* Properties                                                              *)
(***************************************************************************)

(* Every variable of the process keeps its type. *)
TypeOK ==
  /\ conf \in Configs
  /\ pc \in {"config", "next", "load", "suite", "leave", "report", "exit", "exited", "fatal"}
  /\ todo \in Seq(Manifest)
  /\ k \in 0 .. Len(todo)
  /\ t \in Nat /\ (pc = "suite" => t <= Current.tests)
  /\ rep \in Seq(ReportElement)
  /\ cur \in DOMAIN rep
  /\ success \in BOOLEAN
  /\ logged \subseteq DOMAIN rep
  /\ file \in Seq(ReportElement)
  /\ exit \in {0, 1}
  /\ failed \in BOOLEAN

(* main.go:282: a process that runs to its end exits with 1 exactly if some
   case, test or manifest failed, although the tree may have been added up
   several times before. *)
ExitCodeExact == pc = "exited" => (exit = 1 <=> failed)

Leaves == {e \in DOMAIN rep : e # Root /\ ~HasSubTests(rep, e)}

Loaded == \A i \in DOMAIN todo : todo[i].loads /\ todo[i].tests > 0

(* main.go:270, parsing_functions.go:153: the JUnit report has a failure exactly
   if something failed, even if the tree was added up before.  If it was not, that
   is if everything could be loaded, and no suite is empty, the report counts every
   case once, where a test without a case counts as one; its suites account for the
   total, and have a testcase for each; and a case is shown as failed exactly if
   it failed and has a line in its log.  The failures are not the number of those
   shown: one of a case that is not forgiven counts for its test as well, and twice
   for its manifest. *)
JUnitAgrees ==
  pc = "exit" /\ conf.reportFile =>
    LET junit == parseJUnitResult(file, logged)
        single(suite) == {i \in DOMAIN suite.testcases : ~HasSubTests(rep, i)} IN
    /\ junit.failures > 0 <=> failed
    /\ Loaded =>
         /\ junit.tests = Cardinality(Leaves)
         /\ junit.tests = Total([e \in DOMAIN junit.suites |-> junit.suites[e].tests], Len(file))
         /\ junit.failures = Total([e \in DOMAIN junit.suites |-> junit.suites[e].failures], Len(file))
         /\ \A e \in DOMAIN junit.suites :
              LET suite == junit.suites[e] IN
              /\ suite.tests = Cardinality(single(suite))
              /\ \A i \in single(suite) : suite.testcases[i] <=> rep[i].fails > 0 /\ i \in logged

(* parsing_functions.go:71, :130: whatever time the manifests took, each is in
   a group, a group runs as long as its manifests together, and no group runs
   longer than another by more than its own shortest manifest. *)
GroupsBalanced ==
  pc = "exit" /\ conf.reportFile =>
    \A times \in [1 .. k -> Times] :
      LET stats == parseJSONStatsResult(times, Groups)
          of(g) == {m \in 1 .. k : stats.group[m] = g} IN
      /\ \A m \in 1 .. k : stats.group[m] \in 1 .. Groups
      /\ \A g \in 1 .. Groups :
           /\ stats.runtime[g] = Total([m \in of(g) |-> times[m]], k)
           /\ \A h \in 1 .. Groups, m \in of(g) : stats.runtime[g] - stats.runtime[h] <= times[m]
=============================================================================
