-------------------------------- MODULE Suite --------------------------------
(***************************************************************************)
(* A test suite run: Suite.run, parseAndRunTest, testGoroutine and         *)
(* runLiteralTest of api_testsuite.go, with the start and stop of its SMTP *)
(* and HTTP servers.                                                       *)
(*                                                                         *)
(* The main goroutine walks through the tests of the manifest.  For each   *)
(* it spawns parallelRuns goroutines ("clones") and waits for all of them. *)
(* A clone renders the test file and runs its items in order: an item is a *)
(* literal case or a reference to another file, which the clone runs as a  *)
(* nested test.  A nested test never runs in parallel: the one goroutine   *)
(* it needs is awaited at once, so a clone is modelled as one process with *)
(* a stack of frames, one per file being run.  All clones share the        *)
(* datastore and the report element of their test.                         *)
(*                                                                         *)
(* A case follows CaseProtocol: its first answer is appended to the        *)
(* response list and every later one overwrites the last entry of that     *)
(* list, whoever wrote it.                                                 *)
(***************************************************************************)
EXTENDS Report, FiniteSets

CONSTANTS
  Files,      \* test files
  Content,    \* Content[f]: the items of file f after rendering
  TestLists,  \* the manifests' "tests" under study
  Configs,    \* the servers and flags under study
  MaxRuns,    \* bound on N in "N@file"
  MaxPolls    \* bound on the answers one case receives

Clones == 0 .. MaxRuns - 1

Literal == [kind: {"case"}, cont: BOOLEAN, request: BOOLEAN]
PathRef == [kind: {"ref"}, file: Files, runs: Nat]
Test    == [file: Files, runs: 0 .. MaxRuns]
Servers == {"smtp", "http"}

(* The addresses of "taken" belong to another process when the suite starts;
   those of "unreached" never accept when WaitForTCP dials them, like an empty
   one, at which ListenAndServe listens all the same. *)
Config  == [smtp: BOOLEAN, http: {"none", "background", "testmode"},
            keepRunning: BOOLEAN, taken: SUBSET Servers, unreached: SUBSET Servers]

ASSUME BoundsAssumption  == MaxRuns \in Nat \ {0} /\ MaxPolls \in Nat \ {0}
ASSUME ContentAssumption == Content \in [Files -> Seq(Literal \cup PathRef)]
ASSUME TestsAssumption   == TestLists \subseteq Seq(Test)
ASSUME ConfigsAssumption == Configs \subseteq Config

VARIABLES
  conf,       \* http_server, smtp_server and keepRunning
  tests,      \* ats.Tests
  suiteElem,  \* ats.reporterRoot
  pc,         \* where Suite.run stands
  k,          \* number of tests started
  child,      \* the report element of the current test
  result,     \* sTestSuccess
  success,    \* success of Suite.run
  smtp,       \* ats.smtpServer: "off", "starting", "up"
  http,       \* ats.httpServer: "off", "starting", "up"
  taken,      \* the servers at whose address another process accepts
  held,       \* the servers that a client keeps busy at their Shutdown
  wg,         \* waitGroup of the current top-level parseAndRunTest
  succ,       \* its successCount
  cpc,        \* where each clone stands
  frames,     \* its stack of files: item index and ParallelRunIdx of each
  elem,       \* the report element of its current case
  polls,      \* answers its current case has received
  rep,        \* the report
  log,        \* datastore.responseJson
  final,      \* history: the last answer of every finished case
  hardFail,   \* history: something failed that must fail the suite
  softFail    \* history: a case with continue_on_failure failed

mainVars   == <<conf, tests, suiteElem, k, child, result, success>>
serverVars == <<smtp, http, taken, held>>
cloneVars  == <<cpc, frames, elem, polls>>
history    == <<final, hardFail, softFail>>
vars == <<mainVars, pc, serverVars, wg, succ, cloneVars, rep, log, history>>

Init ==
  /\ conf \in Configs
  /\ tests \in TestLists
  /\ rep = NewChild(NewReport, Root)
  /\ suiteElem = Newest(rep)
  /\ pc = "startSmtp"
  /\ k = 0
  /\ child = suiteElem
  /\ result = FALSE
  /\ success = TRUE
  /\ smtp = "off" /\ http = "off"
  /\ taken = conf.taken
  /\ held = {}
  /\ wg = 0 /\ succ = 0
  /\ cpc = [c \in Clones |-> "idle"]
  /\ frames = [c \in Clones |-> << >>]
  /\ elem = [c \in Clones |-> Root]
  /\ polls = [c \in Clones |-> 0]
  /\ log = << >>
  /\ final = {}
  /\ hardFail = FALSE /\ softFail = FALSE

(***************************************************************************)
(* Servers                                                                 *)
(***************************************************************************)

Configured(x) == IF x = "smtp" THEN conf.smtp ELSE conf.http # "none"
State(x)      == IF x = "smtp" THEN smtp ELSE http

(* Whether somebody accepts when WaitForTCP dials: the suite's own server, or
   whoever has the address. *)
Accepts(x) == x \notin conf.unreached /\ (x \in taken \/ State(x) = "up")

(* startSmtpServer: a goroutine listens, the main one polls the address. *)
StartSmtp ==
  /\ pc = "startSmtp"
  /\ smtp' = IF conf.smtp THEN "starting" ELSE "off"
  /\ pc' = "awaitSmtp"
  /\ UNCHANGED <<mainVars, http, taken, held, wg, succ, cloneVars, rep, log, history>>

(* Mutant: WaitForTCP is called even if no server is configured. *)
AwaitSmtp_Always ==
  /\ pc = "awaitSmtp"
  /\ pc' = IF Accepts("smtp") THEN "startHttp" ELSE pc
  /\ UNCHANGED <<mainVars, serverVars, wg, succ, cloneVars, rep, log, history>>

AwaitSmtp ==
  /\ pc = "awaitSmtp"
  /\ Configured("smtp") => Accepts("smtp")
  /\ pc' = "startHttp"
  /\ UNCHANGED <<mainVars, serverVars, wg, succ, cloneVars, rep, log, history>>

StartHttp ==
  /\ pc = "startHttp"
  /\ http' = IF conf.http = "none" THEN "off" ELSE "starting"
  /\ pc' = IF conf.http = "testmode" THEN "listening" ELSE "awaitHttp"
  /\ UNCHANGED <<mainVars, smtp, taken, held, wg, succ, cloneVars, rep, log, history>>

(* Mutant: nobody waits for the port. *)
AwaitHttp_NoWait ==
  /\ pc = "awaitHttp"
  /\ pc' = "next"
  /\ UNCHANGED <<mainVars, serverVars, wg, succ, cloneVars, rep, log, history>>

AwaitHttp ==
  /\ pc = "awaitHttp"
  /\ Configured("http") => Accepts("http")
  /\ pc' = "next"
  /\ UNCHANGED <<mainVars, serverVars, wg, succ, cloneVars, rep, log, history>>

(* The goroutine of a server gets to net.Listen: an address that is taken ends
   the process. *)
Listen ==
  /\ pc # "fatal"
  /\ \E x \in Servers :
       /\ State(x) = "starting"
       /\ IF x \in taken
            THEN pc' = "fatal" /\ UNCHANGED <<smtp, http>>
            ELSE /\ smtp' = IF x = "smtp" THEN "up" ELSE smtp
                 /\ http' = IF x = "http" THEN "up" ELSE http
                 /\ UNCHANGED pc
  /\ UNCHANGED <<mainVars, taken, held, wg, succ, cloneVars, rep, log, history>>

(* ListenAndServe fails for another reason, at the start or later, or os.Chdir
   does: logrus.Fatalf ends the process. *)
Fatal ==
  /\ pc # "fatal"
  /\ \/ smtp # "off"
     \/ http # "off"
     \/ pc = "next" /\ k = 0
  /\ pc' = "fatal"
  /\ UNCHANGED <<mainVars, serverVars, wg, succ, cloneVars, rep, log, history>>

(* Environment: another process gives up its address. *)
Vacate ==
  /\ \E x \in taken : taken' = taken \ {x}
  /\ UNCHANGED <<mainVars, pc, smtp, http, held, wg, succ, cloneVars, rep, log, history>>

(* Environment: a client ends its request or session. *)
Release ==
  /\ \E x \in held : held' = held \ {x}
  /\ UNCHANGED <<mainVars, pc, smtp, http, taken, wg, succ, cloneVars, rep, log, history>>

(* The deferred stopHttpServer and stopSmtpServer, in this order.  Shutdown
   has no deadline: it returns when no client keeps the server busy. *)
StopHttp ==
  /\ pc = "stopHttp"
  /\ "http" \notin held
  /\ http' = "off"
  /\ pc' = "stopSmtp"
  /\ UNCHANGED <<mainVars, smtp, taken, held, wg, succ, cloneVars, rep, log, history>>

StopSmtp ==
  /\ pc = "stopSmtp"
  /\ "smtp" \notin held
  /\ smtp' = "off"
  /\ pc' = "finished"
  /\ UNCHANGED <<mainVars, http, taken, held, wg, succ, cloneVars, rep, log, history>>

(***************************************************************************)
(* The main goroutine: Suite.run and the top-level parseAndRunTest         *)
(***************************************************************************)

Runs == tests[k].runs

NextTest ==
  /\ pc = "next"
  /\ k < Len(tests)
  /\ k' = k + 1
  /\ rep' = NewChild(rep, suiteElem)
  /\ child' = Newest(rep')
  /\ pc' = "load"
  /\ UNCHANGED <<conf, tests, suiteElem, result, success, serverVars, wg, succ, cloneVars, log, history>>

(* LoadManifestDataAsRawJson failed. *)
LoadError ==
  /\ pc = "load"
  /\ result' = FALSE
  /\ hardFail' = TRUE
  /\ pc' = "judged"
  /\ UNCHANGED <<conf, tests, suiteElem, k, child, success, serverVars, wg, succ, cloneVars, rep, log, final, softFail>>

(* buildLoader: a nested loader inherits ParallelRunIdx. *)
buildLoader(rootIdx, runIdx) == IF rootIdx < 0 THEN runIdx ELSE rootIdx

Frame(f, runIdx) == [file |-> f, item |-> 1, run |-> runIdx]

(* Mutant: waitGroup.Add(1) instead of Add(parallelRuns). *)
Spawn_AddOne ==
  /\ pc = "load"
  /\ wg' = IF Runs = 0 THEN 0 ELSE 1
  /\ succ' = 0
  /\ cpc' = [c \in Clones |-> IF c < Runs THEN "render" ELSE "idle"]
  /\ frames' = [c \in Clones |-> IF c < Runs THEN <<Frame(tests[k].file, buildLoader(-1, c))>>
                                              ELSE << >>]
  /\ pc' = "wait"
  /\ UNCHANGED <<mainVars, serverVars, elem, polls, rep, log, history>>

(* waitGroup.Add(parallelRuns) and the go statements. *)
Spawn ==
  /\ pc = "load"
  /\ wg' = Runs
  /\ succ' = 0
  /\ cpc' = [c \in Clones |-> IF c < Runs THEN "render" ELSE "idle"]
  /\ frames' = [c \in Clones |-> IF c < Runs THEN <<Frame(tests[k].file, buildLoader(-1, c))>>
                                              ELSE << >>]
  /\ pc' = "wait"
  /\ UNCHANGED <<mainVars, serverVars, elem, polls, rep, log, history>>

(* Mutant: one successful clone is enough. *)
Wait_AnySuccess ==
  /\ pc = "wait"
  /\ wg = 0
  /\ result' = (succ > 0 \/ Runs = 0)
  /\ pc' = "judged"
  /\ UNCHANGED <<conf, tests, suiteElem, k, child, success, serverVars, wg, succ, cloneVars, rep, log, history>>

Wait ==
  /\ pc = "wait"
  /\ wg = 0
  /\ result' = (succ = Runs)
  /\ pc' = "judged"
  /\ UNCHANGED <<conf, tests, suiteElem, k, child, success, serverVars, wg, succ, cloneVars, rep, log, history>>

LeaveTest ==
  /\ pc = "judged"
  /\ rep' = Leave(rep, child, result)
  /\ success' = (success /\ result)
  /\ pc' = IF result THEN "next" ELSE "leave"
  /\ UNCHANGED <<conf, tests, suiteElem, k, child, result, serverVars, wg, succ, cloneVars, log, history>>

LastTest ==
  /\ pc = "next"
  /\ k = Len(tests)
  /\ pc' = "leave"
  /\ UNCHANGED <<mainVars, serverVars, wg, succ, cloneVars, rep, log, history>>

(* Clients of the servers that are up may have a request or session open. *)
BeginStop ==
  /\ pc' = "stopHttp"
  /\ held' \in SUBSET {x \in Servers : State(x) = "up"}
  /\ UNCHANGED <<smtp, http, taken>>

LeaveSuite ==
  /\ pc = "leave"
  /\ rep' = Leave(rep, suiteElem, success)
  /\ IF conf.keepRunning THEN pc' = "keepRunning" /\ UNCHANGED serverVars ELSE BeginStop
  /\ UNCHANGED <<mainVars, wg, succ, cloneVars, log, history>>

Interrupt ==
  /\ pc = "keepRunning"
  /\ BeginStop
  /\ UNCHANGED <<mainVars, wg, succ, cloneVars, rep, log, history>>

(***************************************************************************)
(* A clone: testGoroutine, nested parseAndRunTest, runLiteralTest          *)
(***************************************************************************)

Top(c)     == frames[c][Len(frames[c])]
Items(c)   == Content[Top(c).file]
AtItem(c)  == cpc[c] = "item" /\ Top(c).item <= Len(Items(c))
Current(c) == Items(c)[Top(c).item]

NextItem(fs) == [fs EXCEPT ![Len(fs)].item = @ + 1]

(* The failure travels up the frames: no success is counted on the way. *)
GiveUp(c) ==
  /\ cpc' = [cpc EXCEPT ![c] = "exit"]
  /\ frames' = [frames EXCEPT ![c] = << >>]
  /\ hardFail' = TRUE

Rendered(c) ==
  /\ cpc[c] = "render"
  /\ cpc' = [cpc EXCEPT ![c] = "item"]
  /\ UNCHANGED <<mainVars, pc, serverVars, wg, succ, frames, elem, polls, rep, log, history>>

(* The template does not render or is no valid JSON. *)
RenderError(c) ==
  /\ cpc[c] = "render"
  /\ GiveUp(c)
  /\ UNCHANGED <<mainVars, pc, serverVars, wg, succ, elem, polls, rep, log, final, softFail>>

(* A reference to another file: loading may fail, more than one run is
   refused, and a run count of 0 succeeds at once. *)
NestedError(c) ==
  /\ AtItem(c) /\ Current(c).kind = "ref"
  /\ GiveUp(c)
  /\ UNCHANGED <<mainVars, pc, serverVars, wg, succ, elem, polls, rep, log, final, softFail>>

NestedNone(c) ==
  /\ AtItem(c) /\ Current(c).kind = "ref" /\ Current(c).runs = 0
  /\ frames' = [frames EXCEPT ![c] = NextItem(@)]
  /\ UNCHANGED <<mainVars, pc, serverVars, wg, succ, cpc, elem, polls, rep, log, history>>

NestedCall(c) ==
  /\ AtItem(c) /\ Current(c).kind = "ref" /\ Current(c).runs = 1
  /\ frames' = [frames EXCEPT ![c] =
                  Append(@, Frame(Current(c).file, buildLoader(Top(c).run, 0)))]
  /\ cpc' = [cpc EXCEPT ![c] = "render"]
  /\ UNCHANGED <<mainVars, pc, serverVars, wg, succ, elem, polls, rep, log, history>>

NestedReturn(c) ==
  /\ cpc[c] = "item" /\ Top(c).item > Len(Items(c))
  /\ Len(frames[c]) > 1
  /\ frames' = [frames EXCEPT ![c] = NextItem(Front(@))]
  /\ UNCHANGED <<mainVars, pc, serverVars, wg, succ, cpc, elem, polls, rep, log, history>>

(* A literal case that does not unmarshal. *)
CaseError(c) ==
  /\ AtItem(c) /\ Current(c).kind = "case"
  /\ GiveUp(c)
  /\ UNCHANGED <<mainVars, pc, serverVars, wg, succ, elem, polls, rep, log, final, softFail>>

BeginCase(c) ==
  /\ AtItem(c) /\ Current(c).kind = "case"
  /\ rep' = NewChild(rep, child)
  /\ elem' = [elem EXCEPT ![c] = Newest(rep')]
  /\ polls' = [polls EXCEPT ![c] = 0]
  /\ cpc' = [cpc EXCEPT ![c] = "case"]
  /\ UNCHANGED <<mainVars, pc, serverVars, wg, succ, frames, log, history>>

CaseAnswer(c, n) == [case |-> elem[c], poll |-> n]

(* Mutant: every poll appends. *)
StoreAnswer_AlwaysAppend(c, a) == log' = Append(log, a)

(* AppendResponse for the first answer, UpdateLastResponse afterwards. *)
StoreAnswer(c, a) ==
  log' = IF polls[c] = 0 THEN Append(log, a) ELSE [log EXCEPT ![Len(log)] = a]

Answer(c) ==
  /\ cpc[c] = "case" /\ Current(c).request
  /\ polls[c] < MaxPolls
  /\ polls' = [polls EXCEPT ![c] = @ + 1]
  /\ StoreAnswer(c, CaseAnswer(c, polls[c] + 1))
  /\ UNCHANGED <<mainVars, pc, serverVars, wg, succ, cpc, frames, elem, rep, history>>

(* Mutant: a forgiven failure is not reported. *)
EndCase_ForgivenIsSuccess(c, ok) ==
  /\ cpc[c] = "case"
  /\ rep' = Leave(rep, elem[c], ok \/ Current(c).cont)
  /\ final' = IF polls[c] > 0 THEN final \cup {CaseAnswer(c, polls[c])} ELSE final
  /\ IF ok \/ Current(c).cont
       THEN /\ cpc' = [cpc EXCEPT ![c] = "item"]
            /\ frames' = [frames EXCEPT ![c] = NextItem(@)]
            /\ softFail' = (softFail \/ ~ok)
            /\ UNCHANGED hardFail
       ELSE GiveUp(c) /\ UNCHANGED softFail
  /\ UNCHANGED <<mainVars, pc, serverVars, wg, succ, elem, polls, log>>

(* runAPITestCase returns ok; runLiteralTest forgives a failure if the case
   says continue_on_failure. *)
EndCase(c, ok) ==
  /\ cpc[c] = "case"
  /\ rep' = Leave(rep, elem[c], ok)
  /\ final' = IF polls[c] > 0 THEN final \cup {CaseAnswer(c, polls[c])} ELSE final
  /\ IF ok \/ Current(c).cont
       THEN /\ cpc' = [cpc EXCEPT ![c] = "item"]
            /\ frames' = [frames EXCEPT ![c] = NextItem(@)]
            /\ softFail' = (softFail \/ ~ok)
            /\ UNCHANGED hardFail
       ELSE GiveUp(c) /\ UNCHANGED softFail
  /\ UNCHANGED <<mainVars, pc, serverVars, wg, succ, elem, polls, log>>

(* successCount.Add(1) comes before the deferred waitGroup.Done(). *)
CountSuccess(c) ==
  /\ cpc[c] = "item" /\ Top(c).item > Len(Items(c))
  /\ Len(frames[c]) = 1
  /\ succ' = succ + 1
  /\ cpc' = [cpc EXCEPT ![c] = "exit"]
  /\ UNCHANGED <<mainVars, pc, serverVars, wg, frames, elem, polls, rep, log, history>>

Exit(c) ==
  /\ cpc[c] = "exit"
  /\ wg' = wg - 1
  /\ cpc' = [cpc EXCEPT ![c] = "done"]
  /\ UNCHANGED <<mainVars, pc, serverVars, succ, frames, elem, polls, rep, log, history>>

CloneStep(c) ==
  \/ Rendered(c) \/ RenderError(c)
  \/ NestedError(c) \/ NestedNone(c) \/ NestedCall(c) \/ NestedReturn(c)
  \/ CaseError(c) \/ BeginCase(c) \/ Answer(c)
  \/ \E ok \in BOOLEAN : EndCase(c, ok)
  \/ CountSuccess(c) \/ Exit(c)

MainStep ==
  \/ StartSmtp \/ AwaitSmtp \/ StartHttp \/ AwaitHttp
  \/ NextTest \/ LoadError \/ Spawn \/ Wait \/ LeaveTest \/ LastTest
  \/ LeaveSuite \/ StopHttp \/ StopSmtp

Ended == pc \in {"finished", "fatal", "listening"} /\ UNCHANGED vars

SuiteStep ==
  \/ MainStep \/ Listen \/ Fatal \/ Interrupt \/ Vacate \/ Release
  \/ pc # "fatal" /\ \E c \in Clones : CloneStep(c)

Next == SuiteStep \/ Ended

Spec == Init /\ [][Next]_vars

(* The Go scheduler runs every goroutine that is ready; a case ends because
   its poll loop does (TestCase!Terminates).  The interrupt is not fair, and
   neither are other processes and the clients of the servers. *)
FairSpec ==
  /\ Spec
  /\ WF_vars(MainStep)
  /\ WF_vars(Listen)
  /\ \A c \in Clones : WF_vars(CloneStep(c))

(***************************************************************************)
(* Properties                                                              *)
(***************************************************************************)

FrameType == [file: Files, item: Nat \ {0}, run: Nat]

(* Every variable of the suite keeps its type. *)
TypeOK ==
  /\ conf \in Configs
  /\ tests \in TestLists
  /\ pc \in {"startSmtp", "awaitSmtp", "startHttp", "awaitHttp", "next", "load",
             "wait", "judged", "leave", "keepRunning", "stopHttp", "stopSmtp",
             "finished", "fatal", "listening"}
  /\ k \in 0 .. Len(tests)
  /\ result \in BOOLEAN /\ success \in BOOLEAN
  /\ smtp \in {"off", "starting", "up"} /\ http \in {"off", "starting", "up"}
  /\ taken \subseteq Servers /\ held \subseteq Servers
  /\ wg \in 0 .. MaxRuns /\ succ \in 0 .. MaxRuns
  /\ cpc \in [Clones -> {"idle", "render", "item", "case", "exit", "done"}]
  /\ frames \in [Clones -> Seq(FrameType)]
  /\ rep \in Seq(ReportElement)
  /\ suiteElem \in DOMAIN rep /\ child \in DOMAIN rep
  /\ elem \in [Clones -> DOMAIN rep]
  /\ polls \in [Clones -> 0 .. MaxPolls]
  /\ log \in Seq([case: Nat, poll: Nat])
  /\ hardFail \in BOOLEAN /\ softFail \in BOOLEAN

Busy(c) == cpc[c] \in {"render", "item", "case", "exit"}

(* api_testsuite.go:328: when Suite.run judges a test, none of its clones is
   still at work: nothing changes the datastore or the report behind the back
   of the next test. *)
NoStragglers == pc # "fatal" /\ (\E c \in Clones : Busy(c)) => pc = "wait"

(* api_testsuite.go:330: the suite succeeds exactly if every clone of every
   test it started ran to the end of its file, with no failure but forgiven
   ones. *)
SuccessExact == pc \in {"leave", "keepRunning", "stopHttp", "stopSmtp", "finished"} =>
                  success = ~hardFail

(* report.go:116: a finished suite has a failure in its report exactly if
   something failed, forgiven by continue_on_failure or not; the exit code is
   computed from the report alone. *)
ReportTellsAll == pc \in {"keepRunning", "stopHttp", "stopSmtp", "finished"} =>
                    SomeFailure(rep) = (hardFail \/ softFail)

(* api_testsuite.go:226: once something failed for good, the suite starts no
   further test. *)
StopsAtFirstFailure == [][hardFail => k' = k]_vars

(* api_testsuite.go:272: every template a clone renders, in nested files too,
   sees the clone's own index as parallel_run_idx. *)
RunIdxIsClone == \A c \in Clones : \A i \in DOMAIN frames[c] : frames[c][i].run = c

(* api_testsuite.go:279, :328: the clones at work are those of the test that is waited
   for, and each of them loads all its files under its own index. *)
ClonesOfTheTest == NoStragglers /\ RunIdxIsClone

(* api_testsuite.go:199: clones only start once every configured server is up,
   unless another process had its address when the suite started: WaitForTCP
   takes any listener for the suite's own.  A finished suite leaves no server
   running. *)
ServersAround ==
  /\ pc = "wait" => \A x \in Servers : Configured(x) =>
                      \/ State(x) = "up"
                      \/ State(x) = "starting" /\ x \in conf.taken
  /\ pc = "finished" => \A x \in Servers : State(x) = "off"

(* datastore.go:89: also in parallel runs the response list has one slot per
   case that received an answer; so UpdateLastResponse, which needs an entry
   to overwrite, never meets an empty list. *)
SlotPerCase ==
  Len(log) = Cardinality({a.case : a \in final} \cup
               {elem[c] : c \in {d \in Clones : cpc[d] = "case" /\ polls[d] > 0}})

(* datastore.go:93: a step overwrites at most the last entry of the response
   list: what is reachable under its non-negative index before the last one
   stays what it was. *)
EarlierResponsesStable ==
  [][/\ Len(log') >= Len(log)
     /\ \A i \in 1 .. Len(log) - 1 : log'[i] = log[i]]_log

(* The two waits without a deadline: WaitForTCP for an address at which nobody
   ever accepts, and Shutdown for a client that does not end. *)
WaitsForAddress == \/ pc = "awaitSmtp" /\ Configured("smtp") /\ "smtp" \in conf.unreached
                   \/ pc = "awaitHttp" /\ Configured("http") /\ "http" \in conf.unreached
WaitsForClient  == \/ pc = "stopHttp" /\ "http" \in held
                   \/ pc = "stopSmtp" /\ "smtp" \in held

(* api_testsuite.go:328, net.go:14, smtp_server.go:44, http_server.go:109:
   without test mode and --keep-running the suite comes to an end, or stays for
   ever in one of these two waits: no goroutine of its own holds it up. *)
SuiteEnds ==
  conf.http # "testmode" /\ ~conf.keepRunning =>
    <>(pc \in {"finished", "fatal"}) \/ <>[](WaitsForAddress \/ WaitsForClient)

=============================================================================
