# TLA+ models of apitest

These modules model the control of `apitest`, the tool that runs API test
suites against a server: what happens between reading a manifest and the exit
code, in which order, by which goroutine, and what each step changes. TLC checks
them on small instances; TLAPS checks the theorems for every instance.

Line numbers refer to the repository's root (`api_testcase.go:435`).

## 1. Inventory

### How the parts work together

```
main.go: runApiTests                               exit code, report file
   |  per manifest: report element, datastore, newTestSuite
   v
Suite.run ---- starts ----> SMTP server, HTTP server (proxy stores)
   |  per test: parseAndRunTest, N goroutines ("clones"), WaitGroup
   v
testGoroutine --> nested parseAndRunTest --> ... --> runLiteralTest
   v
Case.runAPITestCase, Case.run (poll loop)
   |-- datastore: custom storage, list of responses   (shared by the clones)
   |-- api.Request.Send: http.Client                   (shared by the process)
   |-- compare.JsonEqual
   '-- report elements                                 (shared by the clones)
```

Calls go downwards; what comes back is a boolean. Two things are shared by
goroutines: the datastore and the report tree (with locks), and the
`http.Client` (without). The SMTP and HTTP servers are used over the network by
the cases and by the server under test, each connection in a goroutine of its
own.

### Components

| Component | State | Operations | What is hard | What makes it correct |
|---|---|---|---|---|
| Poll loop, `api_testcase.go` | request counter, start time, last response, collect responses left, timeout flag | send, store the response, compare, break check, collect check, timeout, verdict, reversal | four ways to stop that may hold at once; a late match; formats that are carried from one entry of a list to the next; `timeout_ms` of 0, -1 and below; lists checked over several polls | passes only if all that was asked for was seen; no failure before the time is up; a break response ends it; one entry in the response list; ends unless told to run for ever |
| Suite, `api_testsuite.go`, `http_server.go`, `smtp_server.go` | tests, verdict, servers, WaitGroup, success counter, loaders with their run index | run, parallel runs, nested files, literal cases, forgiven failures, server start and stop | interleavings of clones; stopping early; servers that die, whose address is taken or out of reach, or whose clients stay; a goroutine left behind | nothing of a test runs after its verdict; the verdict says what happened; servers are up while cases run; it ends, or waits for somebody else |
| Report, `report.go` | tree of elements with counts | NewChild, Leave, getTestResult, DidFail | written to by clones in any order; added up in place, more than once | every failure is in it; the exit code follows it |
| Datastore, `datastore.go` | custom storage, list of responses, RW lock | Set (`k`, `k[]`, `k[m]`), Get, delete, SetMap, SetWithGjson, AppendResponse, UpdateLastResponse | read-modify-write of lists; accesses without the lock; the header of the list copied before the lock; "the last response" under parallel runs | no push is lost; a response read is one that was there meanwhile; nobody waits for ever; one slot per case; the process lives |
| HTTP client, `request.go`, `build_policies.go` | one `http.Client`; the request that is built | build from test, manifest and store; Send with or without cookie jar, redirect policy | loops over maps in random order that overwrite each other; the policy is a field of the shared client | what is sent is what is asked for; a request's policy and jar are its own; it ends |
| Response data, `response.go`, `pre_process.go` | none that outlives a call | response to JSON by format, expectation to JSON, comparison of both | two conversions that must agree; bodies ignored, null, empty or unreadable | a response passes as its own expectation; a pass is explained by what was asked for |
| CSV, `pkg/lib/csv` | none | typed and generic tables to JSON | columns and rows left out while values are found by position | types change values only |
| Proxy store, `internal/httpproxy` | list of requests | write, read by offset | offset, body and append are separate steps of concurrent handlers; wrap-around of the next offset | the offset told is the one to read at; a reader sees every request |
| SMTP server, `internal/smtp` | list of messages, sessions | Mail, Rcpt, Data, Reset, Logout; parsing; post, list, search, retrieve, parts at any depth | sessions reused, also without RSET; handlers in parallel; indexes at every level; negative ones | append-only list; an envelope has what its client named since the last reset; acknowledged means stored; every index shown leads where it says, and everything is reachable |
| Comparison, `pkg/lib/compare` | marks and positions of the array loops | JsonEqual, object and array comparison, key checks, controls and their depth | greedy matching; positions of two arrays in one map; random order of keys | equal means matched; the first fit does no harm where documented |
| Process, `main.go`, `config.go` | configuration, report, datastore per manifest | configure, load, run, leave, write the report, exit | load errors in the middle; the report written early; elements left twice | exit code 1 exactly if something failed |
| Report formats, `parsing_functions.go` | none; the statistics sort the tree | JUnit, JSON, statistics | counts and testcases come from different places; greedy groups | the JUnit report agrees with what ran; groups are even |
| Manifest and test loading, `api_testsuite.go`, `template_loader.go`, `template_funcs.go`, `template/util.go`, `path_util.go` | loaders with delimiters and directories | two passes over the manifest, tests, requests and responses from files, file_render | a loader that is shared here, copied there and built anew elsewhere; directories handed on from file to file; a first pass without the host that the second one has | documented delimiters and directories; whatever is run is loaded with the host of the command line |
| Template functions, OAuth, format conversions of XML, HTML and XLSX | none | conversions | wide input domains | not modelled, see section 8 |

The hazards behind the third column, each at its line, are in `PROJECT.json`.

## 2. Plan

The order is: what decides a verdict first, then what verdicts are made of.

1. `CaseProtocol`, `TestCase`: one case. Proofs of all safety properties and of
   the refinement. *Done.*
2. `Report`, `Suite`: cases composed in parallel and nested runs; a case is
   what `CaseProtocol` allows. Proofs of all safety properties. *Done.*
3. `Store`: the custom storage under parallel clones, with the race. Proof of
   the lock and of `NoPushLost`. *Done, for values that are no lists or maps
   themselves.*
4. `ArrayCompare`, `JsonCompare`: the comparison. Proof of the array loops for
   all lengths, and that they agree with the comparison in one go; of the
   comparison of values of any depth. *Done.*
5. `AppendLog`, `HttpProxyStore`, `SmtpServer`: the servers, as implementations
   of one abstract log. Proofs of both refinements. *Done, for the proxy store
   with one writer at a time; it is no log otherwise.*
6. `HttpClient`, `Apitest`: the client and the process. Proofs of the jar, of
   the redirect policy and of the exit code. *Done.*
7. `Datastore`: the list of responses beside the storage, with the header that
   is copied without the lock; proofs that it implements `Store` and that reads
   are recent. *Done.*
8. `Request`, `Response`, `Csv`: what is sent and what is made of the answer, on
   top of `HttpClient` and `JsonCompare`. Proofs that requests are sent as
   written, and that a response is judged as asked for. *Done.*
9. `Loader`: manifests, tests and the files they are made of. Proofs of all its
   properties. *Done.*
10. `SmtpHttp`: the parts of messages and the handlers that show them. Proofs
    that what is shown leads there, and that everything can be reached. *Done.*
11. `ReportFormats`: what the report file says of the tree. Proofs that the
    JUnit suites add up and that the groups of the statistics are even. *Done.*

Left for later:

- an abstract specification of a suite, implemented by `Suite` and used by
  `Apitest` in place of its step per test;
- lists and maps in the custom storage that share memory with what a template
  was given;
- objectComparison as a loop over keys in random order, beside the operator
  that is evaluated now.

## 3. Modules and code

| Module | Stands for | Correspondence |
|---|---|---|
| `TestCase` | `Case.runAPITestCase`, `Case.run`, `executeRequest`, `breakResponseIsPresent`, `checkCollectResponse` | `pc`: *start*, *request* (sleep and executeRequest), *check* (everything after it in the loop), *verdict* (after the loop), *leave* (end of runAPITestCase). One action per way through the loop body. Responses are model values; an expected, break or collect response is the set of (format, response) pairs it accepts, so that the format carried from one list entry to the next is visible (`EffectiveFormat`; break responses adopt those with a type only). Errors of rendering, sending, decoding and matching are actions. |
| `CaseProtocol` | what a suite may rely on in a case | its `entry` is the log of a case, `success` its result |
| `Suite` | `Suite.run`, `parseAndRunTest`, `testGoroutine`, `runLiteralTest`, `buildLoader`, `startHttpServer`, `stopHttpServer`, the SMTP counterparts, `WaitForTCP` | the main goroutine (`pc`) and one process per clone (`cpc`). A nested `parseAndRunTest` starts one goroutine and awaits it at once, so that a clone is a stack of frames. `EndCase` ends a case with either result and may come after any number of answers, as `CaseProtocol` allows. A server is *off*, *starting* (its goroutine runs) or *up*. The address of one may be `taken` by another process, which `WaitForTCP` takes for the server, or `unreached`, as an empty one is, which it polls for ever. Clients may hold a server up at its `Shutdown` (`held`). What others do with addresses and connections are steps of the environment. `logrus.Fatalf` leads to *fatal*. |
| `Loader` | `newTestSuite`, `loadManifest`, `testGoroutine` and `parseAndRunTest` as far as they load files, `Loader.Render`, `loadFileAndRender`, `LoadManifestDataAsObject`, `PathSpec.LoadContents`, `LocalPath` | a stack of files that are being read, each with its loader's delimiters, those it was rendered with, its host and a directory. A file is rendered by the calls it contains in turn, then its tests, requests and responses follow, and the entries of a file of collect responses, which are files in turn. What a template and its JSON refer to depends on the host. A failure in the files of a case that is forgiven or reversed is the case's (`Forgive`), any other ends the suite. A path is a base and the steps from it. |
| `Report` | `NewReport`, `NewChild`, `Leave`, `getTestResult`, `DidFail` | operators on the sequence of elements, each with its parent; what adds the tree up is a recursive function of the number of elements that are done |
| `Store` | `Datastore.Set`, `Get`, `delete`, `SetMap`, `SetWithGjson`, and where a case calls them | Set and Get are two steps, lock and unlock; delete and the template's walk over the map returned for `-` (or for a key that holds a map) are two steps without the lock. Go calls overlapping accesses a data race: `Clash` lets the runtime end the process, and without it both take effect. |
| `Datastore` | `AppendResponse`, `UpdateLastResponse`, `Get` of an index, and where a case calls them | on top of `Store`: the list is a Go slice, a header and the arrays behind it, whose capacity doubles as in Go's append. Get copies the header in two reads before it waits for the lock. |
| `HttpProxyStore` | `store.write`, `store.read` | write: offset, body, load and store of `append`; read: count, then entry. Two appends between load and store share a slot, which then holds the entry of either. |
| `SmtpServer` | `session`, `Server.AppendMessage`, `ReceivedMessage(s)`, the HTTP handlers that post, list and retrieve | `spc` is what go-smtp permits next: MAIL at any time but during DATA, as the session itself refuses nothing. A transaction is numbered, and the number stands for the body. |
| `SmtpHttp` | `message.go`, `search.go`, the HTTP handlers and their routes | on top of `SmtpServer`: a message is one of `Contents`, which have parts that are such contents again; parsing accepts or refuses it. Parsing, describing and routing are recursive functions of the content. An answer is its status and the paths it shows, each with the content that is described there; a regular expression is the set of headers it matches. |
| `AppendLog` | what both servers promise | entries are added at the end and carry their position |
| `HttpClient` | `Request.Send` | `SetClient` is the choice of client and the assignment to CheckRedirect; net/http's behaviour at redirects and timeouts is external |
| `Request` | `loadRequestSerialization`, `buildHttpRequest`, `build_policies.go` | on top of `HttpClient`: each loop over a Go map is an action that takes any entry left; a result is a header or nothing, which ends the build. Canonical names of headers are given as a function; a header is a list of values and a value the set of its parts, as the order in which a map is gone through decides that of its parts. |
| `ArrayCompare` | `arrayComparison` | the loop over the left array is one step per element; `at` remembers partners and is history only. What JsonEqual says of a pair is given. The same comparison in one go, `arrayComparison`, is a function of the positions. |
| `JsonCompare` | `JsonEqual`, `objectComparison`, `keyChecks`, `fillComparisonContext` | a recursive function on the pairs of `Values`, all JSON values under study, by their `Height`; it gives the comparison of `ArrayCompare` its problem. The values and the arguments a comparison may be given are assumptions: `ValuesAssumption`, `ArgumentsAssumption`. |
| `Csv` | `CSVToMap`, `GenericCSVToMap` and what they call | operators on tables of cells; `TypesAssumption` says what a type makes of a cell |
| `Response` | `response.go`, `pre_process.go`, `loadExpectedResponse`, `responsesEqual`, `executeRequest` after the answer | operators on responses and expectations. A body is its text with what each reader makes of it; errors and panics are results. `unknown` are the fields of an expectation that the strict decoder refuses. `ExchangesAssumption` says what a server can send. |
| `ReportFormats` | `parsing_functions.go`, `Flat`, `getLog` | operators on the tree of `Report` |
| `Apitest` | `runApiTests`, `newTestToolConfig`, `runSingleTest` | one step per manifest and stage; a test is one step that leaves its cases in the report, ok or not whatever these say, with lines in the log of any of them |
| `MC*` | - | the instances |
| `*_proofs` | - | the theorems, section 6 |

Compositions: `Suite` and `Apitest` work on `Report`, and what `Apitest` writes
is read through `ReportFormats`; `TestCase` implements `CaseProtocol`, which
`Suite` has its cases follow; `Datastore` runs the clones of `Store` and adds
their responses; `Request` hands what it builds to `HttpClient`; `Response`
hands its objects, made with `Csv` among others, to `JsonCompare`, which runs
`ArrayCompare` on problems that come from JSON values; `SmtpHttp` reads the list
of `SmtpServer`, which like `HttpProxyStore` implements `AppendLog`.

An operator commented as *Mutant* is a slip that could be made in the code. It
is not part of any specification; each property fails if the slip of its row in
`PROJECT.json` is put in place of the definition it follows.

## 4. Runs

The type invariants of the modules are not among the properties of the runs:
where there are theorems they are proved (section 6), and a slip that they would
catch breaks one of the properties below as well.

### Runs that pass

**TestCase_poll.** All combinations of four timeouts (-2, -1, 0 and one that is
over after a few polls), three break lists, no or three collect lists and
reversal, and lists in which entries with a format come first, in the middle or last. Three answers are enough for one that is
expected, one to wait on and one that is bad; the clock has to get past the
timeout (2) and saturates at 4; the request counter matters only as zero or
not. Shows: a case with a collect list and a timeout passes only if the last
answer is the expected one and every entry was met, in its own format if those
with a format come last in the list (`CollectComplete`); a
mismatch is not reported before the time is up (`NoPrematureFailure`); a pass
in spite of a break response is possible only if that answer is also the
expected one, under the same condition on formats (`BreakEndsTheCase`); it implements `CaseProtocol`; and it ends
unless the timeout is -1 (`Terminates`).

**Suite_parallel.** Six manifests with 0 to 2 clones: a polling case, a
forgiven one, nested files, a nested parallel run (refused), runs of 0, an empty
manifest; with both servers, with one to be interrupted (`--keep-running`), in
test mode, with an HTTP address that another process has and may give up, and
with addresses that nobody ever reaches. Two clones are enough for any two of
them to interfere, two answers for one to overwrite another. Shows: no clone runs
after the verdict on its test, and each file a clone renders, nested ones
included, has that clone's index (`ClonesOfTheTest`); the suite's success is
exactly that nothing failed for good (`SuccessExact`); the report has a failure
exactly if something failed, forgiven or not (`ReportTellsAll`); servers are up
while clones run, unless another process had the address at the start, and off
when the suite has finished (`ServersAround`); the response list has one slot per
answered case although clones overwrite each other's answers (`SlotPerCase`); and
the suite ends, or it waits for ever for an address at which nobody accepts or
for a client that does not leave, and for nothing else (`SuiteEnds`).

**Datastore_clones.** Two clones of a case that polls up to twice, pushes to a
list, deletes it, sets a key of a map, reads a list element and a map, stores
its responses and asks for the response at index 3 or -1; three responses are
there before, so that the first append fits into the array behind the list and
the second moves it. Shows: a response that is read is one that was at
that index during the call, if it was there when the call began, or if the list
did not grow meanwhile (`ReadsAreRecent`); pushes are all in the list, in order,
until the key is overwritten or deleted, even if an unlocked delete falls
between the halves of a Set (`NoPushLost`); every clone ends, if the process
lives (`CasesEnd`). Deadlock is not checked: clones end, and so may the process.

**Proxy_serial.** One writer, one client that follows the next offset, one that
reads at any offset, negative and too high ones included; up to three entries,
so that the offset wraps around while the store grows. Shows: an append-only log
(`ImplementsLog`), and a walking client sees every request
(`EveryRequestRead`).

**Smtp_http.** Two sessions and the HTTP handlers; three messages, one with a
multipart in a multipart, one that is plain, and one with a part that cannot be
read; all paths of up to six steps that matter, with searches at every level.
Three messages are enough for a session to be used again after one that was
refused, and for two sources to race for one index. Shows: an append-only log
(`ImplementsLog`); an envelope has the sender of its own MAIL and the recipients
named since the last reset, no others and no fewer (`EnvelopeIntact`); acknowledged is the same as stored (`AcceptedIsStored`);
every index in an answer leads to the content it was shown for, now and after
any step (`ShownLeadsThere`); and from `/smtp` on every part of every message
can be reached, while only a negative index makes a handler panic
(`EverythingReachable`). The last two are about states in which the list has
just changed, as answers depend on nothing else. Deadlock is not checked: three
messages are all.

**Client_jar.** Two senders, one with a jar and requests of every kind, one
without and with simple requests: the policy of the shared client is its own
then, which *Client_shared* shows to be necessary. A limit of 2 redirects in
place of 10. The requests have headers that come from several sources, lists,
empty and unknown values, cookies of either source, parameters, all body types,
and each error. Shows: in any order of the maps a request that is sent has each
header, parameter and cookie of the test, or else of the store, and the cookies
the server is to set (`SentAsWritten`), unless it names one header in two spellings, or has a list under a name that is not canonical where
the store has a value too; `no_redirect` is honoured (`NoRedirectHonoured`), the
jar stays with those that asked for it (`JarOnlyForOptedIn`), and every request
ends (`RequestEnds`).

**Apitest_run.** Four lists of manifests (failing to load in the middle, with
no test, with several) with and without `--stop-on-fail` and a report file;
tests of up to two cases with any outcome, also failed ones of which no case
failed, each with or without a line in its log; the
statistics for all running times of 0 to 3 in two groups. Shows: the exit code
is 1 exactly if something failed (`ExitCodeExact`) although the tree is added up
once for each report and once for the exit code; the JUnit report has a failure
exactly if something failed, and if everything could be loaded and no suite is
empty it counts every leaf once, its suites add up, and what failed with a line
in its log, and nothing else, is shown as failed (`JUnitAgrees`); no
group runs longer than another by more than its own shortest manifest, and each
manifest is in one (`GroupsBalanced`).

**Loader_files.** A manifest with a file it includes and two tests, with
requests, responses, a file of collect responses and a nested test in other
directories, that include files by plain, `./` and absolute paths, of which some
do not exist; each file declares one of two pairs of delimiters or none, and all
are written for one pair or the other; the library and one of the tests load
more if there is a host. Nine files are enough for each kind to refer to each
other kind and to be referred to after one that has changed the delimiters.
Shows: what has no delimiters of its own is read with those of the file that
refers to it, unless a file included there has changed them (`DelimsInherited`),
which does not outlive the test, request or response it happened in
(`LeakConfined`); a plain path is taken from the directory of the file it is in
(`DirIsWhereItLies`); and whatever is loaded for the run, at any depth, is
rendered with the host of the command line and is what the file around it refers
to with that host, though the first pass has none (`HostReplaced`).

**Compare.** Arrays of up to two elements (three for some) of scalars, null,
objects, arrays and objects with controls, under all combinations of
order_matters, no_extra and depth -1, 0, 1, and element_no_extra: two levels are
enough for a depth to end above the values it would change. Shows: equal
means matched (`EqualMeansMatched`); the first fit finds partners if there are
any, always with order_matters and otherwise for elements that are alike enough
(`FirstFitComplete`); the state machine and the recursive function agree
(`LoopsAgree`), so what holds of the loops holds at every depth; an expectation
passes only if the response contains it, whatever controls are set, and one
without controls in it passes for itself (`PlainVerdict`); order_matters
and no_extra at depth -1 accept only the identical arrays
(`FullDepthIsIdentity`). Beside the arrays, responses with every combination of
status code, headers and cookies are judged by expectations of each, and bodies
that are empty, null, JSON, a document, tables of all kinds or none of these by
expectations in every format, with and without pre_process. Shows: what is
stored of a response, taken as an expectation in the same format and without
`header_flat`, accepts that response, and with it is an error (`ReplayedMatches`); a response passes only for the status code, headers,
cookies and body that were asked for (`VerdictExplained`); and the types of a
table change nothing but its values (`TypesOnlyType`).

### Runs that find a disagreement

- **Store_race**: `delete` takes no lock and Get hands out the live map for
  `-`. Two clones can make the Go runtime end the process, though README.md:573
  offers parallel runs of any test.
- **Proxy_race**: with two writers at a time, two requests can be told the same
  offset, and one can be lost, though README.md:3003 says the body of the answer
  is the used offset.
- **Client_shared**: two senders without a jar; the policy of one is replaced by
  the other's while it is in use, though README.md:222 says `no_redirect` keeps
  a request from following redirects.

## 5. Fairness

- `TestCase`: weak fairness of the next step. The HTTP client has a timeout,
  external programs aside nothing in the loop blocks, and time goes on: `Elapse`
  moves the clock at least one tick per poll, as a request takes time.
- `Suite`: weak fairness of the main goroutine, of every clone, and of a
  listening server's start; the Go scheduler runs what is ready. Nothing is assumed
  of other processes and clients: an address need not be given up (`Vacate`), nor a
  connection (`Release`), and `SuiteEnds` names both waits. The polls of a
  case are bounded by `MaxPolls` in place of the timeout that `TestCase` has; a
  case with timeout -1 need not end and is left out by that bound. The interrupt
  is not fair either: `SuiteEnds` excludes `--keep-running` and test mode.
- `Datastore`: weak fairness of each clone. A clone waits for a lock only,
  others take it finitely often, so that weak fairness is enough.
- `HttpProxyStore`: weak fairness of the writers' remaining steps and of the
  client that walks. Writers need not begin.
- `Request`: weak fairness of a sender's steps while it builds, which are a
  goroutine's own, and of the client's timer. Nothing is assumed of the servers
  or the network, and a sender need not begin.
- `SmtpHttp`, `Apitest`, `Loader`, `Response`: safety only, no fairness.

## 6. Theorems

All are proved from the named `ASSUME`s of the modules, which type the constants
and which TLC evaluates in the runs. No number of clones, files, keys or array
elements is fixed in them.

**TestCase_proofs.** `CaseInvariant` proves `CaseInv`. Type correctness alone is
not inductive enough for anything that spans polls: `Stages` ties program
counter, counter and received answers together; `OneEntry` says the log is the
last answer; `Timing` that a case without collect list leaves the loop unmatched
only after its timeout; `Collecting` that what is no longer on the list was met
by something received; `Breaking` that no answer before the last was a break
response. `NothingCarriesOver` says that in a list whose entries with a format come
last each is compared in its own, or in the case's. From it follow `CollectComplete`, `NoPrematureFailure`,
`BreakEndsTheCase`, one entry per case, one request without a timeout, and the
refinement of `CaseProtocol`, step by step.

**Suite_proofs.** `SuiteInvariant` proves `SuiteInv`: types, `Counters` (the
WaitGroup is the number of clones at work, the success counter the number of
those that got to the end), `Stage` (clones work only while main waits, and
those below the number of runs were started) and `Judgement` (what success and
result say of failures so far). The main step is Wait: if no clone works and the
counter equals the number of runs, no clone gave up, by cardinality.
`NoStragglers`, `SuccessExact` and `Suite_StopsAtFirstFailure` follow; the last
says no test is started once something has failed for good, and is proved but
not run. `ReportTellsAll` needs `Failures` on top of it, and `RunIdxIsClone`, the
other half of `ClonesOfTheTest`, an invariant about frames. `ServersAround` needs
`ServersInv`: past its wait a server is up, or it is starting and its address was
taken from the start, for nobody takes one later. `SlotPerCase` needs one that each running case has a report element of its own, by which its slot is
counted. `Suite_EarlierResponsesStable` is an action property: a step changes at
most the last response.

**Compare_proofs.** First the arrays. `LoopInvariant` says for both modes which positions the
marks are: those of the left array with order_matters, those of the right one
without. That is why no_extra works in either: in the first case there are as
many marks as left elements, and a pigeonhole argument makes lengths equal.
`ArrayCompare_FirstFitComplete` uses a second invariant, `NotBehind`: compared
with any other assignment, the first fit has had no failure so far, and with
order_matters no partner lies behind that of the other (exchange). Without
order_matters it is a counting argument under `Uniform`: if all partners of an
element were taken, they were taken by elements that match the same ones, more
than there are. `Uniform` cannot be dropped: see section 7, greedy matching.
`ArrayCompare_LoopsAgree` joins the loops to `arrayComparison`, the comparison in
one go that `JsonCompare` uses for nested arrays: `Partners` is shown to exist as
a function on all positions, by induction on their number, and the invariant
(`Agree`) is that `at` is that function on the elements done so far. So
the theorems above are about arrays at every depth.

Then values. `JsonEqual` is a recursive function on the pairs of `Values`, which
may be any set that has the parts of its members and a height for each
(`ValuesAssumption`); a JSON value is finite, and so it has one. `Recursion` says
that a function whose rule looks at lower arguments only has a value for each,
by induction on the height, and `JsonEqualIs` that JsonEqual is thus what its
rule says of the parts. `OverParts` is the induction over values that the other
lemmas use: what holds of a value if it holds of its parts holds of all.
`JsonCompare_PlainVerdict` comes from `EqualIsContained`, by which no control
makes up for a part that is missing, and `PlainIsEqual`, by which the first fit of
an array in itself is complete at each level. For
`JsonCompare_FullDepthIsIdentity`, `AscendingIsSame` says that partners in
ascending order in arrays of one length are the same positions, and
`FullDepthIsSame` goes down with it.

Last, responses and tables. `PassedIs` takes a verdict apart into one for each
part of the response object, and `PassedCode` to `PassedBody` say what each
means, which is `Response_VerdictExplained`. A cookie is the one that needs work:
the map of cookies is made by name, and the last one of a name stays. For
`Response_ReplayedMatches`, `SpecOfIs` says what the stored response asks for
when it is taken as an expectation, `CookiesAgain` and `ListsAreRead` that cookies
and headers become the same objects again by the other way, and `AgreeingPasses`
that two objects that agree pass for one another, if no value has controls. `StoredIs` and `VerbatimIsError`
are about the stored response as it is: one with headers has `header_flat`, which
the strict decoder of expectations refuses.
`Response_TypesOnlyType` counts what stays of rows and columns in both readings
(`RowsAreLeft`, `TypedColumns`, `RowsOnlyTyped`).

The assumptions are what Go's decoders give (`ExchangesAssumption`): a response
has a status code above 0, its cookies have names, and what is read from it has
no controls, as these are keys that the comparison looks for in expectations
only. That types with `*` are none of the types without is `TypesAssumption`.

**Datastore_proofs.** First the storage. `StoreInvariant`: the lock (`Locked`:
one writer, and no reader meanwhile), what stages leave to do (`InStage`), and
the part that matters, `InHand`: what Set found under its key still ends in all
that was pushed since, and so the value it writes does. An unlocked delete may
fall in between; it empties the record of pushes too. From it follow the types
and `NoPushLost`, for any number of clones, keys and entries.

`DatastoreStep`: a step of the datastore with responses is one of the storage or
changes nothing of it. So it implements `Store` (`Datastore_ImplementsStore`),
and `NoPushLost` holds for the whole. `Datastore_ReadsAreRecent` is the theorem
about the header that Get copies without the lock, in two halves. Neither half
need be what the list has when the lock is taken; what saves the read is in
`CallIntact`: the length a call has copied is never more than the list's, and
the array it has copied is the current one or one that nobody writes to any
more, and it holds, at the index asked for, something the list had there since
the call. That `Capacity` is never less than the length is proved by induction.

**Servers_proofs.** Both servers implement `AppendLog`, the SMTP server
unconditionally.
`SmtpInvariant` follows a session: what it has gathered is the sender of its last
MAIL and all recipients its client has named since the last reset
(`SessionIntact`), no two sessions have the same transaction (`OwnTransactions`),
and the list is what was acknowledged (`ListIntact`). The clause that makes it
inductive is that a session that was reset has no recipients, as a further MAIL
takes over those that are there. `EnvelopeIntact`, `AcceptedIsStored` and
`Smtp_ImplementsLog` follow for any number of sessions.

The handlers that show messages come next. `Http_ImplementsSmtp` says that the
server with messages that can or cannot be parsed (`HttpSpec`, which the run
checks) implements `SmtpServer`'s specification, so that all of the above holds
of it. The contents may be any set that has the parts of its members and a depth
for each (`MailsAssumption`): a message is finite, so it has one.
`buildContentMeta` and the routes of `subrouteContentEndpoint` look at the parts
of a content only, so that `Recursion` gives both a value and `OverContents` an
induction. It shows that what is described of a content is found there
(`LeadsThere`), that nothing below a content shows anything else
(`ShownIsDescribed`), and that the description is closed under parts
(`DescribedThroughout`). `AllShown` is then all that can be shown of the messages
in the list: no answer shows anything else (`AnswersConfined`), each of it is
found where it says (`ShownIsFound`), and it stays, as messages keep their
places and carry them (`Positioned`, `ShownStays`). `Http_ShownLeadsThere` joins
these; with an answer before a step and the lookup after it, it needs all four.
`Http_EverythingReachable` is `AllIsReachable` of the state after a step.

Of the proxy store, whose module is instantiated beside it, types hold for any
writers, but `Proxy_ImplementsLog` and `Proxy_IsInvariant` assume `OneWriter`:
then a write under way has seen the whole list (`WritesAtTheEnd`). That is what
the code gives if the requests to a proxy come one after the other; without it
the theorem is false, and *Proxy_race* is the counterexample. Readers may be any
number. `ProxyAssumption`, the types of the constants, is a hypothesis there as
the module is an instance; TLC evaluates it in *Proxy_serial*.

**Request_proofs.** `ClientInvariant` has, besides the types, `JarKept`: who
sends with a jar has a client of its own, and the shared one has none. The jar
stays with those that asked for it, whatever others do, and a request with
`no_redirect` and a jar follows no redirect (`Client_JarPolicyHonoured`). For all requests (`Client_NoRedirectHonoured`) the hypothesis is that
at most one sender uses the shared client; two are the counterexample of
*Client_shared*. On top of it, `BuildInvariant` says at each stage what is in
place: for each loop over a map, that every name already taken has what it is to
have and every other what it had before, which does not depend on the order. It
needs names to be canonical once and for all (`NamesAssumption`: canonicalising
twice changes nothing, as in net/textproto). `Request_ImplementsClient` carries
the client's theorems over, `Request_SentAsWritten` says what arrives, for any
headers, parameters, cookies and values.

**Loader_proofs.** `LoaderInvariant` is about the stack of files. `Stack` says of
each frame what it was rendered with, that plain paths in it are taken from its
own directory, that its host is that of the pass, and how it sits on the frame
below (`Sits`): what that frame refers to, with the host in hand, leads to its
file, and if it has a loader of its own, the loader of the test it was copied
from is still as it was. The last two are `HostReplaced` and `LeakConfined`. A
rendered file shares the loader of its owner, the innermost frame that is not
rendered; `OwnerFrame` says that the owner of a frame is that of the frame below
it. `DelimsInherited` is an induction up the stack: a file that declares nothing
was parsed with what the frame it goes on from was parsed with (`Inherited`), and
the frames whose declaration may count are the same for both (`OwnInherited`).
An entry of a file of collect responses goes on from the test, not from that file.
`Rendering` separates the two passes: nothing of the first, which has no host, is
in hand when the second one begins.

**Apitest_proofs.** `ProcessInv`: the report is a tree in which each element is
younger than its parent (`IsTree`), the process stands where its counters say
(`Placed`), and the tree has a failure exactly if something failed
(`ReportTells`). What needs work is `getTestResult`, which adds the counts up in
place: it may run after each manifest and at the end over counts that were
already added up. The lemmas say that it is the last value of an iteration that
exists (`Iterated`, by induction on the number of elements), that each step
keeps the tree and adds up counts of failures (`Settled`, `Totals`), and so that
there is a failure after it exactly if there was one before, however often it is
done. `Apitest_ExitCodeExact` follows for any manifests, any number of tests and
with or without a report file and `--stop-on-fail`.

`Apitest_JUnitAgrees` has two parts. That the total has a failure exactly if
something failed is `ReportTells` and holds however often the tree was added up.
The rest needs what each count is, not only whether it is 0, and so that
everything could be loaded and no suite is empty. `Counted` says that every
element without sub tests is counted as one test, but for a manifest just begun,
and `ReportCounted` that the report is so at every step until it is added up.
Adding up keeps what `CountedTotals` says, and `Flat` lists each leaf once, under
one top element (`FlatOfRoot`, `BranchesApart`), so that the sums over suites and
leaves agree.

`Apitest_GroupsBalanced` is about dealing out: `Balanced` says of i manifests
dealt that they are the slowest ones and that no group runs longer than another
by more than any of its own manifests. The next one goes to the group that runs
the shortest (`LowestGroup`), which keeps it (`OneDealt`, and by induction
`AllDealt`).

Where these proofs need induction over numbers, it is from the least element of
a set (`Inductive`, by the theorem on well-founded sets), applied to the set of
numbers for which the fact holds.

### Checked by TLC only

What eventually happens: `Terminates`, `SuiteEnds`, `CasesEnd`, `RequestEnds`,
`EveryRequestRead`. The theorems about `FairSpec` use its safety part only. Every
other property of a passing run is also a theorem.

## 7. Disagreements seen that no run is about

The models have these as the code does.

- README.md:244 says all collect responses are checked. With `timeout_ms` 0 or
  below -1 the loop ends without the timeout flag and an incomplete list is not
  missed if the last response matched (`api_testcase.go:435-452`).
  `CollectComplete` is stated for other timeouts.
- README.md:243 says a break response fails the test. A response that matches
  ends the loop before it is looked at (`api_testcase.go:406`).
- README.md:469 calls break responses a logical OR, and README.md:470 collect
  responses a logical AND. The format of one is adopted by the response and used
  for the next ones without a format (`api_testcase.go:161-165, 205-209`). Both
  hold if those with a format come last, which is the condition (`FormatsLast`) of
  `BreakEndsTheCase` and `CollectComplete`.
- README.md:989 says the current response is appended after it was evaluated.
  It is appended before the comparison (`api_testcase.go:312`).
- README.md:956 shows one element after a push. The store of a test is set
  before the case and once more before every request
  (`api_testcase.go:85,259`), so there are two at least.
- README.md:977 and 981 promise an empty string for an unset key and for an
  invalid index. `k[m]` of an unknown key is an error
  (`datastore.go:210-213`), and so is a name as the index of a list.
- A push onto a value that is no list drops the old value, though the code
  starts by putting it first (`datastore.go:149-160`).
- README.md:2134 says all responses are in the list. In parallel runs a repeated
  request overwrites the last one, whoever's it is (`datastore.go:93`); the
  number of slots is right, as `SlotPerCase` has it.
- README.md:2787 gives -1 for `parallel_run_idx` outside of a parallel run. A
  test that runs once has index 0 (`api_testsuite.go:279-283`).
- A negative index panics in `/smtp/$idx` and in the proxy store
  (`internal/smtp/server.go:97`, `internal/httpproxy/store.go:96`); net/http
  recovers from it and closes the connection.
- After a manifest failed to load, the report is written once more at the end
  and its counts include earlier ones twice (`main.go:235`, `report.go:131`).
  `JUnitAgrees` excludes load errors; the exit code is right all the same.
- Without order_matters, two arrays can be reported unequal although partners
  exist, because a partner once taken is not given back
  (`comparison_functions.go:408`). It needs elements of which one accepts less
  than another that it shares a partner with, as objects that ask for different
  keys do.

- README.md:939 says the custom storage is persistent throughout the run. The
  datastore is made anew for every manifest (`main.go:223`), with what earlier
  manifests have put into it gone.
- README.md:540 says external files inherit the delimiters. A file rendered by
  `file_render` also hands those it declares back to the file that renders it,
  for all that this one loads afterwards (`template_loader.go:90`), as both use
  one loader. `DelimsInherited` excludes it, `LeakConfined` bounds it. The entries
  of a file of collect responses do not inherit what that file declares: they are
  loaded with the loader of the test (`api_testcase.go:200,216,598-600`), and
  `DelimsInherited` says so (`Documented`).
- README.md:1706 says paths are relative to the location of `manifest.json`. They
  are relative to the directory of the test file they are in, as README.md:1783
  has it; the two are one directory only for files beside the manifest.
- README.md:1783 says a relative path is that from the file the function is
  used in. Requests and responses are rendered with the directory of the test
  that refers to them (`template/util.go`), wherever they lie;
  `DirIsWhereItLies` excludes them.
- A clone that asks for `-1` while another appends may be given an older
  response or none, as the length is copied without the lock
  (`datastore.go:192`). `ReadsAreRecent` says when it is a recent one.
- README.md:317 and 374 distinguish keys that begin with `?`, for which an
  unknown key is no error. A plain unknown key is none either, as Get returns
  an empty string, which is left out (`request.go:146,201`); only indexes and
  keys of maps fail.
- README.md:337 says a cookie whose value is not in the store is ignored. It is
  sent with an empty value (`request.go:233-264`); `SentAsWritten` says what the
  code does. Of two headers `Cookie` that a test gives as a list, only the first
  goes out with the cookies of the test, as AddCookie replaces the list.
- A stored header that is a list does not replace the default of that name but
  comes on top of it, while a stored text replaces it (`request.go:183-204`).
- A header with a list of values is put under its name as it is written, others
  under the canonical one (`request.go:226`): `content-type` with a list does
  not replace the default. A header of the test spelled otherwise than that of
  the manifest does not replace it either, and the order of the map decides
  (`api_testcase.go:578`). `SentAsWritten` excludes two spellings of a name.
- README.md:987 says the bodies of all responses are stored. That of a test
  whose response has no body and that stores nothing of it is left out
  (`api_testcase.go:616`).
- README.md:416 shows cookies with some of their fields. All fields are
  compared, those not given as empty (`response.go:384`), so such a cookie
  passes only if the server sent nothing else; the raw text counts as well, and
  `test/cookies/manifest.json` gives it.
- A stored response with headers contains `header_flat` (`response.go:52-55`), which
  an expectation must not contain, as it is decoded strictly
  (`jsutil/json.go:74`): what the datastore shows cannot be expected as it is.
  `ReplayedMatches` says both.
- A table that is empty but for line ends, or a typed one with less than two
  rows, is read beyond its end (`csv.go:32,87`). The format `int,array` is
  valid but cannot be read (`csv.go:180,320`).
- A `multipart` or `urlencoded` request without a body is a failed type
  assertion (`build_policies.go:23,88`).
- A reversed case that fails because its response matched has no line in the
  log, and the JUnit report does not show it as failed
  (`parsing_functions.go:199`); its counts do. `JUnitAgrees` says so.
  The failures of a suite count case, test and manifest, the latter twice.
- A client that sends MAIL again without RSET keeps the recipients it has named
  before (`internal/smtp/server.go:162`), and they are in the envelope of the next
  message. That go-smtp hands such a MAIL on is external. `EnvelopeIntact` says
  what is in the envelope.
- `WaitForTCP` is content with whoever accepts at the address (`net.go:11-23`): if
  another process has it, tests begin before the suite's own server fails and ends
  the process. `ServersAround` excludes addresses that were taken at the start.
  With an address that never accepts, such as an empty one, the suite polls for ever.
- `--report-format-stats-group 0` makes the statistics panic
  (`parsing_functions.go:74`).

## 8. Not modelled

- Templates: text/template and sprig render text; a rendered file or an error
  are the outcomes, and `Suite`, `TestCase`, `Store` and `Loader` choose among
  them. The template functions that convert data (`rows_to_map`, `pivot_rows`,
  URL and string helpers) and the placeholders are part of that text.
- Conversions of XML, HTML and XLSX, regular expressions, the decoders of MIME
  bodies and headers, and Go's CSV reader: what they make of an input is given
  with it.
- OAuth: one call of a library per template function, without state.
- The bodies of requests: only whether they can be built, and their type.
- The HTTP server's proxying, static files and bounce endpoints: they keep no
  state but the proxy stores.
- `logrus.Fatalf` in the middle: the models end in *fatal*, and no property
  promises anything from there on.
- A file that includes itself is loaded without end (`api_testsuite.go:389`);
  the instances of `Suite` have no such file.
- A server whose `ListenAndServe` has not begun when the suite stops counts as
  stopped at once; what net/http and go-smtp do then is theirs.
- Files from the web: `openRemoteFile` looks at the status of the answer before it
  looks at the error (`util/file.go:31-38`), so that a host that cannot be reached
  is a nil dereference. `Loader` has files on disk only.
- Bodies of a server with keys that end in `:control`, which the comparison would
  read as controls if the body were expected again (`ExchangesAssumption`).
- A query that is part of the URL as the test gives it: `SentAsWritten` is about
  the parameters of the test and the store.
- The names of a directory tree that changes while it is searched for manifests:
  `ConfigError` is a directory that is not there, which leaves the manifests of
  `--single` only (`main.go:210-218`, `config.go:88-93`).

## 9. Running

```
tlc -workers 2 -config Suite_parallel.cfg MCSuite.tla
tlapm Suite_proofs.tla
```

`PROJECT.json` lists runs with their modules and configurations, the lines each
definition stands for, the hazards and the theorems. Most runs take seconds, the
largest (`Suite_parallel`, `Datastore_clones`, `Client_jar`, `Compare`) up to two
minutes.
