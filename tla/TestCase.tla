------------------------------ MODULE TestCase ------------------------------
(***************************************************************************)
(* One literal test case: Case.runAPITestCase and the poll loop Case.run   *)
(* of api_testcase.go.                                                     *)
(*                                                                         *)
(* A case sends its request, stores the answer in the response list of the *)
(* datastore, compares it with the expected response, and repeats until    *)
(* the answer matches, a break response is seen, all collect responses     *)
(* were seen, or the timeout is over.  The verdict is then optionally      *)
(* reversed.                                                               *)
(*                                                                         *)
(* Data is abstracted to what the control looks at: a response is a model  *)
(* value; an expected, break or collect response is the set of responses   *)
(* that compare.JsonEqual accepts for it.  A break or collect entry is     *)
(* compared under a response format (csv, xml, binary, ...), which decides *)
(* what it accepts, and the code lets a format carry over from one list    *)
(* entry to the next, so formats are kept.                                 *)
(***************************************************************************)
EXTENDS Integers, Sequences, FiniteSetsExt

CONSTANTS
  Responses,       \* what the server under test may answer
  NoResp,          \* no response yet (the zero api.Response)
  Formats,         \* response formats (api.ResponseFormat)
  NoFormat,        \* a list entry without a format of its own
  PreProcessOnly,  \* the formats that set pre_process and leave type empty
  CaseSpecs,       \* the case definitions under study
  MaxTime,         \* the clock saturates here, beyond every timeout
  MaxPolls         \* requestCounter saturates here: only 0 and >0 differ

Entry == [format: Formats \cup {NoFormat}, accepts: SUBSET (Formats \X Responses)]

(* What the poll loop reads of a Case; hasRequest is RequestData # nil and
   hasCollect is CollectResponse # nil. *)
CaseSpec ==
  [ hasRequest: BOOLEAN,
    timeout:    Int,
    format:     Formats,
    expect:     SUBSET Responses,
    breaks:     Seq(Entry),
    hasCollect: BOOLEAN,
    collect:    Seq(Entry),
    reverse:    BOOLEAN ]

ASSUME RespAssumption    == NoResp \notin Responses
ASSUME FormatsAssumption == NoFormat \notin Formats /\ PreProcessOnly \subseteq Formats
ASSUME SpecsAssumption   == CaseSpecs \subseteq CaseSpec
ASSUME BoundsAssumption  == /\ MaxPolls \in Nat \ {0}
                            /\ MaxTime \in Nat \ {0}
                            /\ \A s \in CaseSpecs : s.timeout < MaxTime

VARIABLES
  spec,       \* the case that runs
  pc,         \* where runAPITestCase / run stands
  counter,    \* requestCounter
  clock,      \* time since startTime
  resp,       \* apiResponse of the last completed executeRequest
  equal,      \* responsesMatch.Equal
  left,       \* positions of the collect responses not yet found
  flag,       \* timedOutFlag
  outcome,    \* what run() returned: pass, fail (false, nil) or error
  result,     \* what runAPITestCase returned, once pc = "done"
  log,        \* datastore.responseJson
  received    \* history: every response stored by this case

vars == <<spec, pc, counter, clock, resp, equal, left, flag, outcome, result,
          log, received>>

local == <<spec, counter, clock, resp, equal, left, log, received>>

(***************************************************************************)
(* The list checks                                                         *)
(***************************************************************************)

(* The format entry i of es is compared under: its own if the check adopts
   it, else the one the response still carries from an earlier entry of the
   same loop, else the format of the expected response. *)
EffectiveFormat(es, live, i, adopts, base) ==
  LET setters == {j \in live : j <= i /\ es[j].format \in adopts}
  IN  IF setters = {} THEN base ELSE es[Max(setters)].format

Accepts(entry, f, r) == <<f, r>> \in entry.accepts

(* breakResponseIsPresent only adopts a format with a type. *)
Typed == Formats \ PreProcessOnly

(* breakResponseIsPresent: some entry matches. *)
breakResponseIsPresent(r) ==
  \E i \in DOMAIN spec.breaks :
    Accepts(spec.breaks[i],
            EffectiveFormat(spec.breaks, DOMAIN spec.breaks, i, Typed, spec.format), r)

(* checkCollectResponse: the entries that stay on the list.  A reversed case
   drops the entries that do not match. *)
checkCollectResponse(r) ==
  {i \in left :
     Accepts(spec.collect[i],
             EffectiveFormat(spec.collect, left, i, Formats, spec.format),
             r) = spec.reverse}

(***************************************************************************)
(* Steps                                                                   *)
(***************************************************************************)

Init ==
  /\ spec \in CaseSpecs
  /\ pc = "start"
  /\ counter = 0
  /\ clock = 0
  /\ resp = NoResp
  /\ equal = FALSE
  /\ left = DOMAIN spec.collect
  /\ flag = FALSE
  /\ outcome = "none"
  /\ result = FALSE
  /\ log = << >>
  /\ received = {}

Return(o) == pc' = "leave" /\ outcome' = o

(* A case without a request only stores its values and succeeds. *)
Begin ==
  /\ pc = "start"
  /\ IF spec.hasRequest
       THEN pc' = "request" /\ UNCHANGED outcome
       ELSE Return("pass")
  /\ UNCHANGED <<local, flag, result>>

(* time.Sleep, the request and the checks take time: at least one tick. *)
Elapse == clock' \in {t \in clock .. MaxTime : t > clock \/ t = MaxTime}

(* Mutant: every poll appends. *)
StoreResponse_AlwaysAppend(r) == log' = Append(log, r)

(* AppendResponse on the first request of the case, UpdateLastResponse on
   every repetition. *)
StoreResponse(r) ==
  log' = IF counter = 0 THEN Append(log, r) ELSE [log EXCEPT ![Len(log)] = r]

(* executeRequest without an error. *)
ExecuteRequest(r) ==
  /\ pc = "request"
  /\ Elapse
  /\ StoreResponse(r)
  /\ received' = received \cup {r}
  /\ resp' = r
  /\ equal' = (r \in spec.expect)
  /\ pc' = "check"
  /\ UNCHANGED <<spec, counter, left, flag, outcome, result>>

(* executeRequest returns an error before the answer was stored: rendering
   or loading the request or the expected response, sending, decoding. *)
RequestError ==
  /\ pc = "request"
  /\ Elapse
  /\ Return("error")
  /\ UNCHANGED <<spec, counter, resp, equal, left, log, received, flag, result>>

(* executeRequest returns an error after the answer was stored: the
   comparison could not read it in the expected format. *)
MatchError(r) ==
  /\ pc = "request"
  /\ Elapse
  /\ StoreResponse(r)
  /\ received' = received \cup {r}
  /\ Return("error")
  /\ UNCHANGED <<spec, counter, resp, equal, left, flag, result>>

StopOnMatch ==
  /\ pc = "check"
  /\ equal /\ ~spec.hasCollect
  /\ pc' = "verdict"
  /\ UNCHANGED <<local, flag, outcome, result>>

Checking == pc = "check" /\ ~(equal /\ ~spec.hasCollect)

BreakFound ==
  /\ Checking
  /\ breakResponseIsPresent(resp)
  /\ Return("error")
  /\ UNCHANGED <<local, flag, result>>

(* Rendering or matching a break or collect response failed. *)
CheckError ==
  /\ Checking
  /\ spec.breaks # << >> \/ spec.hasCollect
  /\ Return("error")
  /\ UNCHANGED <<local, flag, result>>

(* Mutant: the break check does not stop the loop. *)
Collect_IgnoringBreak ==
  /\ Checking
  /\ left' = IF spec.hasCollect THEN checkCollectResponse(resp) ELSE left

(* No break response, and left' are the collect responses still missing. *)
Collect ==
  /\ Checking
  /\ ~breakResponseIsPresent(resp)
  /\ left' = IF spec.hasCollect THEN checkCollectResponse(resp) ELSE left

StopOnCollected ==
  /\ Collect
  /\ spec.hasCollect /\ left' = {}
  /\ pc' = "verdict"
  /\ UNCHANGED <<spec, counter, clock, resp, equal, log, received, flag, outcome, result>>

GoOn == Collect /\ ~(spec.hasCollect /\ left' = {})

(* Mutants: the comparison is not strict; a timeout of 0 never expires. *)
TimedOut_NotStrict == clock >= spec.timeout /\ spec.timeout # -1
TimedOut_PositiveOnly == clock > spec.timeout /\ spec.timeout > 0

TimedOut == clock > spec.timeout /\ spec.timeout # -1

(* Mutant: timedOutFlag is never set. *)
StopOnTimeout_NoFlag ==
  /\ GoOn
  /\ TimedOut
  /\ pc' = "verdict"
  /\ UNCHANGED <<spec, counter, clock, resp, equal, log, received, flag, outcome, result>>

StopOnTimeout ==
  /\ GoOn
  /\ TimedOut
  /\ flag' = (spec.timeout > 0)
  /\ pc' = "verdict"
  /\ UNCHANGED <<spec, counter, clock, resp, equal, log, received, outcome, result>>

Repeat ==
  /\ GoOn
  /\ ~TimedOut
  /\ counter' = IF counter < MaxPolls THEN counter + 1 ELSE counter
  /\ pc' = "request"
  /\ UNCHANGED <<spec, clock, resp, equal, log, received, flag, outcome, result>>

(* The end of run(). *)
Verdict ==
  /\ pc = "verdict"
  /\ Return(IF ~equal \/ flag THEN "fail" ELSE "pass")
  /\ UNCHANGED <<local, flag, result>>

(* The end of runAPITestCase: an error counts as a failure, and the result
   is reversed if asked for. *)
Leave ==
  /\ pc = "leave"
  /\ result' = ((outcome = "pass") # spec.reverse)
  /\ pc' = "done"
  /\ UNCHANGED <<local, flag, outcome>>

Done == pc = "done" /\ UNCHANGED vars

Step ==
  \/ Begin
  \/ \E r \in Responses : ExecuteRequest(r) \/ MatchError(r)
  \/ RequestError
  \/ StopOnMatch \/ BreakFound \/ CheckError
  \/ StopOnCollected \/ StopOnTimeout \/ Repeat
  \/ Verdict \/ Leave

Next == Step \/ Done

Spec == Init /\ [][Next]_vars

(* http.Client.Timeout bounds every request and the rest of the loop does not
   block, so the case keeps taking steps. *)
FairSpec == Spec /\ WF_vars(Step)

(***************************************************************************)
(* Refinement of CaseProtocol: the entry is the log this case wrote        *)
(***************************************************************************)

Protocol == INSTANCE CaseProtocol WITH
              phase   <- IF pc = "done" THEN "done" ELSE "running",
              entry   <- log,
              success <- result

(***************************************************************************)
(* Properties                                                              *)
(***************************************************************************)

(* Every variable of the poll loop keeps its type. *)
TypeOK ==
  /\ spec \in CaseSpecs
  /\ pc \in {"start", "request", "check", "verdict", "leave", "done"}
  /\ counter \in 0 .. MaxPolls
  /\ clock \in 0 .. MaxTime
  /\ resp \in Responses \cup {NoResp}
  /\ equal \in BOOLEAN
  /\ left \subseteq DOMAIN spec.collect
  /\ flag \in BOOLEAN
  /\ outcome \in {"none", "pass", "fail", "error"}
  /\ result \in BOOLEAN
  /\ log \in Seq(Responses)
  /\ received \subseteq Responses

(* The case ran its request loop, was not reversed, and runAPITestCase
   reported success. *)
Passed == pc = "done" /\ spec.hasRequest /\ ~spec.reverse /\ result

(* api_testcase.go:312: however often a case polls, it leaves exactly one
   entry in the response list, and that entry is its latest answer, so the
   next case finds it under "-1". *)
OneEntryPerCase ==
  /\ Len(log) <= 1
  /\ received = {} <=> log = << >>
  /\ pc \in {"check", "verdict"} => log = <<resp>>

(* The format that an entry asks for, or that of the expected response. *)
OwnFormat(entry, adopts) == IF entry.format \in adopts THEN entry.format ELSE spec.format

(* No entry without a format comes after one that sets a format. *)
FormatsLast(es, adopts) ==
  \A j, i \in DOMAIN es : j < i /\ es[j].format \in adopts => es[i].format \in adopts

(* api_testcase.go:448, README.md:470: a case with collect responses and a poll
   timeout (positive, or -1 for none) passes only if the last answer is the expected
   one and every collect response was matched by some answer of this case,
   possibly of different polls; and, if those with a format come last in the list, in
   its own format, or that of the expected response, whatever the formats of the
   others and of the break responses. *)
CollectComplete ==
  Passed /\ spec.hasCollect /\ (spec.timeout > 0 \/ spec.timeout = -1) =>
    /\ resp \in spec.expect
    /\ \A i \in DOMAIN spec.collect : \E r \in received, f \in Formats :
         /\ Accepts(spec.collect[i], f, r)
         /\ FormatsLast(spec.collect, Formats) => f = OwnFormat(spec.collect[i], Formats)

(* api_testcase.go:435: a case without collect responses reports a mismatch
   only after its timeout is over; with timeout -1 it never does. *)
NoPrematureFailure ==
  outcome = "fail" /\ ~spec.hasCollect => clock > spec.timeout /\ spec.timeout # -1

(* api_testcase.go:445: without a timeout the request is sent once. *)
SingleShot == spec.timeout = 0 => counter = 0 /\ Cardinality(received) <= 1

(* README.md:469: one of the break responses, each in the format it asks for. *)
AnyBreak(r) ==
  \E i \in DOMAIN spec.breaks : Accepts(spec.breaks[i], OwnFormat(spec.breaks[i], Typed), r)

(* api_testcase.go:162, :410: the loop never goes on after a break response; an
   unreversed case passes in spite of one only if that answer is the last
   and also the expected one.  If those with a format come last in the list, every
   entry is looked at in its own, or in that of the expected response. *)
BreakEndsTheCase ==
  Passed => \A r \in received :
    breakResponseIsPresent(r) \/ (FormatsLast(spec.breaks, Typed) /\ AnyBreak(r)) =>
      r = resp /\ r \in spec.expect /\ ~spec.hasCollect

(* runAPITestCase keeps the promise Suite relies on: one entry, overwritten
   only by its own case, and a success that speaks about that entry. *)
ImplementsProtocol == Protocol!CaseProtocolSpec

(* api_testcase.go:436: with any timeout but -1 the case comes to an end,
   whatever the server answers. *)
Terminates == spec.timeout # -1 ~> pc = "done"
=============================================================================
