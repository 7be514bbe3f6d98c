--------------------------- MODULE TestCase_proofs ---------------------------
(***************************************************************************)
(* Theorems about TestCase, for every set of responses, formats and case   *)
(* definitions.                                                            *)
(***************************************************************************)
EXTENDS TestCase, FiniteSetTheorems, SequenceTheorems, TLAPS

(***************************************************************************)
(* The inductive invariant                                                 *)
(***************************************************************************)

Matched(i) == \E r \in received, f \in Formats :
  /\ Accepts(spec.collect[i], f, r)
  /\ FormatsLast(spec.collect, Formats) => f = OwnFormat(spec.collect[i], Formats)

BreakSeen(r) == breakResponseIsPresent(r)

Over == pc \in {"leave", "done"}

(* Where the loop stands and what it has received. *)
Stages ==
  /\ pc \in {"request", "check", "verdict"} => spec.hasRequest
  /\ pc = "start" => received = {} /\ counter = 0
  /\ pc = "request" /\ counter = 0 => received = {}
  /\ ~Over => outcome = "none"
  /\ pc \in {"check", "verdict"} => (equal <=> resp \in spec.expect) /\ resp \in received
  /\ pc \in {"start", "request", "check"} => ~flag
  /\ counter > 0 => received # {}
  /\ received # {} => clock > 0

(* The entry of the case in the response list. *)
OneEntry ==
  /\ Len(log) <= 1
  /\ received = {} <=> log = << >>
  /\ pc \in {"check", "verdict"} => log = <<resp>>

(* What a successful end says. *)
PassMeans ==
  Over /\ outcome = "pass" /\ spec.hasRequest => log = <<resp>> /\ resp \in spec.expect

(* The timeout. *)
Timing ==
  /\ pc = "verdict" /\ ~spec.hasCollect => (equal /\ ~flag) \/ TimedOut
  /\ outcome = "fail" /\ ~spec.hasCollect => Over /\ TimedOut
  /\ spec.timeout = 0 =>
       /\ counter = 0
       /\ \A r, q \in received : r = q

(* The collect list of a case that is not reversed. *)
Collecting ==
  ~spec.reverse =>
    /\ \A i \in DOMAIN spec.collect : i \notin left => Matched(i)
    /\ /\ pc = "verdict" \/ (Over /\ outcome = "pass" /\ spec.hasRequest)
       /\ spec.hasCollect /\ (spec.timeout > 0 \/ spec.timeout = -1)
       => left = {} \/ (pc = "verdict" /\ flag)

(* Break responses. *)
Breaking ==
  /\ pc = "request" => \A r \in received : ~BreakSeen(r)
  /\ pc = "check" => \A r \in received : BreakSeen(r) => r = resp
  /\ pc = "verdict" => \A r \in received : BreakSeen(r) => r = resp /\ equal /\ ~spec.hasCollect
  /\ Over /\ outcome = "pass" /\ spec.hasRequest =>
       \A r \in received : BreakSeen(r) => r = resp /\ ~spec.hasCollect

CaseInv == TypeOK /\ Stages /\ OneEntry /\ PassMeans /\ Timing /\ Collecting /\ Breaking

(* The fields of the case definition have their types. *)
LEMMA SpecType ==
  ASSUME TypeOK
  PROVE  /\ spec \in CaseSpec
         /\ spec.hasRequest \in BOOLEAN /\ spec.timeout \in Int /\ spec.timeout < MaxTime
         /\ spec.expect \in SUBSET Responses /\ spec.hasCollect \in BOOLEAN
         /\ spec.reverse \in BOOLEAN /\ spec.collect \in Seq(Entry)
<1>1. spec \in CaseSpecs /\ spec \in CaseSpec
  BY SpecsAssumption DEF TypeOK
<1>2. QED
  BY <1>1, BoundsAssumption DEF CaseSpec

(* Whether it appends or updates, a poll leaves its answer as the only entry. *)
LEMMA StoreResponseType ==
  ASSUME TypeOK, OneEntry, Stages, pc = "request", NEW r \in Responses, StoreResponse(r)
  PROVE  log' = <<r>> /\ log' \in Seq(Responses)
<1>1. log \in Seq(Responses) /\ Len(log) \in Nat /\ Len(log) <= 1
  BY LenProperties DEF TypeOK, OneEntry
<1>2. counter \in Nat
  BY BoundsAssumption DEF TypeOK
<1>3. CASE counter = 0
  <2>1. log = << >>
    BY <1>3 DEF OneEntry, Stages
  <2>2. log' = Append(<< >>, r)
    BY <1>3, <2>1 DEF StoreResponse
  <2>3. QED
    BY <2>2
<1>4. CASE counter # 0
  <2>1. log # << >>
    BY <1>2, <1>4 DEF OneEntry, Stages
  <2>2. Len(log) = 1
    <3>1. Len(log) # 0
      BY <1>1, <2>1, EmptySeq, Zenon
    <3>2. \A n \in Nat : n <= 1 /\ n # 0 => n = 1
      OBVIOUS
    <3>3. QED
      BY <1>1, <3>1, <3>2, Zenon
  <2>3. log' = [log EXCEPT ![1] = r]
    BY <1>4, <2>2 DEF StoreResponse
  <2>4. QED
    BY <1>1, <2>2, <2>3
<1>5. QED
  BY <1>3, <1>4

(* Type correctness of each step. *)
LEMMA TypeStep ==
  ASSUME TypeOK, Stages, OneEntry, [Next]_vars
  PROVE  TypeOK'
<1> USE DEF TypeOK
<1>1. CASE Begin
  BY <1>1 DEF Begin, Return, local
<1>2. ASSUME NEW r \in Responses, ExecuteRequest(r)
      PROVE  TypeOK'
  <2> USE DEF ExecuteRequest
  <2>1. log' \in Seq(Responses)
    BY <1>2, StoreResponseType
  <2>2. QED
    BY <1>2, <2>1 DEF ExecuteRequest, Elapse
<1>3. ASSUME NEW r \in Responses, MatchError(r)
      PROVE  TypeOK'
  <2>1. log' \in Seq(Responses)
    BY <1>3, StoreResponseType DEF MatchError
  <2>2. QED
    BY <1>3, <2>1 DEF MatchError, Elapse, Return
<1>4. CASE RequestError
  BY <1>4 DEF RequestError, Elapse, Return
<1>5. CASE StopOnMatch \/ BreakFound \/ CheckError \/ Verdict
  BY <1>5 DEF StopOnMatch, BreakFound, CheckError, Verdict, Return, local
<1>6. CASE StopOnCollected \/ StopOnTimeout \/ Repeat
  <2>1. left' \subseteq left
    BY <1>6 DEF StopOnCollected, StopOnTimeout, Repeat, GoOn, Collect, checkCollectResponse
  <2>2. counter' \in 0 .. MaxPolls
    BY <1>6, BoundsAssumption DEF StopOnCollected, StopOnTimeout, Repeat
  <2>3. flag' \in BOOLEAN
    <3>1. StopOnTimeout => flag' = (spec.timeout > 0)
      BY DEF StopOnTimeout
    <3>2. StopOnCollected \/ Repeat => flag' = flag
      BY DEF StopOnCollected, Repeat
    <3>3. (spec.timeout > 0) \in BOOLEAN
      OBVIOUS
    <3>4. QED
      BY <1>6, <3>1, <3>2, <3>3, Zenon
  <2>4. QED
    BY <1>6, <2>1, <2>2, <2>3 DEF StopOnCollected, StopOnTimeout, Repeat
<1>7. CASE Leave
  <2>1. result' \in BOOLEAN
    BY <1>7 DEF Leave
  <2>2. QED
    BY <1>7, <2>1 DEF Leave, local
<1>8. CASE UNCHANGED vars
  BY <1>8 DEF vars
<1>9. QED
  BY <1>1, <1>2, <1>3, <1>4, <1>5, <1>6, <1>7, <1>8 DEF Next, Step, Done

(* No step touches the case definition. *)
LEMMA SpecSteady ==
  ASSUME [Next]_vars
  PROVE  spec' = spec
BY DEF Next, Step, Done, Begin, ExecuteRequest, MatchError, RequestError, StopOnMatch,
       BreakFound, CheckError, StopOnCollected, StopOnTimeout, Repeat, Verdict, Leave,
       local, vars

(* What counts as a break response depends on the case alone. *)
LEMMA BreakSteady ==
  ASSUME spec' = spec, NEW r
  PROVE  BreakSeen(r)' <=> BreakSeen(r)
BY DEF BreakSeen, breakResponseIsPresent, Accepts, EffectiveFormat, Typed

(* If the entries with a format come last, none of them carries its own over to
   another. *)
LEMMA NothingCarriesOver ==
  ASSUME NEW n \in Nat, NEW es, DOMAIN es = 1 .. n, NEW live \in SUBSET (1 .. n), NEW i \in live,
         NEW adopts, FormatsLast(es, adopts)
  PROVE  EffectiveFormat(es, live, i, adopts, spec.format) = OwnFormat(es[i], adopts)
<1> DEFINE setters == {j \in live : j <= i /\ es[j].format \in adopts}
<1>0. /\ i \in Int /\ i \in DOMAIN es /\ \A j \in live : j \in Int /\ j \in DOMAIN es
      /\ \A j \in setters : j \in Int
  OBVIOUS
<1>1. EffectiveFormat(es, live, i, adopts, spec.format) =
        IF setters = {} THEN spec.format ELSE es[Max(setters)].format
  BY DEF EffectiveFormat
<1>2. CASE es[i].format \in adopts
  <2>1. i \in setters /\ \A j \in setters : i >= j
    BY <1>2
  <2>2. \A m \in setters : (\A j \in setters : m >= j) => m = i
    <3> HIDE DEF setters
    <3> QED
      BY <1>0, <2>1
  <2>3. Max(setters) = CHOOSE m \in setters : \A j \in setters : m >= j
    BY DEF Max
  <2> HIDE DEF setters
  <2>4. Max(setters) = i
    BY <2>1, <2>2, <2>3
  <2> QED
    BY <1>1, <1>2, <2>1, <2>4 DEF OwnFormat
<1>3. CASE es[i].format \notin adopts
  <2>1. \A j \in live : j <= i /\ es[j].format \in adopts => j < i
    BY <1>0, <1>3
  <2>2. \A j \in live : j < i => es[j].format \notin adopts
    BY <1>0, <1>3 DEF FormatsLast
  <2>3. setters = {}
    BY <2>1, <2>2
  <2> QED
    BY <1>1, <1>3, <2>3 DEF OwnFormat
<1> QED
  BY <1>2, <1>3

(* So it is with the break responses. *)
LEMMA AnyBreakIsSeen ==
  ASSUME TypeOK, FormatsLast(spec.breaks, Typed), NEW r, AnyBreak(r)
  PROVE  BreakSeen(r)
<1>1. spec.breaks \in Seq(Entry)
  BY SpecType DEF CaseSpec
<1>2. Len(spec.breaks) \in Nat /\ DOMAIN spec.breaks = 1 .. Len(spec.breaks)
  BY <1>1
<1>3. PICK i \in DOMAIN spec.breaks : Accepts(spec.breaks[i], OwnFormat(spec.breaks[i], Typed), r)
  BY DEF AnyBreak
<1>4. EffectiveFormat(spec.breaks, DOMAIN spec.breaks, i, Typed, spec.format)
        = OwnFormat(spec.breaks[i], Typed)
  BY <1>2, <1>3, NothingCarriesOver
<1> QED
  BY <1>3, <1>4 DEF BreakSeen, breakResponseIsPresent

(* An answer once received keeps a collect response matched. *)
LEMMA MatchedSteady ==
  ASSUME spec' = spec, received \subseteq received', NEW i, Matched(i)
  PROVE  Matched(i)'
BY DEF Matched, Accepts, FormatsLast, OwnFormat

(* A request takes time. *)
LEMMA ElapsePositive ==
  ASSUME TypeOK, Elapse
  PROVE  clock' > 0
BY BoundsAssumption DEF TypeOK, Elapse

(* Each step keeps the relation between the stage of the loop and what it has
   received. *)
LEMMA StagesStep ==
  ASSUME TypeOK, Stages, [Next]_vars
  PROVE  Stages'
<1> USE DEF Stages, Over
<1>1. CASE Begin
  BY <1>1 DEF Begin, Return, local
<1>2. ASSUME NEW r \in Responses, ExecuteRequest(r)
      PROVE  Stages'
  BY <1>2, ElapsePositive DEF ExecuteRequest
<1>3. ASSUME NEW r \in Responses, MatchError(r)
      PROVE  Stages'
  BY <1>3, ElapsePositive DEF MatchError, Return
<1>4. CASE RequestError
  BY <1>4, ElapsePositive DEF RequestError, Return
<1>5. CASE StopOnMatch
  BY <1>5 DEF StopOnMatch, local
<1>6. CASE BreakFound \/ CheckError
  BY <1>6 DEF BreakFound, CheckError, Checking, Return, local
<1>7. CASE StopOnCollected \/ StopOnTimeout
  BY <1>7 DEF StopOnCollected, StopOnTimeout, GoOn, Collect, Checking
<1>8. CASE Repeat
  <2>1. counter' \in Nat \ {0} /\ resp \in received
    BY <1>8, BoundsAssumption DEF TypeOK, Repeat, GoOn, Collect, Checking
  <2>2. QED
    BY <1>8, <2>1 DEF Repeat, GoOn, Collect, Checking
<1>9. CASE Verdict
  BY <1>9 DEF Verdict, Return, local
<1>10. CASE Leave
  BY <1>10 DEF Leave, local
<1>11. CASE UNCHANGED vars
  BY <1>11 DEF vars
<1>12. QED
  BY <1>1, <1>2, <1>3, <1>4, <1>5, <1>6, <1>7, <1>8, <1>9, <1>10, <1>11
     DEF Next, Step, Done

(* Each step keeps the one entry of the case in the response list. *)
LEMMA OneEntryStep ==
  ASSUME TypeOK, Stages, OneEntry, [Next]_vars
  PROVE  OneEntry'
<1>1. ASSUME NEW r \in Responses, pc = "request", StoreResponse(r),
             received' = received \cup {r}, resp' = r \/ pc' = "leave"
      PROVE  OneEntry'
  <2>1. log' = <<r>>
    BY <1>1, StoreResponseType
  <2>2. QED
    BY <1>1, <2>1 DEF OneEntry
<1>2. ASSUME NEW r \in Responses, ExecuteRequest(r)
      PROVE  OneEntry'
  BY <1>1, <1>2 DEF ExecuteRequest
<1>3. ASSUME NEW r \in Responses, MatchError(r)
      PROVE  OneEntry'
  BY <1>1, <1>3 DEF MatchError, Return
<1>4. CASE Begin \/ RequestError
  BY <1>4 DEF OneEntry, Begin, RequestError, Return, local
<1>5. CASE StopOnMatch \/ BreakFound \/ CheckError
  BY <1>5 DEF OneEntry, StopOnMatch, BreakFound, CheckError, Checking, Return, local
<1>6. CASE StopOnCollected \/ StopOnTimeout \/ Repeat
  BY <1>6 DEF OneEntry, StopOnCollected, StopOnTimeout, Repeat, GoOn, Collect, Checking
<1>7. CASE Verdict \/ Leave
  BY <1>7 DEF OneEntry, Verdict, Leave, Return, local
<1>8. CASE UNCHANGED vars
  BY <1>8 DEF OneEntry, vars
<1>9. QED
  BY <1>2, <1>3, <1>4, <1>5, <1>6, <1>7, <1>8 DEF Next, Step, Done

(* A pass speaks of the latest answer, and no later step changes that answer. *)
LEMMA PassMeansStep ==
  ASSUME TypeOK, Stages, OneEntry, PassMeans, [Next]_vars
  PROVE  PassMeans'
<1> USE DEF PassMeans, Over
<1>1. CASE Begin
  BY <1>1 DEF Begin, Return, local
<1>2. ASSUME NEW r \in Responses, ExecuteRequest(r)
      PROVE  PassMeans'
  BY <1>2 DEF ExecuteRequest
<1>3. ASSUME NEW r \in Responses, MatchError(r)
      PROVE  PassMeans'
  BY <1>3 DEF MatchError, Return
<1>4. CASE RequestError \/ BreakFound \/ CheckError
  BY <1>4 DEF RequestError, BreakFound, CheckError, Return
<1>5. CASE StopOnMatch \/ StopOnCollected \/ StopOnTimeout \/ Repeat
  BY <1>5 DEF StopOnMatch, StopOnCollected, StopOnTimeout, Repeat
<1>6. CASE Verdict
  BY <1>6 DEF Verdict, Return, local, Stages, OneEntry
<1>7. CASE Leave
  BY <1>7 DEF Leave, local
<1>8. CASE UNCHANGED vars
  BY <1>8 DEF vars
<1>9. QED
  BY <1>1, <1>2, <1>3, <1>4, <1>5, <1>6, <1>7, <1>8 DEF Next, Step, Done

(* Each step keeps the relation between the clock, the timeout and a failure. *)
LEMMA TimingStep ==
  ASSUME TypeOK, Stages, OneEntry, Timing, [Next]_vars
  PROVE  Timing'
<1> USE DEF Timing, TimedOut, Over
<1>1. spec' = spec /\ spec.timeout \in Int /\ spec.hasCollect \in BOOLEAN
  BY SpecSteady, SpecType
<1>2. clock \in Nat /\ MaxTime \in Nat /\ clock <= MaxTime /\ spec.timeout < MaxTime
  BY SpecType, BoundsAssumption DEF TypeOK
<1>3. ASSUME NEW r \in Responses, ExecuteRequest(r) \/ MatchError(r)
      PROVE  Timing'
  <2>1. spec.timeout = 0 => received = {}
    BY <1>3 DEF Stages, ExecuteRequest, MatchError
  <2>2. QED
    BY <1>1, <1>3, <2>1 DEF ExecuteRequest, MatchError, Return, Stages
<1>4. CASE Begin \/ RequestError \/ BreakFound \/ CheckError
  BY <1>1, <1>4 DEF Begin, RequestError, BreakFound, CheckError, Return, local, Stages, Checking
<1>5. CASE StopOnMatch
  BY <1>1, <1>5 DEF StopOnMatch, local, Stages
<1>6. CASE StopOnCollected
  BY <1>1, <1>6 DEF StopOnCollected, Stages, Collect, Checking
<1>7. CASE StopOnTimeout
  BY <1>1, <1>7 DEF StopOnTimeout, Stages, GoOn, Collect, Checking
<1>8. CASE Repeat
  <2>1. clock > 0
    BY <1>8 DEF Repeat, GoOn, Collect, Checking, Stages
  <2>2. spec.timeout # 0
    BY <1>1, <1>2, <1>8, <2>1 DEF Repeat
  <2>3. QED
    BY <1>1, <1>8, <2>2 DEF Repeat, Stages, GoOn, Collect, Checking
<1>9. CASE Verdict
  BY <1>1, <1>9 DEF Verdict, Return, local, Stages
<1>10. CASE Leave
  BY <1>1, <1>10 DEF Leave, local
<1>11. CASE UNCHANGED vars
  BY <1>1, <1>11 DEF vars
<1>12. QED
  BY <1>3, <1>4, <1>5, <1>6, <1>7, <1>8, <1>9, <1>10, <1>11 DEF Next, Step, Done

(* A collect response leaves the list of an unreversed case only by a match. *)
LEMMA CollectMatches ==
  ASSUME TypeOK, Stages, Collect, ~spec.reverse, NEW i \in DOMAIN spec.collect,
         i \in left, i \notin left', spec' = spec, received' = received
  PROVE  Matched(i)'
<1>1. spec.hasCollect /\ left' = checkCollectResponse(resp)
  BY DEF Collect
<1>2. PICK f : f = EffectiveFormat(spec.collect, left, i, Formats, spec.format)
  OBVIOUS
<1>3. Accepts(spec.collect[i], f, resp)
  BY <1>1, <1>2, SpecType DEF checkCollectResponse, Accepts
<1>4. f \in Formats
  <2>1. spec.collect[i] \in Entry
    BY SpecType
  <2>2. QED
    BY <1>3, <2>1 DEF Entry, Accepts
<1>5. resp \in received
  BY DEF Collect, Checking, Stages
<1>6. Matched(i)
  <2>1. Len(spec.collect) \in Nat /\ DOMAIN spec.collect = 1 .. Len(spec.collect)
    BY SpecType
  <2>2. FormatsLast(spec.collect, Formats) => f = OwnFormat(spec.collect[i], Formats)
    BY <1>2, <2>1, NothingCarriesOver DEF TypeOK
  <2> QED
    BY <1>3, <1>4, <1>5, <2>2 DEF Matched
<1>7. QED
  BY <1>6, MatchedSteady

(* Each step keeps the record of what left the collect list. *)
LEMMA CollectingStep ==
  ASSUME TypeOK, Stages, Collecting, [Next]_vars
  PROVE  Collecting'
<1> USE DEF Over
<1>1. spec' = spec /\ spec.timeout \in Int /\ spec.hasCollect \in BOOLEAN /\ spec.reverse \in BOOLEAN
  BY SpecSteady, SpecType
<1> SUFFICES ASSUME ~spec.reverse
             PROVE  Collecting'
  BY <1>1 DEF Collecting
<1>2. ASSUME received \subseteq received', left' = left
      PROVE  \A i \in DOMAIN spec.collect : i \notin left' => Matched(i)'
  BY <1>1, <1>2, MatchedSteady DEF Collecting
<1>3. ASSUME Collect, received' = received
      PROVE  \A i \in DOMAIN spec.collect : i \notin left' => Matched(i)'
  BY <1>1, <1>3, CollectMatches, MatchedSteady DEF Collecting
<1>4. ASSUME NEW r \in Responses, ExecuteRequest(r) \/ MatchError(r)
      PROVE  Collecting'
  BY <1>1, <1>2, <1>4 DEF Collecting, ExecuteRequest, MatchError, Return
<1>5. CASE Begin \/ RequestError \/ BreakFound \/ CheckError \/ StopOnMatch
  BY <1>1, <1>2, <1>5
     DEF Collecting, Begin, RequestError, BreakFound, CheckError, StopOnMatch, Return, local, Stages
<1>6. CASE StopOnCollected
  BY <1>1, <1>3, <1>6 DEF Collecting, StopOnCollected
<1>7. CASE StopOnTimeout
  <2>1. spec.timeout > 0 \/ spec.timeout = -1 => flag'
    BY <1>1, <1>7 DEF StopOnTimeout, TimedOut
  <2>2. pc' = "verdict"
    BY <1>7 DEF StopOnTimeout
  <2>3. \A i \in DOMAIN spec.collect : i \notin left' => Matched(i)'
    BY <1>3, <1>7 DEF StopOnTimeout, GoOn
  <2>4. QED
    BY <1>1, <2>1, <2>2, <2>3 DEF Collecting
<1>8. CASE Repeat
  <2>1. \A i \in DOMAIN spec.collect : i \notin left' => Matched(i)'
    BY <1>3, <1>8 DEF Repeat, GoOn
  <2>2. pc' = "request"
    BY <1>8 DEF Repeat
  <2>3. QED
    BY <1>1, <2>1, <2>2 DEF Collecting
<1>9. CASE Verdict
  BY <1>1, <1>2, <1>9 DEF Collecting, Verdict, Return, local, Stages
<1>10. CASE Leave
  BY <1>1, <1>2, <1>10 DEF Collecting, Leave, local
<1>11. CASE UNCHANGED vars
  BY <1>1, <1>2, <1>11 DEF Collecting, vars
<1>12. QED
  BY <1>4, <1>5, <1>6, <1>7, <1>8, <1>9, <1>10, <1>11 DEF Next, Step, Done

(* Each step keeps the loop from passing over a break response. *)
LEMMA BreakingStep ==
  ASSUME TypeOK, Stages, Breaking, [Next]_vars
  PROVE  Breaking'
<1> USE DEF Over
<1>1. /\ spec' = spec /\ spec.hasCollect \in BOOLEAN
      /\ \A r : BreakSeen(r)' <=> BreakSeen(r)
  BY SpecSteady, SpecType, BreakSteady
<1>2. ASSUME NEW r \in Responses, ExecuteRequest(r)
      PROVE  Breaking'
  BY <1>1, <1>2 DEF Breaking, ExecuteRequest, Stages
<1>3. ASSUME NEW r \in Responses, MatchError(r)
      PROVE  Breaking'
  BY <1>1, <1>3 DEF Breaking, MatchError, Return
<1>4. CASE Begin
  BY <1>1, <1>4 DEF Breaking, Begin, Return, local, Stages
<1>5. CASE RequestError \/ BreakFound \/ CheckError
  BY <1>1, <1>5 DEF Breaking, RequestError, BreakFound, CheckError, Return
<1>6. CASE StopOnMatch
  BY <1>1, <1>6 DEF Breaking, StopOnMatch, local
<1>7. ASSUME Collect
      PROVE  \A r \in received : ~BreakSeen(r)
  BY <1>7 DEF Collect, Checking, Breaking, BreakSeen
<1>8. CASE StopOnCollected \/ StopOnTimeout \/ Repeat
  <2>1. received' = received /\ Collect /\ pc' \in {"verdict", "request"}
    BY <1>8 DEF StopOnCollected, StopOnTimeout, Repeat, GoOn
  <2>2. \A r \in received' : ~BreakSeen(r)'
    BY <1>1, <1>7, <2>1
  <2>3. QED
    BY <2>1, <2>2 DEF Breaking
<1>9. CASE Verdict
  BY <1>1, <1>9 DEF Breaking, Verdict, Return, local
<1>10. CASE Leave
  BY <1>1, <1>10 DEF Breaking, Leave, local
<1>11. CASE UNCHANGED vars
  BY <1>1, <1>11 DEF Breaking, vars
<1>12. QED
  BY <1>2, <1>3, <1>4, <1>5, <1>6, <1>8, <1>9, <1>10, <1>11 DEF Next, Step, Done

(***************************************************************************)
(* The theorems                                                            *)
(***************************************************************************)

(* The parts of CaseInv hold together in every reachable state. *)
THEOREM CaseInvariant == Spec => []CaseInv
<1>1. Init => CaseInv
  <2> SUFFICES ASSUME Init
               PROVE  CaseInv
    OBVIOUS
  <2>1. TypeOK
    <3>1. 0 \in 0 .. MaxPolls /\ 0 \in 0 .. MaxTime
      BY BoundsAssumption
    <3>2. << >> \in Seq(Responses)
      OBVIOUS
    <3>3. QED
      BY <3>1, <3>2, Zenon DEF Init, TypeOK
  <2>2. Len(log) = 0
    BY DEF Init
  <2>3. QED
    BY <2>1, <2>2 DEF Init, CaseInv, Stages, OneEntry, PassMeans, Timing, Collecting, Breaking, Over
<1>2. CaseInv /\ [Next]_vars => CaseInv'
  BY TypeStep, StagesStep, OneEntryStep, PassMeansStep, TimingStep, CollectingStep, BreakingStep
     DEF CaseInv
<1>3. QED
  BY <1>1, <1>2, PTL DEF Spec

(* Type correctness, for every set of case definitions. *)
THEOREM TestCase_TypeCorrect == Spec => []TypeOK
<1>1. CaseInv => TypeOK
  BY DEF CaseInv
<1>2. QED
  BY <1>1, CaseInvariant, PTL

(* However often it polls, a case leaves one entry, its latest answer. *)
THEOREM TestCase_OneEntryPerCase == Spec => []OneEntryPerCase
<1>1. CaseInv => OneEntryPerCase
  BY DEF CaseInv, OneEntry, OneEntryPerCase
<1>2. QED
  BY <1>1, CaseInvariant, PTL

(* What the final result says about run() when the case is not reversed. *)
Ended == pc = "done" /\ ~spec.reverse /\ result => outcome = "pass"

(* The final result of a case that is not reversed repeats the outcome of run(). *)
LEMMA EndedInvariant == Spec => []Ended
<1>1. Init => Ended
  BY DEF Init, Ended
<1>2. CaseInv /\ Ended /\ [Next]_vars => Ended'
  <2> SUFFICES ASSUME CaseInv, Ended, [Next]_vars
               PROVE  Ended'
    OBVIOUS
  <2> USE DEF Ended
  <2>1. spec' = spec /\ spec.reverse \in BOOLEAN
    BY SpecSteady, SpecType DEF CaseInv
  <2>2. CASE Leave
    <3>1. result' = ((outcome = "pass") # spec.reverse) /\ outcome' = outcome
      BY <2>2 DEF Leave
    <3>2. QED
      BY <2>1, <3>1, Zenon
  <2>3. CASE Begin \/ RequestError \/ StopOnMatch \/ BreakFound \/ CheckError \/ Verdict
    BY <2>3 DEF Begin, RequestError, StopOnMatch, BreakFound, CheckError, Verdict, Return, local
  <2>4. CASE StopOnCollected \/ StopOnTimeout \/ Repeat
    BY <2>4 DEF StopOnCollected, StopOnTimeout, Repeat
  <2>5. ASSUME NEW r \in Responses, ExecuteRequest(r) \/ MatchError(r)
        PROVE  Ended'
    BY <2>5 DEF ExecuteRequest, MatchError, Return
  <2>6. CASE UNCHANGED vars
    BY <2>6 DEF vars
  <2>7. QED
    BY <2>2, <2>3, <2>4, <2>5, <2>6 DEF Next, Step, Done
<1>3. QED
  BY <1>1, <1>2, CaseInvariant, PTL DEF Spec

(* A success of a polling case means that every collect response was seen, in its own
   format if those with one come last. *)
THEOREM TestCase_CollectComplete == Spec => []CollectComplete
<1>1. ASSUME CaseInv, Passed, spec.hasCollect, spec.timeout > 0 \/ spec.timeout = -1,
             outcome = "pass"
      PROVE  /\ resp \in spec.expect
             /\ \A i \in DOMAIN spec.collect : Matched(i)
  <2>1. resp \in spec.expect
    BY <1>1 DEF CaseInv, PassMeans, Passed, Over
  <2>2. left = {}
    BY <1>1 DEF CaseInv, Collecting, Passed, Over
  <2>3. \A i \in DOMAIN spec.collect : Matched(i)
    BY <1>1, <2>2 DEF CaseInv, Collecting, Passed
  <2>4. QED
    BY <2>1, <2>3
<1>2. CaseInv /\ Ended => CollectComplete
  BY <1>1 DEF CollectComplete, Passed, Ended, Matched
<1>3. QED
  BY <1>2, CaseInvariant, EndedInvariant, PTL

(* A mismatch is reported only once the timeout is over. *)
THEOREM TestCase_NoPrematureFailure == Spec => []NoPrematureFailure
<1>1. CaseInv => NoPrematureFailure
  BY DEF CaseInv, Timing, TimedOut, NoPrematureFailure
<1>2. QED
  BY <1>1, CaseInvariant, PTL

(* Without a timeout a case sends one request and stores one answer. *)
THEOREM TestCase_SingleShot == Spec => []SingleShot
<1>1. ASSUME NEW S, \A r, q \in S : r = q
      PROVE  Cardinality(S) <= 1
  <2>1. CASE S = {}
    BY <2>1, FS_EmptySet
  <2>2. CASE S # {}
    <3>1. PICK r : r \in S
      BY <2>2
    <3>2. S = {r}
      BY <1>1, <3>1
    <3>3. QED
      BY <3>2, FS_Singleton
  <2>3. QED
    BY <2>1, <2>2
<1>2. CaseInv => SingleShot
  BY <1>1 DEF CaseInv, Timing, SingleShot
<1>3. QED
  BY <1>2, CaseInvariant, PTL

(* The loop never goes on after a break response, which is looked at in its own format
   if those with one come last. *)
THEOREM TestCase_BreakEndsTheCase == Spec => []BreakEndsTheCase
<1>1. ASSUME CaseInv, Passed, outcome = "pass"
      PROVE  \A r \in received :
               BreakSeen(r) => r = resp /\ r \in spec.expect /\ ~spec.hasCollect
  BY <1>1 DEF CaseInv, Breaking, PassMeans, Passed, Over
<1>2. CaseInv /\ Ended => BreakEndsTheCase
  <2> SUFFICES ASSUME CaseInv, Ended, Passed, NEW r \in received,
                      breakResponseIsPresent(r) \/ (FormatsLast(spec.breaks, Typed) /\ AnyBreak(r))
               PROVE  r = resp /\ r \in spec.expect /\ ~spec.hasCollect
    BY DEF BreakEndsTheCase
  <2>1. BreakSeen(r)
    BY AnyBreakIsSeen DEF BreakSeen, CaseInv
  <2> QED
    BY <1>1, <2>1 DEF Passed, Ended
<1>3. QED
  BY <1>2, CaseInvariant, EndedInvariant, PTL

(* A case is a correct component for Suite: it implements CaseProtocol. *)
THEOREM TestCase_ImplementsProtocol == Spec => ImplementsProtocol
<1>1. Init => Protocol!CaseInit
  BY DEF Init, Protocol!CaseInit
<1>2. ASSUME CaseInv, [Next]_vars
      PROVE  [Protocol!CaseNext]_(Protocol!abstractVars)
  <2> USE <1>2 DEF Protocol!abstractVars
  <2>1. ASSUME NEW r \in Responses, ExecuteRequest(r) \/ MatchError(r)
        PROVE  Protocol!Answer(r)
    <3>1. log' = <<r>>
      BY <2>1, StoreResponseType DEF CaseInv, ExecuteRequest, MatchError
    <3>2. spec.hasRequest
      BY <2>1 DEF CaseInv, Stages, ExecuteRequest, MatchError
    <3>3. QED
      BY <2>1, <3>1, <3>2 DEF Protocol!Answer, ExecuteRequest, MatchError, Return
  <2>2. CASE Leave
    <3>1. result' = ((outcome = "pass") # spec.reverse) /\ spec.reverse \in BOOLEAN
      BY <2>2, SpecType DEF Leave, CaseInv
    <3>2. result' # spec.reverse <=> outcome = "pass"
      BY <3>1, Zenon
    <3>3. spec.hasRequest /\ outcome = "pass" => log # << >> /\ log[1] \in spec.expect
      BY <2>2 DEF CaseInv, PassMeans, Over, Leave
    <3>4. Protocol!Finish(result')
      BY <2>2, <3>2, <3>3 DEF Protocol!Finish, Leave, local
    <3>5. result' \in BOOLEAN
      BY <3>1
    <3>6. QED
      BY <3>4, <3>5 DEF Protocol!CaseNext
  <2>3. CASE Begin \/ RequestError \/ StopOnMatch \/ BreakFound \/ CheckError
    BY <2>3 DEF Begin, RequestError, StopOnMatch, BreakFound, CheckError, Checking, Return, local
  <2>4. CASE StopOnCollected \/ StopOnTimeout \/ Repeat
    BY <2>4 DEF StopOnCollected, StopOnTimeout, Repeat, GoOn, Collect, Checking
  <2>5. CASE Verdict
    BY <2>5 DEF Verdict, Return, local
  <2>6. CASE UNCHANGED vars
    BY <2>6 DEF vars
  <2>7. QED
    BY <2>1, <2>2, <2>3, <2>4, <2>5, <2>6 DEF Next, Step, Done, Protocol!CaseNext
<1>3. QED
  BY <1>1, <1>2, CaseInvariant, PTL DEF Spec, ImplementsProtocol, Protocol!CaseProtocolSpec

=============================================================================
