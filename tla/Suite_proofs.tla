----------------------------- MODULE Suite_proofs -----------------------------
(***************************************************************************)
(* Theorems about Suite, for every set of test files, manifests and        *)
(* configurations and for every number of clones.                          *)
(***************************************************************************)
EXTENDS Suite, FiniteSetTheorems, SequenceTheorems, TLAPS

(***************************************************************************)
(* Types                                                                   *)
(***************************************************************************)

PcType == {"startSmtp", "awaitSmtp", "startHttp", "awaitHttp", "next", "load",
           "wait", "judged", "leave", "keepRunning", "stopHttp", "stopSmtp",
           "finished", "fatal", "listening"}

CpcType == {"idle", "render", "item", "case", "exit", "done"}

MainTypes ==
  /\ conf \in Configs
  /\ tests \in TestLists
  /\ pc \in PcType
  /\ k \in 0 .. Len(tests)
  /\ pc \in {"load", "wait", "judged"} => k > 0
  /\ result \in BOOLEAN /\ success \in BOOLEAN
  /\ smtp \in {"off", "starting", "up"} /\ http \in {"off", "starting", "up"}
  /\ taken \subseteq Servers /\ held \subseteq Servers
  /\ hardFail \in BOOLEAN /\ softFail \in BOOLEAN

CloneTypes ==
  /\ cpc \in [Clones -> CpcType]
  /\ frames \in [Clones -> Seq(FrameType)]
  /\ \A c \in Clones : cpc[c] \in {"render", "item", "case"} => frames[c] # << >>
  /\ polls \in [Clones -> 0 .. MaxPolls]
  /\ log \in Seq([case: Nat, poll: Nat])

ReportTypes ==
  /\ rep \in Seq(ReportElement)
  /\ suiteElem \in DOMAIN rep /\ child \in DOMAIN rep
  /\ elem \in [Clones -> DOMAIN rep]

Types == MainTypes /\ CloneTypes /\ ReportTypes

(* NewChild adds an element of the right type at the end, so that every
   element stays one. *)
LEMMA NewChildType ==
  ASSUME NEW r \in Seq(ReportElement), NEW e \in DOMAIN r
  PROVE  /\ NewChild(r, e) \in Seq(ReportElement)
         /\ DOMAIN r \subseteq DOMAIN NewChild(r, e)
         /\ Newest(NewChild(r, e)) \in DOMAIN NewChild(r, e)
<1>1. NewElement(e) \in ReportElement
  BY DEF NewElement, ReportElement
<1>2. QED
  BY <1>1, AppendProperties DEF NewChild, Newest

(* Leave keeps the elements and their types. *)
LEMMA LeaveType ==
  ASSUME NEW r \in Seq(ReportElement), NEW e \in DOMAIN r, NEW ok \in BOOLEAN
  PROVE  /\ Leave(r, e, ok) \in Seq(ReportElement)
         /\ DOMAIN Leave(r, e, ok) = DOMAIN r
<1> DEFINE t == IF HasSubTests(r, e) THEN r[e].tests ELSE r[e].tests + 1
           f == IF ok THEN r[e].fails ELSE r[e].fails + 1
<1>1. r[e] \in ReportElement
  OBVIOUS
<1>2. t \in Nat /\ f \in Nat
  BY <1>1 DEF ReportElement
<1>3. Leave(r, e, ok) = [r EXCEPT ![e] = [r[e] EXCEPT !.tests = t, !.fails = f]]
  BY <1>1 DEF Leave, ReportElement
<1>4. [r[e] EXCEPT !.tests = t, !.fails = f] \in ReportElement
  BY <1>1, <1>2 DEF ReportElement
<1> HIDE DEF t, f
<1>5. QED
  BY <1>3, <1>4

(* A frame stays one when its item is advanced. *)
LEMMA AdvancedFrame ==
  ASSUME NEW x \in FrameType
  PROVE  /\ [x EXCEPT !.item = @ + 1] \in FrameType
         /\ [x EXCEPT !.item = @ + 1].run = x.run
<1>1. x.item + 1 \in Nat \ {0}
  BY DEF FrameType
<1>2. QED
  BY <1>1 DEF FrameType

(* The next item of the file on top of a stack. *)
LEMMA NextItemType ==
  ASSUME NEW fs \in Seq(FrameType), fs # << >>
  PROVE  /\ NextItem(fs) \in Seq(FrameType)
         /\ Len(NextItem(fs)) = Len(fs)
         /\ \A i \in 1 .. Len(fs) : NextItem(fs)[i].run = fs[i].run
<1> DEFINE n == Len(fs)
<1>1. n \in 1 .. Len(fs) /\ fs[n] \in FrameType
  BY EmptySeq
<1>2. [fs[n] EXCEPT !.item = @ + 1] \in FrameType
  BY <1>1, AdvancedFrame
<1>3. NextItem(fs) = [fs EXCEPT ![n] = [fs[n] EXCEPT !.item = @ + 1]]
  BY <1>1 DEF NextItem
<1>4. [fs[n] EXCEPT !.item = @ + 1].run = fs[n].run
  BY <1>1, AdvancedFrame
<1> HIDE DEF n
<1>5. QED
  BY <1>1, <1>2, <1>3, <1>4

(* Only these steps touch the report or point to another of its elements. *)
LEMMA ReportTypesStep ==
  ASSUME Types, [Next]_vars
  PROVE  ReportTypes'
<1> USE DEF Types, ReportTypes
<1>1. CASE NextTest
  BY <1>1, NewChildType DEF NextTest, cloneVars
<1>2. CASE LeaveTest
  BY <1>2, LeaveType DEF LeaveTest, cloneVars, MainTypes
<1>3. CASE LeaveSuite
  BY <1>3, LeaveType DEF LeaveSuite, mainVars, cloneVars, MainTypes
<1>4. ASSUME NEW c \in Clones, BeginCase(c)
      PROVE  ReportTypes'
  BY <1>4, NewChildType DEF BeginCase, mainVars
<1>5. ASSUME NEW c \in Clones, NEW ok \in BOOLEAN, EndCase(c, ok)
      PROVE  ReportTypes'
  BY <1>5, LeaveType DEF EndCase, mainVars
<1>6. CASE UNCHANGED <<rep, suiteElem, child, elem>>
  BY <1>6
<1>7. QED
  BY <1>1, <1>2, <1>3, <1>4, <1>5, <1>6
     DEF Next, SuiteStep, MainStep, CloneStep, Ended, vars, mainVars, serverVars, cloneVars,
         history,
         StartSmtp, AwaitSmtp, StartHttp, AwaitHttp, LoadError, Spawn, Wait, LastTest, StopHttp,
         StopSmtp, Listen, Fatal, Interrupt, Vacate, Release, BeginStop, Rendered, RenderError,
         NestedError, NestedNone,
         NestedCall, NestedReturn, CaseError, Answer, CountSuccess, Exit, GiveUp

(* Only main's own steps and the steps of GiveUp touch these variables. *)
LEMMA MainTypesStep ==
  ASSUME Types, [Next]_vars
  PROVE  MainTypes'
<1> USE DEF Types, MainTypes, PcType
<1>1. tests \in Seq(Test)
  BY TestsAssumption
<1>2. CASE StartSmtp \/ AwaitSmtp \/ StartHttp \/ AwaitHttp \/ StopHttp \/ StopSmtp \/ Listen \/ Fatal
           \/ Interrupt \/ Vacate \/ Release
  <2>1. /\ UNCHANGED <<mainVars, history>>
        /\ pc' \in PcType
        /\ pc' \in {"load", "wait", "judged"} => pc \in {"load", "wait", "judged"}
    BY <1>2 DEF StartSmtp, AwaitSmtp, StartHttp, AwaitHttp, StopHttp, StopSmtp, Listen, Fatal,
                Interrupt, Vacate, Release, BeginStop
  <2>2. /\ smtp' \in {"off", "starting", "up"} /\ http' \in {"off", "starting", "up"}
        /\ taken' \subseteq Servers /\ held' \subseteq Servers
    BY <1>2 DEF StartSmtp, AwaitSmtp, StartHttp, AwaitHttp, StopHttp, StopSmtp, Listen, Fatal,
                Interrupt, Vacate, Release, BeginStop, serverVars
  <2>3. QED
    BY <2>1, <2>2 DEF mainVars, history
<1>3. CASE NextTest
  BY <1>1, <1>3 DEF NextTest, serverVars, history
<1>4. CASE LoadError \/ Spawn \/ Wait \/ LastTest \/ LeaveTest \/ LeaveSuite
  <2>1. CASE LoadError \/ Spawn
    BY <2>1 DEF LoadError, Spawn, mainVars, serverVars, history
  <2>2. CASE Wait \/ LastTest
    BY <2>2 DEF Wait, LastTest, mainVars, serverVars, history
  <2>3. CASE LeaveTest \/ LeaveSuite
    BY <2>3 DEF LeaveTest, LeaveSuite, BeginStop, mainVars, serverVars, history
  <2>4. QED
    BY <1>4, <2>1, <2>2, <2>3
<1>5. ASSUME NEW c \in Clones, CloneStep(c)
      PROVE  /\ UNCHANGED <<mainVars, pc, serverVars>>
             /\ hardFail' \in BOOLEAN /\ softFail' \in BOOLEAN
  BY <1>5 DEF CloneStep, Rendered, RenderError, NestedError, NestedNone, NestedCall, NestedReturn,
              CaseError, BeginCase, Answer, EndCase, CountSuccess, Exit, GiveUp, history
<1>6. CASE \E c \in Clones : CloneStep(c)
  BY <1>5, <1>6 DEF mainVars, serverVars
<1>7. CASE UNCHANGED vars
  BY <1>7 DEF vars, mainVars, serverVars, history
<1>8. QED
  BY <1>2, <1>3, <1>4, <1>6, <1>7 DEF Next, SuiteStep, MainStep, Ended

(* A stack that is not empty has a top frame whose items are known. *)
LEMMA TopType ==
  ASSUME CloneTypes, NEW c \in Clones, frames[c] # << >>
  PROVE  /\ Len(frames[c]) \in Nat \ {0}
         /\ Top(c) \in FrameType
         /\ Items(c) \in Seq(Literal \cup PathRef)
<1>1. frames[c] \in Seq(FrameType)
  BY DEF CloneTypes
<1>2. Len(frames[c]) \in Nat \ {0} /\ Top(c) \in FrameType
  BY <1>1, EmptySeq DEF Top
<1>3. Top(c).file \in Files
  BY <1>2 DEF FrameType
<1>4. QED
  BY <1>2, <1>3, ContentAssumption DEF Items

(* A clone that gives up has an empty stack. *)
LEMMA GiveUpTypes ==
  ASSUME CloneTypes, NEW c \in Clones, GiveUp(c), UNCHANGED <<polls, log>>
  PROVE  CloneTypes'
<1>1. << >> \in Seq(FrameType)
  BY EmptySeq
<1>2. cpc' \in [Clones -> CpcType] /\ frames' \in [Clones -> Seq(FrameType)]
  BY <1>1 DEF GiveUp, CloneTypes, CpcType
<1>3. \A d \in Clones : cpc'[d] \in {"render", "item", "case"} => frames'[d] # << >>
  BY DEF GiveUp, CloneTypes
<1>4. QED
  BY <1>2, <1>3 DEF CloneTypes

(* The frames of a clone stay a stack of frames, not empty while it works. *)
LEMMA CloneTypesStep ==
  ASSUME Types, [Next]_vars
  PROVE  CloneTypes'
<1> USE DEF Types, CpcType
<1>1. tests \in Seq(Test)
  BY TestsAssumption DEF MainTypes
<1>2. CASE Spawn
  <2>1. k \in 1 .. Len(tests)
    BY <1>1, <1>2 DEF Spawn, MainTypes
  <2>2. tests[k].file \in Files
    <3>1. tests[k] \in Test
      BY <1>1, <2>1, ElementOfSeq
    <3>2. QED
      BY <3>1 DEF Test
  <2>3. \A c \in Clones : <<Frame(tests[k].file, buildLoader(-1, c))>> \in Seq(FrameType) \ {<< >>}
    BY <2>2 DEF Frame, FrameType, buildLoader, Clones
  <2>4. QED
    BY <1>2, <2>3 DEF Spawn, CloneTypes
<1>3. ASSUME NEW c \in Clones, NestedNone(c)
      PROVE  CloneTypes'
  BY <1>3, NextItemType, EmptySeq DEF NestedNone, AtItem, CloneTypes, history
<1>4. ASSUME NEW c \in Clones, NestedCall(c)
      PROVE  CloneTypes'
  <2>1. frames[c] # << >> /\ frames[c] \in Seq(FrameType)
    BY <1>4 DEF NestedCall, AtItem, CloneTypes
  <2>2. Top(c) \in FrameType /\ Current(c) \in Literal \cup PathRef
    BY <1>4, <2>1, TopType DEF NestedCall, AtItem, Current, FrameType
  <2>3. Current(c).file \in Files
    BY <1>4, <2>2 DEF NestedCall, Literal, PathRef
  <2>4. Frame(Current(c).file, buildLoader(Top(c).run, 0)) \in FrameType
    BY <2>2, <2>3 DEF Frame, buildLoader, FrameType
  <2>5. /\ Append(frames[c], Frame(Current(c).file, buildLoader(Top(c).run, 0))) \in Seq(FrameType)
        /\ Append(frames[c], Frame(Current(c).file, buildLoader(Top(c).run, 0))) # << >>
    BY <2>1, <2>4, AppendProperties
  <2>6. QED
    BY <1>4, <2>5 DEF NestedCall, CloneTypes, history
<1>5. ASSUME NEW c \in Clones, NestedReturn(c)
      PROVE  CloneTypes'
  <2>1. frames[c] \in Seq(FrameType) /\ Len(frames[c]) > 1
    BY <1>5 DEF NestedReturn, CloneTypes
  <2>2. /\ Front(frames[c]) \in Seq(FrameType)
        /\ Len(Front(frames[c])) = Len(frames[c]) - 1
    BY <2>1, SubSeqProperties DEF Front
  <2>3. Front(frames[c]) # << >>
    BY <2>1, <2>2, EmptySeq
  <2>4. NextItem(Front(frames[c])) \in Seq(FrameType) /\ NextItem(Front(frames[c])) # << >>
    BY <2>1, <2>2, <2>3, NextItemType, EmptySeq
  <2>5. QED
    BY <1>5, <2>4 DEF NestedReturn, CloneTypes, history
<1>6. ASSUME NEW c \in Clones, BeginCase(c)
      PROVE  CloneTypes'
  BY <1>6, BoundsAssumption DEF BeginCase, AtItem, CloneTypes, history
<1>7. ASSUME NEW c \in Clones, Answer(c)
      PROVE  CloneTypes'
  <2>1. elem[c] \in Nat
    BY DEF ReportTypes
  <2>2. polls[c] + 1 \in 0 .. MaxPolls
    BY <1>7, BoundsAssumption DEF Answer, CloneTypes
  <2>3. CaseAnswer(c, polls[c] + 1) \in [case: Nat, poll: Nat]
    BY <2>1, <2>2, BoundsAssumption DEF CaseAnswer
  <2>4. log' \in Seq([case: Nat, poll: Nat])
    <3>1. CASE polls[c] = 0
      BY <1>7, <2>3, <3>1, AppendProperties DEF Answer, StoreAnswer, CloneTypes
    <3>2. CASE polls[c] # 0
      <4> DEFINE a == CaseAnswer(c, polls[c] + 1)
      <4>1. log \in Seq([case: Nat, poll: Nat]) /\ log' = [log EXCEPT ![Len(log)] = a]
        BY <1>7, <3>2 DEF Answer, StoreAnswer, CloneTypes
      <4> HIDE DEF a
      <4>2. CASE Len(log) \in 1 .. Len(log)
        BY <2>3, <4>1, <4>2, ExceptSeq DEF a
      <4>3. CASE Len(log) \notin 1 .. Len(log)
        <5>1. log = << >> /\ Len(log) = 0
          BY <4>1, <4>3, EmptySeq
        <5>2. [<< >> EXCEPT ![0] = a] = << >>
          OBVIOUS
        <5>3. QED
          BY <4>1, <5>1, <5>2
      <4>4. QED
        BY <4>2, <4>3
    <3>3. QED
      BY <3>1, <3>2
  <2>5. QED
    BY <1>7, <2>2, <2>4 DEF Answer, CloneTypes
<1>8. ASSUME NEW c \in Clones, NEW ok \in BOOLEAN, EndCase(c, ok)
      PROVE  CloneTypes'
  <2>1. frames[c] \in Seq(FrameType) \ {<< >>}
    BY <1>8 DEF EndCase, CloneTypes
  <2>2. NextItem(frames[c]) \in Seq(FrameType) \ {<< >>}
    BY <2>1, NextItemType, EmptySeq
  <2>3. CASE ok \/ Current(c).cont
    BY <1>8, <2>2, <2>3 DEF EndCase, CloneTypes
  <2>4. CASE ~(ok \/ Current(c).cont)
    BY <1>8, <2>4, GiveUpTypes DEF EndCase
  <2>5. QED
    BY <2>3, <2>4
<1>9. ASSUME NEW c \in Clones,
             \/ Rendered(c) \/ RenderError(c) \/ NestedError(c) \/ CaseError(c)
             \/ CountSuccess(c) \/ Exit(c)
      PROVE  CloneTypes'
  <2>1. CASE Rendered(c) \/ CountSuccess(c) \/ Exit(c)
    BY <1>9, <2>1 DEF Rendered, CountSuccess, Exit, CloneTypes
  <2>2. CASE RenderError(c) \/ NestedError(c) \/ CaseError(c)
    BY <1>9, <2>2, GiveUpTypes DEF RenderError, NestedError, CaseError
  <2>3. QED
    BY <1>9, <2>1, <2>2
<1>10. CASE UNCHANGED <<cloneVars, log>>
  BY <1>10 DEF cloneVars, CloneTypes
<1>11. QED
  BY <1>2, <1>3, <1>4, <1>5, <1>6, <1>7, <1>8, <1>9, <1>10
     DEF Next, SuiteStep, MainStep, CloneStep, Ended, vars, mainVars, serverVars,
         StartSmtp, AwaitSmtp, StartHttp, AwaitHttp, NextTest, LoadError, Wait, LeaveTest, LastTest,
         LeaveSuite, StopHttp, StopSmtp, Listen, Fatal, Interrupt, Vacate, Release, BeginStop

(* The suite starts with well-typed variables. *)
LEMMA TypesInit == Init => Types
<1>1. NewReport \in Seq(ReportElement) /\ Root \in DOMAIN NewReport
  BY DEF NewReport, NewElement, ReportElement, Root
<1>2. ASSUME Init PROVE ReportTypes
  BY <1>1, <1>2, NewChildType DEF Init, ReportTypes
<1>3. ASSUME Init PROVE MainTypes
  <2>1. tests \in Seq(Test)
    BY <1>3, TestsAssumption DEF Init
  <2>2. k \in 0 .. Len(tests)
    BY <1>3, <2>1 DEF Init
  <2>3. pc \in PcType /\ (pc \in {"load", "wait", "judged"} => k > 0)
    BY <1>3 DEF Init, PcType
  <2>4. taken \subseteq Servers /\ held \subseteq Servers
    BY <1>3, ConfigsAssumption DEF Init, Config
  <2>5. QED
    BY <1>3, <2>2, <2>3, <2>4, Zenon DEF Init, MainTypes
<1>4. ASSUME Init PROVE CloneTypes
  BY <1>4, BoundsAssumption, EmptySeq DEF Init, CloneTypes, CpcType
<1>5. QED
  BY <1>2, <1>3, <1>4 DEF Types

(***************************************************************************)
(* The counters: waitGroup counts the clones at work, successCount those   *)
(* that have got to the end of their file.                                 *)
(***************************************************************************)

Working   == {c \in Clones : Busy(c)}
Over(c)   == cpc[c] \in {"exit", "done"}
Succeeded == {c \in Clones : Over(c) /\ frames[c] # << >>}
Failed    == {c \in Clones : Over(c) /\ frames[c] = << >>}

Counters == wg = Cardinality(Working) /\ succ = Cardinality(Succeeded)

(* While clones run, the ones below Runs were started; they run only then. *)
Stage ==
  /\ pc \notin {"wait", "fatal"} => Working = {}
  /\ pc = "wait" => \A c \in Clones : cpc[c] = "idle" <=> c >= Runs

(* hardFail is known to main once the clones are done. *)
Judgement ==
  /\ pc \in {"startSmtp", "awaitSmtp", "startHttp", "awaitHttp", "next", "load", "listening"} =>
       success /\ ~hardFail
  /\ pc = "wait" => success /\ (hardFail <=> Failed # {})
  /\ pc = "judged" => success /\ (result <=> ~hardFail)
  /\ pc \in {"leave", "keepRunning", "stopHttp", "stopSmtp", "finished"} => (success <=> ~hardFail)

SuiteInv == Types /\ Counters /\ Stage /\ Judgement

(* The clones of a test are finitely many: as many as MaxRuns. *)
LEMMA ClonesFinite ==
  /\ IsFiniteSet(Clones)
  /\ Cardinality(Clones) = MaxRuns
<1>1. MaxRuns - 1 \in Int /\ 0 \in Int
  BY BoundsAssumption
<1>2. QED
  BY <1>1, FS_Interval, BoundsAssumption DEF Clones

(* So are those of any set of clones, and none is left exactly if the set is
   empty. *)
LEMMA SubsetFinite ==
  ASSUME NEW S \in SUBSET Clones
  PROVE  /\ IsFiniteSet(S)
         /\ Cardinality(S) \in 0 .. MaxRuns
         /\ Cardinality(S) = 0 <=> S = {}
<1>1. IsFiniteSet(S) /\ Cardinality(S) <= MaxRuns
  BY ClonesFinite, FS_Subset
<1>2. Cardinality(S) \in Nat
  BY <1>1, FS_CardinalityType
<1>3. Cardinality(S) = 0 <=> S = {}
  BY <1>1, FS_EmptySet
<1>4. QED
  BY <1>1, <1>2, <1>3, BoundsAssumption

(* The number of clones of a test is within the bound. *)
LEMMA RunsType ==
  ASSUME MainTypes, k > 0
  PROVE  Runs \in 0 .. MaxRuns
<1>1. tests \in Seq(Test) /\ k \in 1 .. Len(tests)
  BY TestsAssumption DEF MainTypes
<1>2. tests[k] \in Test
  BY <1>1, ElementOfSeq
<1>3. QED
  BY <1>2 DEF Runs, Test

(* How the steps of a clone change the three sets. *)
LEMMA CloneStepSets ==
  ASSUME Types, NEW c \in Clones, CloneStep(c)
  PROVE  /\ Busy(c)
         /\ \A d \in Clones : cpc'[d] = "idle" <=> cpc[d] = "idle"
         /\ \/ /\ Working' = Working /\ Succeeded' = Succeeded
               /\ UNCHANGED <<wg, succ>>
               /\ \/ Failed' = Failed /\ hardFail' = hardFail
                  \/ Failed' # {} /\ hardFail' = TRUE
            \/ /\ CountSuccess(c)
               /\ Working' = Working /\ Succeeded' = Succeeded \cup {c} /\ c \notin Succeeded
               /\ Failed' = Failed /\ hardFail' = hardFail
            \/ /\ Exit(c)
               /\ Working' = Working \ {c} /\ c \in Working /\ Succeeded' = Succeeded
               /\ Failed' = Failed /\ hardFail' = hardFail
<1> USE DEF Working, Succeeded, Failed, Busy, Over
<1>1. cpc \in [Clones -> CpcType] /\ frames \in [Clones -> Seq(FrameType)]
  BY DEF Types, CloneTypes
<1>2. CASE GiveUp(c) /\ cpc[c] \in {"render", "item", "case"} /\ UNCHANGED <<wg, succ>>
  BY <1>1, <1>2 DEF GiveUp
<1>3. CASE \/ NestedNone(c) \/ NestedReturn(c)
  BY <1>1, <1>3 DEF NestedNone, NestedReturn, AtItem, history
<1>4. CASE Rendered(c) \/ NestedCall(c) \/ BeginCase(c) \/ Answer(c)
  BY <1>1, <1>4 DEF Rendered, NestedCall, BeginCase, Answer, AtItem, history
<1>5. CASE \E ok \in BOOLEAN : EndCase(c, ok) /\ ~ GiveUp(c)
  BY <1>1, <1>5 DEF EndCase
<1>6. CASE CountSuccess(c)
  BY <1>1, <1>6 DEF CountSuccess, history, Types, CloneTypes
<1>7. CASE Exit(c)
  BY <1>1, <1>7 DEF Exit, history
<1>8. QED
  BY <1>2, <1>3, <1>4, <1>5, <1>6, <1>7
     DEF CloneStep, RenderError, NestedError, CaseError, EndCase, AtItem

(* At the end of the wait all clones have finished, and their number tells
   whether one has failed. *)
LEMMA WaitJudges ==
  ASSUME Types, Counters, Stage, pc = "wait", wg = 0
  PROVE  succ = Runs <=> Failed = {}
<1> USE DEF Types, MainTypes
<1>1. Runs \in 0 .. MaxRuns
  BY RunsType
<1>2. Working = {}
  BY SubsetFinite DEF Counters, Working
<1>3. Succeeded \cup Failed = 0 .. Runs - 1 /\ Succeeded \cap Failed = {}
  <2>1. \A c \in Clones : ~Busy(c) /\ (cpc[c] = "idle" <=> c >= Runs)
    BY <1>2 DEF Stage, Working
  <2>2. \A c \in Clones : Over(c) <=> ~(c >= Runs)
    BY <2>1 DEF Over, Busy, CloneTypes, CpcType
  <2>3. Succeeded \cup Failed = {c \in Clones : ~(c >= Runs)}
    BY <2>2 DEF Succeeded, Failed
  <2>4. {c \in Clones : ~(c >= Runs)} = 0 .. Runs - 1
    BY <1>1, BoundsAssumption DEF Clones
  <2>5. QED
    BY <2>3, <2>4 DEF Succeeded, Failed
<1>4. IsFiniteSet(0 .. Runs - 1) /\ Cardinality(0 .. Runs - 1) = Runs
  <2>1. Runs - 1 \in Int /\ 0 \in Int
    BY <1>1
  <2>2. QED
    BY <1>1, <2>1, FS_Interval
<1>5. Cardinality(Succeeded) = Runs => Succeeded = 0 .. Runs - 1
  BY <1>3, <1>4, FS_Subset
<1>6. QED
  BY <1>3, <1>4, <1>5 DEF Counters

(* The step that starts a test's clones. *)
LEMMA SpawnStep ==
  ASSUME SuiteInv, Spawn
  PROVE  Counters' /\ Stage' /\ Judgement'
<1> USE DEF SuiteInv
<1>1. Runs \in 0 .. MaxRuns
  BY RunsType DEF Spawn, Types, MainTypes
<1>2. /\ \A c \in Clones : cpc'[c] = IF c < Runs THEN "render" ELSE "idle"
      /\ pc' = "wait" /\ wg' = Runs /\ succ' = 0 /\ Runs' = Runs
      /\ success' = success /\ hardFail' = hardFail /\ pc = "load"
  BY DEF Spawn, mainVars, history, Runs
<1>3. Working' = {c \in Clones : c < Runs} /\ Succeeded' = {} /\ Failed' = {}
  BY <1>2 DEF Working, Succeeded, Failed, Busy, Over
<1>4. {c \in Clones : c < Runs} = 0 .. Runs - 1
  BY <1>1, BoundsAssumption DEF Clones
<1>5. Cardinality(0 .. Runs - 1) = Runs
  <2>1. Runs - 1 \in Int /\ 0 \in Int
    BY <1>1
  <2>2. QED
    BY <1>1, <2>1, FS_Interval
<1>6. Counters'
  BY <1>2, <1>3, <1>4, <1>5, FS_EmptySet DEF Counters
<1>7. Stage'
  <2>1. \A c \in Clones : cpc'[c] = "idle" <=> c >= Runs'
    BY <1>1, <1>2, BoundsAssumption DEF Clones
  <2>2. QED
    BY <1>2, <2>1 DEF Stage
<1>8. Judgement'
  BY <1>2, <1>3 DEF Judgement
<1>9. QED
  BY <1>6, <1>7, <1>8

(* A step of a clone changes a counter together with the set it counts. *)
LEMMA CloneStepInv ==
  ASSUME SuiteInv, pc # "fatal", NEW c \in Clones, CloneStep(c)
  PROVE  Counters' /\ Stage' /\ Judgement'
<1> USE DEF SuiteInv
<1>1. UNCHANGED <<mainVars, pc>>
  BY DEF CloneStep, Rendered, RenderError, NestedError, NestedNone, NestedCall, NestedReturn,
         CaseError, BeginCase, Answer, EndCase, CountSuccess, Exit
<1>2. pc = "wait" /\ Runs' = Runs
  BY <1>1, CloneStepSets DEF Stage, Working, mainVars, Runs
<1>3. Stage'
  BY <1>1, <1>2, CloneStepSets DEF Stage
<1>4. Judgement'
  BY <1>1, <1>2, CloneStepSets DEF Judgement, mainVars
<1>5. Counters'
  <2>1. IsFiniteSet(Working) /\ IsFiniteSet(Succeeded)
    BY SubsetFinite DEF Working, Succeeded
  <2>2. CASE Working' = Working /\ Succeeded' = Succeeded /\ UNCHANGED <<wg, succ>>
    BY <2>2 DEF Counters
  <2>3. CASE /\ CountSuccess(c)
             /\ Working' = Working /\ Succeeded' = Succeeded \cup {c} /\ c \notin Succeeded
    BY <2>1, <2>3, FS_AddElement DEF Counters, CountSuccess
  <2>4. CASE /\ Exit(c)
             /\ Working' = Working \ {c} /\ c \in Working /\ Succeeded' = Succeeded
    BY <2>1, <2>4, FS_RemoveElement DEF Counters, Exit
  <2>5. QED
    BY <2>2, <2>3, <2>4, CloneStepSets
<1>6. QED
  BY <1>3, <1>4, <1>5

(* Every other step leaves the clones and their counters alone. *)
LEMMA MainStepInv ==
  ASSUME SuiteInv, UNCHANGED <<wg, succ, cloneVars>>,
         \/ StartSmtp \/ AwaitSmtp \/ StartHttp \/ AwaitHttp \/ NextTest \/ LoadError \/ Wait
         \/ LeaveTest \/ LastTest \/ LeaveSuite \/ StopHttp \/ StopSmtp \/ Listen \/ Fatal
         \/ Interrupt \/ Vacate \/ Release \/ UNCHANGED vars
  PROVE  Counters' /\ Stage' /\ Judgement'
<1> USE DEF SuiteInv
<1>1. Working' = Working /\ Succeeded' = Succeeded /\ Failed' = Failed
  BY DEF cloneVars, Working, Succeeded, Failed, Busy, Over
<1>2. Counters'
  BY <1>1 DEF Counters
<1>3. CASE Wait
  <2>1. Working = {} /\ wg = 0 /\ pc = "wait" /\ pc' = "judged" /\ (result' <=> succ = Runs)
    BY <1>3, SubsetFinite DEF Wait, Counters, Working
  <2>2. Stage'
    BY <1>1, <2>1 DEF Stage
  <2>3. success' = success /\ hardFail' = hardFail
    BY <1>3 DEF Wait, history
  <2>4. Judgement'
    BY <2>1, <2>3, WaitJudges DEF Judgement
  <2>5. QED
    BY <1>2, <2>2, <2>4
<1>4. CASE ~Wait
  <2>1. Stage'
    <3>1. pc' = "wait" => UNCHANGED <<pc, Runs>>
      BY <1>4 DEF StartSmtp, AwaitSmtp, StartHttp, AwaitHttp, NextTest, LoadError, LeaveTest,
                  LastTest, LeaveSuite, StopHttp, StopSmtp, Listen, Fatal, Interrupt, Vacate,
                  Release, BeginStop, vars, mainVars,
                  Runs
    <3>2. pc' \notin {"wait", "fatal"} => pc \notin {"wait", "fatal"}
      BY <1>4 DEF StartSmtp, AwaitSmtp, StartHttp, AwaitHttp, NextTest, LoadError, LeaveTest,
                  LastTest, LeaveSuite, StopHttp, StopSmtp, Listen, Fatal, Interrupt, Vacate,
                  Release, BeginStop, vars
    <3>3. QED
      BY <1>1, <3>1, <3>2 DEF Stage, cloneVars
  <2>2. Judgement'
    BY <1>1, <1>4
       DEF Judgement, StartSmtp, AwaitSmtp, StartHttp, AwaitHttp, NextTest, LoadError, LeaveTest,
           LastTest, LeaveSuite, StopHttp, StopSmtp, Listen, Fatal, Interrupt, Vacate, Release,
           BeginStop, vars, mainVars, history,
           Types, MainTypes
  <2>3. QED
    BY <1>2, <2>1, <2>2
<1>5. QED
  BY <1>3, <1>4

(***************************************************************************)
(* Theorems                                                                *)
(***************************************************************************)

(* The inductive invariant of the suite: types, counters and what main may
   conclude from them at each place. *)
THEOREM SuiteInvariant == Spec => []SuiteInv
<1>1. Init => SuiteInv
  <2>1. ASSUME Init PROVE Working = {} /\ Succeeded = {} /\ Failed = {}
    BY <2>1 DEF Init, Working, Succeeded, Failed, Busy, Over
  <2>2. ASSUME Init PROVE Counters
    BY <2>1, <2>2, FS_EmptySet DEF Init, Counters
  <2>3. ASSUME Init PROVE Stage /\ Judgement
    BY <2>1, <2>3 DEF Init, Stage, Judgement
  <2>4. ASSUME Init, Types PROVE SuiteInv
    BY <2>2, <2>3, <2>4 DEF SuiteInv
  <2>5. Init => Types
    BY TypesInit
  <2>6. QED
    BY <2>4, <2>5
<1>2. SuiteInv /\ [Next]_vars => SuiteInv'
  <2> SUFFICES ASSUME SuiteInv, [Next]_vars PROVE SuiteInv'
    OBVIOUS
  <2>1. Types'
    BY MainTypesStep, CloneTypesStep, ReportTypesStep DEF SuiteInv, Types
  <2>2. CASE Spawn
    BY <2>1, <2>2, SpawnStep DEF SuiteInv
  <2>3. CASE pc # "fatal" /\ \E c \in Clones : CloneStep(c)
    BY <2>1, <2>3, CloneStepInv DEF SuiteInv
  <2>4. CASE \/ StartSmtp \/ AwaitSmtp \/ StartHttp \/ AwaitHttp \/ NextTest \/ LoadError \/ Wait
             \/ LeaveTest \/ LastTest \/ LeaveSuite \/ StopHttp \/ StopSmtp \/ Listen \/ Fatal
             \/ Interrupt \/ Vacate \/ Release \/ UNCHANGED vars
    <3>1. UNCHANGED <<wg, succ, cloneVars>>
      BY <2>4 DEF StartSmtp, AwaitSmtp, StartHttp, AwaitHttp, NextTest, LoadError, Wait, LeaveTest,
                  LastTest, LeaveSuite, StopHttp, StopSmtp, Listen, Fatal, Interrupt, Vacate,
                  Release, BeginStop, vars
    <3>2. QED
      BY <2>1, <2>4, <3>1, MainStepInv DEF SuiteInv
  <2>5. QED
    BY <2>2, <2>3, <2>4 DEF Next, SuiteStep, MainStep, Ended
<1>3. QED
  BY <1>1, <1>2, PTL DEF Spec

(* Every variable of a suite run keeps its type; the two counters stay within
   the number of clones. *)
THEOREM TypeCorrect == Spec => []TypeOK
<1>1. SuiteInv => TypeOK
  <2> SUFFICES ASSUME SuiteInv PROVE TypeOK
    OBVIOUS
  <2>1. wg \in 0 .. MaxRuns /\ succ \in 0 .. MaxRuns
    BY SubsetFinite DEF SuiteInv, Counters, Working, Succeeded
  <2>2. QED
    BY <2>1 DEF SuiteInv, Types, MainTypes, CloneTypes, ReportTypes, TypeOK, PcType, CpcType
<1>2. QED
  BY <1>1, SuiteInvariant, PTL

(* When main judges a test, or starts the next one, no clone is at work. *)
THEOREM Suite_NoStragglers == Spec => []NoStragglers
<1>1. SuiteInv => NoStragglers
  BY DEF SuiteInv, Stage, Working, NoStragglers
<1>2. QED
  BY <1>1, SuiteInvariant, PTL

(* A suite succeeds exactly if nothing failed that had to fail it, for any
   number of clones and any interleaving of their exits. *)
THEOREM Suite_SuccessExact == Spec => []SuccessExact
<1>1. SuiteInv => SuccessExact
  BY DEF SuiteInv, Judgement, SuccessExact, Types, MainTypes
<1>2. QED
  BY <1>1, SuiteInvariant, PTL

(* After a failure no further test is started. *)
THEOREM Suite_StopsAtFirstFailure == Spec => StopsAtFirstFailure
<1>1. SuiteInv /\ [Next]_vars => [hardFail => k' = k]_vars
  <2> SUFFICES ASSUME SuiteInv, [Next]_vars PROVE hardFail => k' = k
    OBVIOUS
  <2>1. CASE NextTest
    BY <2>1 DEF NextTest, SuiteInv, Judgement
  <2>2. CASE \E c \in Clones : CloneStep(c)
    BY <2>2 DEF CloneStep, Rendered, RenderError, NestedError, NestedNone, NestedCall, NestedReturn,
                CaseError, BeginCase, Answer, EndCase, CountSuccess, Exit, mainVars
  <2>3. CASE \/ StartSmtp \/ AwaitSmtp \/ StartHttp \/ AwaitHttp \/ LoadError \/ Spawn \/ Wait
             \/ LeaveTest \/ LastTest \/ LeaveSuite \/ StopHttp \/ StopSmtp \/ Listen \/ Fatal
             \/ Interrupt \/ Vacate \/ Release \/ UNCHANGED vars
    BY <2>3 DEF StartSmtp, AwaitSmtp, StartHttp, AwaitHttp, LoadError, Spawn, Wait, LeaveTest,
                LastTest, LeaveSuite, StopHttp, StopSmtp, Listen, Fatal, Interrupt, Vacate,
                Release, BeginStop, vars, mainVars
  <2>4. QED
    BY <2>1, <2>2, <2>3 DEF Next, SuiteStep, MainStep, Ended
<1>2. QED
  BY <1>1, SuiteInvariant, PTL DEF Spec, StopsAtFirstFailure

(***************************************************************************)
(* The report and what it says about failures                              *)
(***************************************************************************)

(* A new report element brings no failure and hides none. *)
LEMMA NewChildFailure ==
  ASSUME NEW r \in Seq(ReportElement), NEW e \in DOMAIN r
  PROVE  SomeFailure(NewChild(r, e)) <=> SomeFailure(r)
<1>1. NewElement(e) \in ReportElement /\ NewElement(e).fails = 0
  BY DEF NewElement, ReportElement
<1>2. DOMAIN r = 1 .. Len(r) /\ DOMAIN NewChild(r, e) = 1 .. Len(r) + 1
  BY <1>1, AppendProperties, LenProperties DEF NewChild
<1>3. /\ \A i \in 1 .. Len(r) : NewChild(r, e)[i] = r[i]
      /\ NewChild(r, e)[Len(r) + 1] = NewElement(e)
  BY <1>1, AppendProperties DEF NewChild
<1>4. QED
  BY <1>1, <1>2, <1>3, LenProperties DEF SomeFailure

(* Leave records a failure and forgets none. *)
LEMMA LeaveFailure ==
  ASSUME NEW r \in Seq(ReportElement), NEW e \in DOMAIN r, NEW ok \in BOOLEAN
  PROVE  SomeFailure(Leave(r, e, ok)) <=> SomeFailure(r) \/ ~ok
<1>1. \A i \in DOMAIN r : r[i] \in ReportElement
  OBVIOUS
<1>2. DOMAIN Leave(r, e, ok) = DOMAIN r
  BY LeaveType
<1>3. \A i \in DOMAIN r : i # e => Leave(r, e, ok)[i] = r[i]
  BY DEF Leave
<1>4. Leave(r, e, ok)[e].fails = IF ok THEN r[e].fails ELSE r[e].fails + 1
  BY <1>1 DEF Leave, ReportElement
<1>5. r[e].fails \in Nat
  BY <1>1 DEF ReportElement
<1>6. QED
  BY <1>2, <1>3, <1>4, <1>5 DEF SomeFailure

Failures ==
  /\ softFail => SomeFailure(rep)
  /\ SomeFailure(rep) => hardFail \/ softFail
  /\ pc \in {"leave", "keepRunning", "stopHttp", "stopSmtp", "finished"} /\ hardFail =>
       SomeFailure(rep)

(* Each step keeps the report and the history of failures in agreement. *)
LEMMA FailuresStep ==
  ASSUME SuiteInv, Failures, [Next]_vars
  PROVE  Failures'
<1> USE DEF SuiteInv, Types, MainTypes, ReportTypes, Failures
<1>1. CASE NextTest
  BY <1>1, NewChildFailure DEF NextTest, history
<1>2. CASE LeaveTest
  BY <1>2, LeaveFailure DEF LeaveTest, history, Judgement
<1>3. CASE LeaveSuite
  BY <1>3, LeaveFailure DEF LeaveSuite, history, Judgement
<1>4. ASSUME NEW c \in Clones, BeginCase(c)
      PROVE  Failures'
  BY <1>4, NewChildFailure DEF BeginCase, history
<1>5. ASSUME pc # "fatal", NEW c \in Clones, NEW ok \in BOOLEAN, EndCase(c, ok)
      PROVE  Failures'
  <2>1. SomeFailure(rep') <=> SomeFailure(rep) \/ ~ok
    BY <1>5, LeaveFailure DEF EndCase
  <2>2. pc = "wait" /\ pc' = pc
    <3>1. CloneStep(c)
      BY <1>5 DEF CloneStep
    <3>2. Busy(c)
      BY <3>1, CloneStepSets
    <3>3. QED
      BY <1>5, <3>2 DEF EndCase, Stage, Working
  <2>3. CASE ok \/ Current(c).cont
    BY <1>5, <2>1, <2>2, <2>3 DEF EndCase
  <2>4. CASE ~(ok \/ Current(c).cont)
    BY <1>5, <2>1, <2>2, <2>4 DEF EndCase, GiveUp
  <2>5. QED
    BY <2>3, <2>4
<1>6. ASSUME pc # "fatal", NEW c \in Clones, RenderError(c) \/ NestedError(c) \/ CaseError(c)
      PROVE  Failures'
  <2>1. pc = "wait" /\ pc' = pc
    <3>1. Busy(c)
      BY <1>6, CloneStepSets DEF CloneStep
    <3>2. QED
      BY <1>6, <3>1 DEF RenderError, NestedError, CaseError, Stage, Working
  <2>2. QED
    BY <1>6, <2>1 DEF RenderError, NestedError, CaseError, GiveUp
<1>7. CASE LoadError
  BY <1>7 DEF LoadError
<1>8. CASE UNCHANGED <<rep, hardFail, softFail>> /\
           (pc' \in {"leave", "keepRunning", "stopHttp", "stopSmtp", "finished"} =>
              pc \in {"leave", "keepRunning", "stopHttp", "stopSmtp", "finished"} \/ ~hardFail)
  BY <1>8
<1>9. QED
  BY <1>1, <1>2, <1>3, <1>4, <1>5, <1>6, <1>7, <1>8
     DEF Next, SuiteStep, MainStep, CloneStep, Ended, vars, mainVars, history, Judgement,
         StartSmtp, AwaitSmtp, StartHttp, AwaitHttp, Spawn, Wait, LastTest, StopHttp, StopSmtp,
         Listen, Fatal, Interrupt, Vacate, Release, BeginStop, Rendered, NestedNone, NestedCall,
         NestedReturn, Answer,
         CountSuccess, Exit

(* The report of a finished suite has a failure exactly if something failed,
   forgiven or not. *)
THEOREM Suite_ReportTellsAll == Spec => []ReportTellsAll
<1>1. Init => Failures
  <2>1. NewReport \in Seq(ReportElement) /\ Root \in DOMAIN NewReport
    BY DEF NewReport, NewElement, ReportElement, Root
  <2>2. ~SomeFailure(NewReport)
    BY DEF SomeFailure, NewReport, NewElement
  <2>3. QED
    BY <2>1, <2>2, NewChildFailure DEF Init, Failures
<1>2. SuiteInv /\ Failures /\ [Next]_vars => Failures'
  BY FailuresStep
<1>3. SuiteInv /\ Failures => ReportTellsAll
  <2> SUFFICES ASSUME Failures,
                      pc \in {"keepRunning", "stopHttp", "stopSmtp", "finished"}
               PROVE  SomeFailure(rep) = (hardFail \/ softFail)
    BY DEF ReportTellsAll
  <2>1. pc \in {"leave", "keepRunning", "stopHttp", "stopSmtp", "finished"}
    OBVIOUS
  <2>2. SomeFailure(rep) <=> hardFail \/ softFail
    BY <2>1, Zenon DEF Failures
  <2>3. QED
    BY <2>2, Zenon DEF SomeFailure
<1>4. QED
  BY <1>1, <1>2, <1>3, SuiteInvariant, PTL DEF Spec

(***************************************************************************)
(* parallel_run_idx, the servers and the response list                     *)
(***************************************************************************)

(* Every file that a clone renders, however deeply nested, sees the index of
   the clone. *)
THEOREM Suite_RunIdxIsClone == Spec => []RunIdxIsClone
<1>1. Init => RunIdxIsClone
  BY DEF Init, RunIdxIsClone
<1>2. SuiteInv /\ RunIdxIsClone /\ [Next]_vars => RunIdxIsClone'
  <2> SUFFICES ASSUME SuiteInv, RunIdxIsClone, [Next]_vars
               PROVE  RunIdxIsClone'
    OBVIOUS
  <2> USE DEF SuiteInv, Types, CloneTypes, RunIdxIsClone
  <2>1. CASE Spawn
    BY <2>1, BoundsAssumption DEF Spawn, Frame, buildLoader, Clones
  <2>2. ASSUME NEW c \in Clones, NEW fs \in Seq(FrameType), fs # << >>,
               \A i \in DOMAIN fs : fs[i].run = c,
               frames' = [frames EXCEPT ![c] = NextItem(fs)]
        PROVE  RunIdxIsClone'
    <3>1. /\ NextItem(fs) \in Seq(FrameType) /\ Len(NextItem(fs)) = Len(fs)
          /\ \A i \in 1 .. Len(fs) : NextItem(fs)[i].run = fs[i].run
      BY <2>2, NextItemType
    <3>2. \A i \in DOMAIN NextItem(fs) : NextItem(fs)[i].run = c
      BY <2>2, <3>1, LenProperties
    <3>3. QED
      BY <2>2, <3>2
  <2>3. ASSUME NEW c \in Clones, NestedNone(c) \/ \E ok \in BOOLEAN : EndCase(c, ok) /\ ~GiveUp(c)
        PROVE  RunIdxIsClone'
    <3>1. frames[c] # << >> /\ frames' = [frames EXCEPT ![c] = NextItem(frames[c])]
      BY <2>3 DEF NestedNone, EndCase, AtItem
    <3>2. frames[c] \in Seq(FrameType) /\ \A i \in DOMAIN frames[c] : frames[c][i].run = c
      OBVIOUS
    <3>3. QED
      BY <2>2, <3>1, <3>2
  <2>4. ASSUME NEW c \in Clones, NestedReturn(c)
        PROVE  RunIdxIsClone'
    <3>1. frames[c] \in Seq(FrameType) /\ Len(frames[c]) > 1
      BY <2>4 DEF NestedReturn
    <3>2. /\ Front(frames[c]) \in Seq(FrameType)
          /\ Len(Front(frames[c])) = Len(frames[c]) - 1
          /\ \A i \in 1 .. Len(frames[c]) - 1 : Front(frames[c])[i] = frames[c][i]
      <4>1. Len(frames[c]) - 1 \in Int /\ \A i \in 1 .. Len(frames[c]) - 1 : frames[c][i] \in FrameType
        BY <3>1
      <4>2. QED
        BY <3>1, <4>1, SubSeqProperties DEF Front
    <3>3. Front(frames[c]) # << >>
      BY <3>1, <3>2, EmptySeq
    <3>4. \A i \in DOMAIN Front(frames[c]) : Front(frames[c])[i].run = c
      <4>1. /\ DOMAIN Front(frames[c]) = 1 .. Len(frames[c]) - 1
            /\ DOMAIN frames[c] = 1 .. Len(frames[c])
        BY <3>1, <3>2, LenProperties
      <4>2. \A i \in DOMAIN frames[c] : frames[c][i].run = c
        OBVIOUS
      <4>3. ASSUME NEW i \in DOMAIN Front(frames[c])
            PROVE  Front(frames[c])[i].run = c
        <5>1. i \in 1 .. Len(frames[c]) - 1 /\ i \in DOMAIN frames[c]
          BY <3>1, <4>1
        <5>2. Front(frames[c])[i] = frames[c][i]
          BY <3>2, <5>1
        <5>3. frames[c][i].run = c
          BY <4>2, <5>1
        <5>4. QED
          BY <5>2, <5>3
      <4>4. QED
        BY <4>3
    <3>5. frames' = [frames EXCEPT ![c] = NextItem(Front(frames[c]))]
      BY <2>4 DEF NestedReturn
    <3>6. QED
      BY <2>2, <3>2, <3>3, <3>4, <3>5
  <2>5. ASSUME NEW c \in Clones, NestedCall(c)
        PROVE  RunIdxIsClone'
    <3>1. frames[c] \in Seq(FrameType) /\ frames[c] # << >>
      BY <2>5 DEF NestedCall, AtItem
    <3>2. Top(c).run = c /\ Top(c) \in FrameType
      BY <3>1, TopType, LenProperties DEF Top
    <3>3. buildLoader(Top(c).run, 0) = c
      BY <3>2 DEF buildLoader, FrameType
    <3>4. Frame(Current(c).file, buildLoader(Top(c).run, 0)).run = c
      BY <3>3 DEF Frame
    <3>5. QED
      BY <2>5, <3>1, <3>4 DEF NestedCall
  <2>6. ASSUME NEW c \in Clones, GiveUp(c)
        PROVE  RunIdxIsClone'
    BY <2>6 DEF GiveUp
  <2>7. CASE UNCHANGED frames
    BY <2>7
  <2>8. CASE MainStep
    <3>1. Spawn \/ UNCHANGED frames
      BY <2>8 DEF MainStep, cloneVars, StartSmtp, AwaitSmtp, StartHttp, AwaitHttp, NextTest,
                  LoadError, Wait, LeaveTest, LastTest, LeaveSuite, StopHttp, StopSmtp
    <3>2. QED
      BY <2>1, <2>7, <3>1
  <2>9. CASE Listen \/ Fatal \/ Interrupt \/ Vacate \/ Release \/ Ended \/ UNCHANGED vars
    <3>1. UNCHANGED frames
      BY <2>9 DEF Listen, Fatal, Interrupt, Vacate, Release, BeginStop, Ended, vars, mainVars,
                  cloneVars
    <3>2. QED
      BY <2>7, <3>1
  <2>10. ASSUME NEW c \in Clones, CloneStep(c)
         PROVE  RunIdxIsClone'
    <3>1. CASE Rendered(c) \/ RenderError(c) \/ BeginCase(c) \/ Answer(c) \/ CountSuccess(c) \/ Exit(c)
      <4>1. UNCHANGED frames \/ GiveUp(c)
        BY <3>1 DEF Rendered, RenderError, BeginCase, Answer, CountSuccess, Exit
      <4>2. QED
        BY <2>6, <2>7, <4>1
    <3>2. CASE NestedError(c) \/ CaseError(c)
      <4>1. UNCHANGED frames \/ GiveUp(c)
        BY <3>2 DEF NestedError, CaseError
      <4>2. QED
        BY <2>6, <2>7, <4>1
    <3>3. CASE NestedNone(c) \/ NestedCall(c) \/ NestedReturn(c)
      BY <2>3, <2>4, <2>5, <3>3
    <3>4. CASE \E ok \in BOOLEAN : EndCase(c, ok)
      BY <2>3, <2>6, <3>4
    <3>5. QED
      BY <2>10, <3>1, <3>2, <3>3, <3>4 DEF CloneStep
  <2>11. QED
    BY <2>8, <2>9, <2>10 DEF Next, SuiteStep
<1>3. QED
  BY <1>1, <1>2, SuiteInvariant, PTL DEF Spec

(* The clones of the test that is waited for, and no others, are at work, each under
   its own index in files nested to any depth. *)
THEOREM Suite_ClonesOfTheTest == Spec => []ClonesOfTheTest
<1>1. NoStragglers /\ RunIdxIsClone => ClonesOfTheTest
  BY DEF ClonesOfTheTest
<1>2. QED
  BY <1>1, Suite_NoStragglers, Suite_RunIdxIsClone, PTL

(* A server that was waited for is up, or is still to find its address taken;
   it stays so until the suite stops it. *)
Around(x) == \/ State(x) = "up"
             \/ State(x) = "starting" /\ x \in conf.taken

ServersInv ==
  /\ taken \subseteq conf.taken
  /\ pc = "startSmtp" => smtp = "off"
  /\ pc \in {"startSmtp", "awaitSmtp", "startHttp"} => http = "off"
  /\ pc = "awaitSmtp" /\ conf.smtp => smtp \in {"starting", "up"}
  /\ pc \in {"startHttp", "awaitHttp", "next", "load", "wait", "judged", "leave", "keepRunning",
             "stopHttp"} /\ conf.smtp => Around("smtp")
  /\ pc = "awaitHttp" /\ conf.http # "none" => http \in {"starting", "up"}
  /\ pc \in {"next", "load", "wait", "judged", "leave", "keepRunning", "stopHttp"} /\
       conf.http # "none" => Around("http")
  /\ pc \in {"stopSmtp", "finished"} => http = "off"
  /\ pc = "finished" => smtp = "off"

(* Clones run only after every configured server has come up, unless another
   process had its address when the suite started; no server survives its
   suite. *)
THEOREM Suite_ServersAround == Spec => []ServersAround
<1> USE DEF State, Configured, Servers
<1>1. Init => ServersInv
  BY DEF Init, ServersInv
<1>2. SuiteInv /\ ServersInv /\ [Next]_vars => ServersInv'
  <2> SUFFICES ASSUME SuiteInv, ServersInv, [Next]_vars PROVE ServersInv'
    OBVIOUS
  <2> USE DEF SuiteInv, Types, MainTypes, ServersInv, Around
  <2>1. CASE \E c \in Clones : CloneStep(c)
    BY <2>1 DEF CloneStep, Rendered, RenderError, NestedError, NestedNone, NestedCall, NestedReturn,
                CaseError, BeginCase, Answer, EndCase, CountSuccess, Exit, mainVars, serverVars
  <2>2. CASE StartSmtp \/ StartHttp \/ StopHttp \/ StopSmtp \/ Listen \/ Vacate \/ Release
    BY <2>2 DEF StartSmtp, StartHttp, StopHttp, StopSmtp, Listen, Vacate, Release, mainVars
  <2>3. CASE AwaitSmtp \/ AwaitHttp
    <3>1. CASE AwaitSmtp
      <4>1. conf.smtp => Around("smtp")
        BY <3>1 DEF AwaitSmtp, Accepts
      <4>2. pc' = "startHttp" /\ http = "off" /\ UNCHANGED <<mainVars, serverVars>>
        BY <3>1 DEF AwaitSmtp
      <4>3. QED
        BY <4>1, <4>2 DEF mainVars, serverVars
    <3>2. CASE AwaitHttp
      <4>1. (conf.smtp => Around("smtp")) /\ (conf.http # "none" => Around("http"))
        BY <3>2 DEF AwaitHttp, Accepts
      <4>2. pc' = "next" /\ UNCHANGED <<mainVars, serverVars>>
        BY <3>2 DEF AwaitHttp
      <4>3. QED
        BY <4>1, <4>2 DEF mainVars, serverVars
    <3>3. QED
      BY <2>3, <3>1, <3>2
  <2>4. CASE NextTest \/ LoadError \/ Spawn \/ Wait \/ LeaveTest \/ LastTest \/ LeaveSuite \/ Fatal
             \/ Interrupt \/ UNCHANGED vars
    BY <2>4 DEF NextTest, LoadError, Spawn, Wait, LeaveTest, LastTest, LeaveSuite, Fatal, Interrupt,
                BeginStop, vars, mainVars, serverVars
  <2>5. QED
    BY <2>1, <2>2, <2>3, <2>4 DEF Next, SuiteStep, MainStep, Ended
<1>3. ServersInv => ServersAround
  BY DEF ServersInv, ServersAround, Around
<1>4. QED
  BY <1>1, <1>2, <1>3, SuiteInvariant, PTL DEF Spec

(* The response list never shrinks, and no step changes an entry before the
   last one. *)
THEOREM Suite_EarlierResponsesStable == Spec => EarlierResponsesStable
<1>1. SuiteInv /\ [Next]_vars =>
        [/\ Len(log') >= Len(log)
         /\ \A i \in 1 .. Len(log) - 1 : log'[i] = log[i]]_log
  <2> SUFFICES ASSUME SuiteInv, [Next]_vars, log' # log
               PROVE  /\ Len(log') >= Len(log)
                      /\ \A i \in 1 .. Len(log) - 1 : log'[i] = log[i]
    OBVIOUS
  <2>1. PICK c \in Clones : Answer(c)
    BY DEF Next, SuiteStep, MainStep, CloneStep, Ended, vars, history, StartSmtp, AwaitSmtp,
           StartHttp, AwaitHttp, NextTest, LoadError, Spawn, Wait, LeaveTest, LastTest, LeaveSuite,
           StopHttp, StopSmtp, Listen, Fatal, Interrupt, Vacate, Release, BeginStop, Rendered,
           RenderError, NestedError,
           NestedNone, NestedCall, NestedReturn, CaseError, BeginCase, EndCase, CountSuccess, Exit
  <2> DEFINE a == CaseAnswer(c, polls[c] + 1)
  <2>2. log \in Seq([case: Nat, poll: Nat]) /\ a \in [case: Nat, poll: Nat]
    <3>1. elem[c] \in Nat /\ polls[c] + 1 \in Nat
      BY BoundsAssumption DEF SuiteInv, Types, CloneTypes, ReportTypes
    <3>2. QED
      BY <3>1 DEF CaseAnswer, SuiteInv, Types, CloneTypes
  <2>3. log' = Append(log, a) \/ log' = [log EXCEPT ![Len(log)] = a]
    BY <2>1 DEF Answer, StoreAnswer
  <2> HIDE DEF a
  <2>4. CASE log' = Append(log, a)
    BY <2>2, <2>4, AppendProperties
  <2>5. CASE log' = [log EXCEPT ![Len(log)] = a] /\ Len(log) \in 1 .. Len(log)
    BY <2>2, <2>5, ExceptSeq
  <2>6. CASE log' = [log EXCEPT ![Len(log)] = a] /\ Len(log) \notin 1 .. Len(log)
    <3>1. log = << >> /\ Len(log) = 0
      BY <2>2, <2>6, EmptySeq
    <3>2. [<< >> EXCEPT ![0] = a] = << >>
      OBVIOUS
    <3>3. QED
      BY <2>6, <3>1, <3>2
  <2>7. QED
    BY <2>3, <2>4, <2>5, <2>6
<1>2. QED
  BY <1>1, SuiteInvariant, PTL DEF Spec, EarlierResponsesStable

(***************************************************************************)
(* One slot of the response list per case that received an answer          *)
(***************************************************************************)

InCase(c) == cpc[c] = "case"
Finished  == {a.case : a \in final}
Answered  == {elem[c] : c \in {d \in Clones : cpc[d] = "case" /\ polls[d] > 0}}
Slots     == Finished \cup Answered

(* Every case has a report element of its own, which names its slot. *)
SlotInv ==
  /\ Finished \subseteq DOMAIN rep
  /\ \A c \in Clones : InCase(c) => elem[c] \notin Finished
  /\ \A c, d \in Clones : InCase(c) /\ InCase(d) /\ elem[c] = elem[d] => c = d
  /\ IsFiniteSet(Slots) /\ Len(log) = Cardinality(Slots)

(* No step takes an element out of the report. *)
LEMMA RepGrows ==
  ASSUME SuiteInv, [Next]_vars
  PROVE  DOMAIN rep \subseteq DOMAIN rep'
<1> USE DEF SuiteInv, Types, MainTypes, ReportTypes
<1>1. CASE NextTest
  BY <1>1, NewChildType DEF NextTest
<1>2. CASE LeaveTest \/ LeaveSuite
  <2>1. \/ rep' = Leave(rep, child, result)
        \/ rep' = Leave(rep, suiteElem, success)
    BY <1>2 DEF LeaveTest, LeaveSuite
  <2>2. /\ DOMAIN Leave(rep, child, result) = DOMAIN rep
        /\ DOMAIN Leave(rep, suiteElem, success) = DOMAIN rep
    BY LeaveType, Zenon
  <2>3. QED
    BY <2>1, <2>2
<1>3. ASSUME NEW c \in Clones, BeginCase(c)
      PROVE  DOMAIN rep \subseteq DOMAIN rep'
  BY <1>3, NewChildType DEF BeginCase
<1>4. ASSUME NEW c \in Clones, NEW ok \in BOOLEAN, EndCase(c, ok)
      PROVE  DOMAIN rep \subseteq DOMAIN rep'
  BY <1>4, LeaveType DEF EndCase
<1>5. CASE UNCHANGED rep
  BY <1>5
<1>6. QED
  BY <1>1, <1>2, <1>3, <1>4, <1>5
     DEF Next, SuiteStep, MainStep, CloneStep, Ended, vars, StartSmtp, AwaitSmtp, StartHttp,
         AwaitHttp, LoadError, Spawn, Wait, LastTest, StopHttp, StopSmtp, Listen, Fatal, Interrupt,
         Vacate, Release, BeginStop,
         Rendered, RenderError, NestedError, NestedNone, NestedCall, NestedReturn, CaseError,
         Answer,
         CountSuccess, Exit

(* Each step keeps one slot of the response list per answered case. *)
LEMMA SlotStep ==
  ASSUME SuiteInv, SlotInv, [Next]_vars
  PROVE  SlotInv'
<1> USE DEF SuiteInv, Types, CloneTypes, ReportTypes
<1>1. DOMAIN rep \subseteq DOMAIN rep'
  BY RepGrows
<1>2. ASSUME NEW c \in Clones, BeginCase(c)
      PROVE  SlotInv'
  <2>1. /\ elem' = [elem EXCEPT ![c] = Newest(rep')] /\ polls' = [polls EXCEPT ![c] = 0]
        /\ cpc' = [cpc EXCEPT ![c] = "case"] /\ cpc[c] = "item"
        /\ UNCHANGED <<log, final>>
    BY <1>2 DEF BeginCase, AtItem, history
  <2>2. Newest(rep') \notin DOMAIN rep
    <3>1. NewElement(child) \in ReportElement
      <4>1. child \in Nat
        BY LenProperties
      <4>2. QED
        BY <4>1 DEF NewElement, ReportElement
    <3>2. rep' = Append(rep, NewElement(child))
      BY <1>2 DEF BeginCase, NewChild
    <3>3. QED
      BY <3>1, <3>2, AppendProperties, LenProperties DEF Newest
  <2>3. Finished' = Finished /\ Answered' = Answered
    BY <2>1 DEF Finished, Answered
  <2>4. Slots' = Slots
    BY <2>3 DEF Slots
  <2>5. QED
    BY <1>1, <2>1, <2>2, <2>3, <2>4 DEF SlotInv, InCase
<1>3. ASSUME NEW c \in Clones, Answer(c)
      PROVE  SlotInv'
  <2>1. /\ polls' = [polls EXCEPT ![c] = @ + 1] /\ cpc[c] = "case"
        /\ UNCHANGED <<cpc, elem, final, rep>>
    BY <1>3 DEF Answer, history
  <2>2. polls[c] \in Nat
    BY BoundsAssumption
  <2>3. Finished' = Finished /\ Answered' = Answered \cup {elem[c]}
    BY <2>1, <2>2 DEF Finished, Answered
  <2>4. Slots' = Slots \cup {elem[c]}
    BY <2>3 DEF Slots
  <2>5. CaseAnswer(c, polls[c] + 1) \in [case: Nat, poll: Nat]
    BY <2>2 DEF CaseAnswer
  <2>6. CASE polls[c] = 0
    <3>1. elem[c] \notin Slots
      BY <2>1, <2>6 DEF SlotInv, InCase, Slots, Answered
    <3>2. Len(log') = Len(log) + 1
      BY <1>3, <2>5, <2>6, AppendProperties DEF Answer, StoreAnswer
    <3>3. IsFiniteSet(Slots') /\ Len(log') = Cardinality(Slots')
      <4>1. IsFiniteSet(Slots) /\ Len(log) = Cardinality(Slots)
        BY DEF SlotInv
      <4>2. /\ IsFiniteSet(Slots \cup {elem[c]})
            /\ Cardinality(Slots \cup {elem[c]}) = Cardinality(Slots) + 1
        BY <3>1, <4>1, FS_AddElement
      <4>3. QED
        BY <2>4, <3>2, <4>1, <4>2
    <3>4. QED
      BY <2>1, <2>3, <3>3 DEF SlotInv, InCase
  <2>7. CASE polls[c] # 0
    <3>1. elem[c] \in Slots
      BY <2>1, <2>2, <2>7 DEF Slots, Answered
    <3>2. Len(log) \in 1 .. Len(log)
      BY <3>1, FS_EmptySet DEF SlotInv
    <3>3. Len(log') = Len(log)
      BY <1>3, <2>5, <2>7, <3>2, ExceptSeq DEF Answer, StoreAnswer
    <3>4. Slots' = Slots
      BY <2>4, <3>1
    <3>5. QED
      BY <2>1, <2>3, <3>3, <3>4 DEF SlotInv, InCase
  <2>8. QED
    BY <2>6, <2>7
<1>4. ASSUME NEW c \in Clones, NEW ok \in BOOLEAN, EndCase(c, ok)
      PROVE  SlotInv'
  <2>1. /\ cpc[c] = "case" /\ cpc' \in [Clones -> CpcType] /\ cpc'[c] # "case"
        /\ \A d \in Clones : d # c => cpc'[d] = cpc[d]
        /\ UNCHANGED <<elem, polls, log>>
    BY <1>4 DEF EndCase, GiveUp, CpcType
  <2>2. CASE polls[c] > 0
    <3>1. final' = final \cup {CaseAnswer(c, polls[c])}
      BY <1>4, <2>2 DEF EndCase
    <3>2. Finished' = Finished \cup {elem[c]}
      <4>1. CaseAnswer(c, polls[c]).case = elem[c]
        BY DEF CaseAnswer
      <4>2. QED
        BY <3>1, <4>1, Zenon DEF Finished
    <3>3. Answered = Answered' \cup {elem[c]}
      BY <2>1, <2>2 DEF Answered
    <3>4. Slots' = Slots
      BY <3>2, <3>3 DEF Slots
    <3>5. QED
      BY <1>1, <2>1, <3>2, <3>4 DEF SlotInv, InCase
  <2>3. CASE ~(polls[c] > 0)
    <3>1. final' = final
      BY <1>4, <2>3 DEF EndCase
    <3>2. Finished' = Finished /\ Answered' = Answered
      BY <2>1, <2>3, <3>1 DEF Finished, Answered
    <3>3. Slots' = Slots
      BY <3>2 DEF Slots
    <3>4. QED
      BY <1>1, <2>1, <3>2, <3>3 DEF SlotInv, InCase
  <2>4. QED
    BY <2>2, <2>3
<1>5. CASE /\ UNCHANGED <<elem, polls, log, final>>
           /\ \A c \in Clones : cpc'[c] = "case" <=> cpc[c] = "case"
  <2>1. Finished' = Finished /\ Answered' = Answered
    BY <1>5 DEF Finished, Answered
  <2>2. Slots' = Slots
    BY <2>1 DEF Slots
  <2>3. QED
    BY <1>1, <1>5, <2>1, <2>2 DEF SlotInv, InCase
<1>6. CASE Spawn
  <2>1. /\ UNCHANGED <<elem, polls, log, final>>
        /\ \A c \in Clones : cpc'[c] # "case"
    BY <1>6 DEF Spawn, history
  <2>2. \A c \in Clones : cpc[c] # "case"
    BY <1>6 DEF Spawn, Stage, Working, Busy
  <2>3. QED
    BY <1>5, <2>1, <2>2
<1>7. ASSUME NEW c \in Clones,
             \/ Rendered(c) \/ RenderError(c) \/ NestedError(c) \/ NestedNone(c) \/ NestedCall(c)
             \/ NestedReturn(c) \/ CaseError(c) \/ CountSuccess(c) \/ Exit(c)
      PROVE  SlotInv'
  <2>1. /\ UNCHANGED <<elem, polls, log, final>>
        /\ \A d \in Clones : cpc'[d] = "case" <=> cpc[d] = "case"
    BY <1>7 DEF Rendered, RenderError, NestedError, NestedNone, NestedCall, NestedReturn, CaseError,
                CountSuccess, Exit, GiveUp, AtItem, history
  <2>2. QED
    BY <1>5, <2>1
<1>8. CASE UNCHANGED <<cloneVars, log, final>>
  BY <1>5, <1>8 DEF cloneVars
<1>9. QED
  BY <1>2, <1>3, <1>4, <1>6, <1>7, <1>8
     DEF Next, SuiteStep, MainStep, CloneStep, Ended, vars, history, StartSmtp, AwaitSmtp,
         StartHttp,
         AwaitHttp, NextTest, LoadError, Wait, LeaveTest, LastTest, LeaveSuite, StopHttp, StopSmtp,
         Listen, Fatal, Interrupt, Vacate, Release, BeginStop

(* The response list has one slot per case that received an answer, however
   the clones interleave: an update always finds an entry to overwrite. *)
THEOREM Suite_SlotPerCase == Spec => []SlotPerCase
<1>1. Init => SlotInv
  <2>1. ASSUME Init PROVE Finished = {} /\ Answered = {} /\ log = << >>
    BY <2>1 DEF Init, Finished, Answered
  <2>2. ASSUME Init PROVE Slots = {}
    BY <2>1, <2>2 DEF Slots
  <2>3. QED
    BY <2>1, <2>2, FS_EmptySet, EmptySeq DEF SlotInv, InCase, Init
<1>2. SuiteInv /\ SlotInv /\ [Next]_vars => SlotInv'
  BY SlotStep
<1>3. SlotInv => SlotPerCase
  BY DEF SlotInv, SlotPerCase, Slots, Finished, Answered
<1>4. QED
  BY <1>1, <1>2, <1>3, SuiteInvariant, PTL DEF Spec

=============================================================================
