---------------------------- MODULE CaseProtocol ----------------------------
(***************************************************************************)
(* What a test case promises to the suite that runs it: it leaves at most  *)
(* one entry in the datastore's response list, overwriting only that       *)
(* entry, and the success it ends with is a statement about the entry.     *)
(* TestCase implements this; Suite composes cases that follow it.          *)
(***************************************************************************)
EXTENDS Sequences

CONSTANTS Responses, CaseSpecs

VARIABLES
  spec,     \* the case: hasRequest, expect and reverse matter here
  phase,    \* "running" or "done"
  entry,    \* the response list entry of the case: << >> or <<r>>
  success   \* the result, once phase = "done"

abstractVars == <<spec, phase, entry, success>>

CaseInit ==
  /\ spec \in CaseSpecs
  /\ phase = "running"
  /\ entry = << >>
  /\ success = FALSE

(* The first answer is appended, every later one replaces it. *)
Answer(r) ==
  /\ phase = "running"
  /\ spec.hasRequest
  /\ entry' = <<r>>
  /\ UNCHANGED <<spec, phase, success>>

(* A case that sends a request succeeds (before reversal) only if the answer
   it leaves behind is an expected one. *)
Finish(s) ==
  /\ phase = "running"
  /\ spec.hasRequest /\ s # spec.reverse =>
       entry # << >> /\ entry[1] \in spec.expect
  /\ phase' = "done"
  /\ success' = s
  /\ UNCHANGED <<spec, entry>>

CaseNext == (\E r \in Responses : Answer(r)) \/ (\E s \in BOOLEAN : Finish(s))

CaseProtocolSpec == CaseInit /\ [][CaseNext]_abstractVars
=============================================================================
