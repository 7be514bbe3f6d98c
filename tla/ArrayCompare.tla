---------------------------- MODULE ArrayCompare ----------------------------
(***************************************************************************)
(* Comparing an expected with an actual array: arrayComparison of          *)
(* pkg/lib/compare/comparison_functions.go.                                *)
(*                                                                         *)
(* Each element of the left (expected) array looks for a partner in the    *)
(* right (actual) one: with order_matters behind the partner of the        *)
(* element before it, else anywhere but at a taken position; the first fit *)
(* is kept.  What JsonEqual says of two elements is given here, as the     *)
(* pairs that match and the pairs it returns an error for.  Indexes count  *)
(* from 0, as in the code.                                                 *)
(***************************************************************************)
EXTENDS Integers, FiniteSets

(* What arrayComparison is called with: the lengths, the two controls it looks
   at, and what JsonEqual says of the elements. *)
Problem ==
  {p \in [left: Nat, right: Nat, orderMatters: BOOLEAN, noExtra: BOOLEAN,
          match: SUBSET (Nat \X Nat), bad: SUBSET (Nat \X Nat)] :
     p.match \cap p.bad = {}}

VARIABLES
  prob,          \* the arguments
  pc,            \* "begin", "loop", "extra" or "done"
  lk,            \* index of the left element that comes next
  last,          \* lastPositionFromLeftInRight
  takenInRight,
  equal,         \* res.Equal
  failed,        \* err # nil
  at             \* history: where each left element found its partner

vars == <<prob, pc, lk, last, takenInRight, equal, failed, at>>

Left  == 0 .. prob.left - 1
Right == 0 .. prob.right - 1

Init ==
  /\ prob \in Problem
  /\ pc = "begin"
  /\ lk = 0
  /\ last = -1
  /\ takenInRight = {}
  /\ equal = TRUE
  /\ failed = FALSE
  /\ at = [i \in {} |-> 0]

(* More is expected than there is. *)
TooLong ==
  /\ pc = "begin"
  /\ prob.left > prob.right
  /\ equal' = FALSE
  /\ pc' = "done"
  /\ UNCHANGED <<prob, lk, last, takenInRight, failed, at>>

Begin ==
  /\ pc = "begin"
  /\ prob.left <= prob.right
  /\ pc' = "loop"
  /\ UNCHANGED <<prob, lk, last, takenInRight, equal, failed, at>>

(* Where the element lk may find its partner.  Mutant: the position of the
   last partner may be used again. *)
Candidates_LastAgain ==
  {rk \in Right : IF prob.orderMatters THEN rk >= last ELSE rk \notin takenInRight}

Candidates ==
  {rk \in Right : IF prob.orderMatters THEN rk > last ELSE rk \notin takenInRight}

(* Where the search of lk ends: the first candidate that matches or leads to
   an error. *)
Hits == {rk \in Candidates : <<lk, rk>> \in prob.match \cup prob.bad}

(* Mutant: the last fit is kept. *)
FirstHit_Last(rk) == rk \in Hits /\ \A other \in Hits : other <= rk

FirstHit(rk) == rk \in Hits /\ \A other \in Hits : rk <= other

(* Mutant: in both modes the position in the left array is marked. *)
Take_MarksLeft(rk) ==
  /\ takenInRight' = takenInRight \cup {lk}
  /\ last' = IF prob.orderMatters THEN rk ELSE last

(* With order_matters it is the position in the left array that is marked as
   taken. *)
Take(rk) ==
  /\ takenInRight' = takenInRight \cup {IF prob.orderMatters THEN lk ELSE rk}
  /\ last' = IF prob.orderMatters THEN rk ELSE last

Found ==
  /\ pc = "loop" /\ lk < prob.left
  /\ \E rk \in Right :
       /\ FirstHit(rk)
       /\ <<lk, rk>> \in prob.match
       /\ Take(rk)
       /\ at' = [i \in DOMAIN at \cup {lk} |-> IF i = lk THEN rk ELSE at[i]]
  /\ lk' = lk + 1
  /\ UNCHANGED <<prob, pc, equal, failed>>

NotFound ==
  /\ pc = "loop" /\ lk < prob.left
  /\ Hits = {}
  /\ equal' = FALSE
  /\ lk' = lk + 1
  /\ UNCHANGED <<prob, pc, last, takenInRight, failed, at>>

(* JsonEqual fails, and with it the comparison; the result is empty. *)
Error ==
  /\ pc = "loop" /\ lk < prob.left
  /\ \E rk \in Right : FirstHit(rk) /\ <<lk, rk>> \in prob.bad
  /\ equal' = FALSE
  /\ failed' = TRUE
  /\ pc' = "done"
  /\ UNCHANGED <<prob, lk, last, takenInRight, at>>

EndLoop ==
  /\ pc = "loop" /\ lk = prob.left
  /\ pc' = "extra"
  /\ UNCHANGED <<prob, lk, last, takenInRight, equal, failed, at>>

(* no_extra: every position of the right array must have been taken. *)
Extra ==
  /\ pc = "extra"
  /\ equal' = (equal /\ (prob.noExtra => Right \subseteq takenInRight))
  /\ pc' = "done"
  /\ UNCHANGED <<prob, lk, last, takenInRight, failed, at>>

Done == pc = "done" /\ UNCHANGED vars

Next ==
  \/ TooLong \/ Begin \/ Found \/ NotFound \/ Error \/ EndLoop \/ Extra
  \/ Done

Spec == Init /\ [][Next]_vars

(***************************************************************************)
(* The comparison in one go, for JsonCompare                               *)
(***************************************************************************)

(* Where element i finds its partner if those before it have theirs, -1 for
   nowhere. *)
FirstFit(p, before, i) ==
  LET hits == {rk \in 0 .. p.right - 1 :
                 /\ <<i, rk>> \in p.match \cup p.bad
                 /\ \A j \in DOMAIN before : IF p.orderMatters THEN rk > before[j]
                                                               ELSE rk # before[j]}
  IN  IF hits = {} THEN -1 ELSE CHOOSE rk \in hits : \A other \in hits : rk <= other

Partners(p) ==
  LET partner[i \in 0 .. p.left - 1] == FirstFit(p, [j \in 0 .. i - 1 |-> partner[j]], i)
  IN  partner

arrayComparison(p) ==
  LET partner == Partners(p) IN
  IF p.left > p.right THEN "unequal"
  ELSE IF \E i \in DOMAIN partner : <<i, partner[i]>> \in p.bad THEN "error"
  ELSE IF (\E i \in DOMAIN partner : partner[i] = -1) \/ (p.noExtra /\ p.left # p.right)
         THEN "unequal"
  ELSE "equal"

(***************************************************************************)
(* Properties                                                              *)
(***************************************************************************)

(* Every variable of the comparison keeps its type. *)
TypeOK ==
  /\ prob \in Problem
  /\ pc \in {"begin", "loop", "extra", "done"}
  /\ lk \in 0 .. prob.left
  /\ last \in -1 .. prob.right - 1
  /\ takenInRight \subseteq Nat
  /\ equal \in BOOLEAN /\ failed \in BOOLEAN
  /\ DOMAIN at \subseteq Left
  /\ \A i \in DOMAIN at : at[i] \in Right

Matches(g) ==
  /\ \A i \in Left : <<i, g[i]>> \in prob.match
  /\ \A i, j \in Left : i # j => g[i] # g[j]

Ascending(g) == \A i, j \in Left : i < j => g[i] < g[j]

(* comparison_functions.go:383-458: two arrays pass as equal only if every
   expected element has a partner of its own; with order_matters the partners
   are in the same order, and with no_extra nothing else is in the actual
   array, although the marks that no_extra looks at are positions in the left
   array if order_matters is set. *)
EqualMeansMatched ==
  pc = "done" /\ equal =>
    /\ at \in [Left -> Right] /\ Matches(at)
    /\ prob.orderMatters => Ascending(at)
    /\ prob.noExtra => prob.left = prob.right /\ \A rk \in Right : \E i \in Left : at[i] = rk

(* comparison_functions.go:383: taking the first fit never costs a match if
   the order matters: the arrays are equal whenever any partners in order
   exist (and, with no_extra, the lengths agree). *)
OrderedComplete ==
  pc = "done" /\ prob.orderMatters /\ ~failed /\ (prob.noExtra => prob.left = prob.right) =>
    \A g \in [Left -> Right] : Matches(g) /\ Ascending(g) => equal

(* Elements that match a common partner match the same partners: as values
   without controls and missing keys do. *)
Uniform ==
  \A i, j \in Left, r, q \in Right :
    <<i, r>> \in prob.match /\ <<j, r>> \in prob.match /\ <<j, q>> \in prob.match
      => <<i, q>> \in prob.match

(* comparison_functions.go:408: without order_matters the first fit may be the
   wrong one, as it is never given back, and then the verdict depends on the
   order of the actual array; not so if the elements are alike enough. *)
UnorderedComplete ==
  pc = "done" /\ ~prob.orderMatters /\ ~failed /\ (prob.noExtra => prob.left = prob.right) /\ Uniform =>
    \A g \in [Left -> Right] : Matches(g) => equal

(* Both of them: what passes does not depend on taking the first fit. *)
FirstFitComplete == OrderedComplete /\ UnorderedComplete

(* comparison_functions.go:379-458: the loops, with their marks and the
   lastPosition that they carry along, come to the verdict that nested arrays
   are given; so what holds of the one holds at every depth. *)
LoopsAgree ==
  pc = "done" => LET v == arrayComparison(prob)
                 IN  equal = (v = "equal") /\ failed = (v = "error")
=============================================================================
