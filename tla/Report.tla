------------------------------- MODULE Report -------------------------------
(***************************************************************************)
(* The report tree of pkg/lib/report/report.go, as operators.              *)
(*                                                                         *)
(* A report is the sequence of its elements in the order they were         *)
(* created; element 1 is the root and every element names its parent.      *)
(* Names, log lines and times are left out: no property is about them.     *)
(***************************************************************************)
EXTENDS Integers, Sequences, SequencesExt

ReportElement == [parent: Nat, tests: Nat, fails: Nat]

NewElement(p) == [parent |-> p, tests |-> 0, fails |-> 0]

NewReport == <<NewElement(0)>>

Root == 1

(* len(r.SubTests) > 0 *)
HasSubTests(rep, e) == \E i \in DOMAIN rep : rep[i].parent = e

(* ReportElement.NewChild, under the report's mutex; the new element is the
   last one. *)
NewChild(rep, e) == Append(rep, NewElement(e))

Newest(rep) == Len(rep)

(* ReportElement.Leave, under the element's mutex: only an element without
   sub tests counts as a test. *)
Leave(rep, e, ok) ==
  [rep EXCEPT ![e].tests = IF HasSubTests(rep, e) THEN @ ELSE @ + 1,
              ![e].fails = IF ok THEN @ ELSE @ + 1]

(* What is under e has been settled: its totals go to its parent. *)
AddToParent(rep, e) ==
  [rep EXCEPT ![rep[e].parent].tests = @ + rep[e].tests,
              ![rep[e].parent].fails = @ + rep[e].fails]

(* ReportElement.getTestResult on the root.  It adds the totals of the sub
   tests to each element in place; children are younger than their parent,
   so the youngest element is settled first. *)
getTestResult(rep) ==
  LET settled[n \in 0 .. Len(rep) - 1] ==
        IF n = 0 THEN rep ELSE AddToParent(settled[n - 1], Len(rep) + 1 - n)
  IN  settled[Len(rep) - 1]

(* report.DidFail: what decides the exit code. *)
DidFail(rep) == getTestResult(rep)[Root].fails > 0

(* Some element was left with a failure. *)
SomeFailure(rep) == \E i \in DOMAIN rep : rep[i].fails > 0
=============================================================================
