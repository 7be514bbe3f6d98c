---------------------------- MODULE ReportFormats ----------------------------
(***************************************************************************)
(* What a report file says of the report tree: parsing_functions.go of     *)
(* pkg/lib/report.  The JSON report is the tree itself.  Times are given   *)
(* by who asks for the statistics; names and the wording of messages are   *)
(* left out.                                                               *)
(***************************************************************************)
EXTENDS Report

(* The sum of f over those of 1 .. n where it is defined. *)
Total(f, n) ==
  LET upto[i \in 0 .. n] ==
        IF i = 0 THEN 0 ELSE upto[i - 1] + IF i \in DOMAIN f THEN f[i] ELSE 0
  IN  upto[n]

SubTests(rep, e) == {i \in DOMAIN rep : rep[i].parent = e}

(* Mutant: the sub tests of sub tests are left out. *)
Flat_OneLevel(rep, e) == SubTests(rep, e)

(* reportElements.Flat of the sub tests of e. *)
Flat(rep, e) ==
  LET under[i \in DOMAIN rep] == i > e /\ (rep[i].parent = e \/ under[rep[i].parent])
  IN  {i \in DOMAIN rep : under[i]}

(* getLog: whether there is a line in the log of e or of what is under it;
   logged are the elements that have one. *)
HasLog(rep, logged, e) == (Flat(rep, e) \cup {e}) \cap logged # {}

(* A suite for each sub test of the root, with a testcase for everything under
   it, which is marked as failed only if there is a message. *)
parseJUnitResult(rep, logged) ==
  LET suite(e) == [tests |-> rep[e].tests, failures |-> rep[e].fails,
                   testcases |-> [i \in Flat(rep, e) |->
                                    rep[i].fails > 0 /\ HasLog(rep, logged, i)]]
  IN  [tests |-> rep[Root].tests, failures |-> rep[Root].fails,
       suites |-> [e \in SubTests(rep, Root) |-> suite(e)]]

(* Mutant: the manifests are taken in the order they ran. *)
Slowest_AsRun(times, left) == CHOOSE m \in left : \A o \in left : m <= o

(* sort.SliceStable by falling ExecutionTime: the first of those left. *)
Slowest(times, left) ==
  CHOOSE m \in left : \A o \in left : times[o] < times[m] \/ (times[o] = times[m] /\ m <= o)

(* statsGroups.getLowestRuntimeGroup: the first of the lowest; it panics
   without groups.  No group runs for the 9999 hours it starts from. *)
getLowestRuntimeGroup(runtime) ==
  CHOOSE g \in DOMAIN runtime : \A h \in DOMAIN runtime :
    runtime[g] < runtime[h] \/ (runtime[g] = runtime[h] /\ g <= h)

(* The manifests dealt out to n groups: the group of each (0: not yet), and how
   long each group runs. *)
parseJSONStatsResult(times, n) ==
  LET Deal(s) ==
        LET m == Slowest(times, {i \in DOMAIN times : s.group[i] = 0})
            g == getLowestRuntimeGroup(s.runtime)
        IN  [group |-> [s.group EXCEPT ![m] = g], runtime |-> [s.runtime EXCEPT ![g] = @ + times[m]]]
      dealt[i \in 0 .. Len(times)] ==
        IF i = 0 THEN [group |-> [m \in DOMAIN times |-> 0], runtime |-> [g \in 1 .. n |-> 0]]
        ELSE Deal(dealt[i - 1])
  IN  dealt[Len(times)]
=============================================================================
