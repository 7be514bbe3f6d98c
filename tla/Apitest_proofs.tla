---------------------------- MODULE Apitest_proofs ----------------------------
(***************************************************************************)
(* Proofs about the process, for any manifests, any number of tests and    *)
(* cases and any order of failures.                                        *)
(*                                                                         *)
(* The report first: it is a tree whose elements are younger than their    *)
(* parents, so when the totals are added up from the youngest, a failure   *)
(* reaches the root however deep it is, adding up once more shows no       *)
(* failure that was not there, and each element gets the number of leaves  *)
(* on its branch.  Then the statistics: the slowest manifest goes to the   *)
(* shortest group.  Then the process: the invariants say when the report   *)
(* has the failures that the process has seen, and when each element was   *)
(* counted.                                                                *)
(***************************************************************************)
EXTENDS Apitest, FiniteSetTheorems, SequenceTheorems, NaturalsInduction, WellFoundedInduction, TLAPS

(***************************************************************************)
(* Recursion                                                               *)
(***************************************************************************)

(* What is true of 0, and of each number if it is of the one before, is true
   of all. *)
LEMMA Inductive ==
  ASSUME NEW T \in SUBSET Nat, 0 \in T, \A n \in T : n + 1 \in T
  PROVE  T = Nat
<1> SUFFICES ASSUME T # Nat PROVE FALSE
  OBVIOUS
<1> DEFINE R == OpToRel(<, Nat)
           U == Nat \ T
<1>1. IsWellFoundedOn(R, Nat)
  BY NatLessThanWellFounded
<1>2. \A m, n \in Nat : m < n => <<m, n>> \in R
  BY DEF OpToRel
<1> HIDE DEF R
<1>3. U \in SUBSET Nat /\ U # {}
  OBVIOUS
<1>4. PICK n \in U : \A m \in U : ~ (<<m, n>> \in R)
  BY <1>1, <1>3, WFMin
<1>5. n # 0 /\ n \in Nat /\ n - 1 \in Nat /\ n - 1 < n /\ (n - 1) + 1 = n
  BY <1>4
<1>6. n - 1 \in T
  BY <1>2, <1>4, <1>5
<1> QED
  BY <1>4, <1>5, <1>6

(* f begins with base and goes on as g says. *)
Iterates(f, S, base, top, g) ==
  f \in [0 .. top -> S] /\ f[0] = base /\ \A m \in 1 .. top : f[m] = g[<<m, f[m - 1]>>]

(* A function over 0 .. top can be given by its first value and by what follows
   from each. *)
LEMMA Iterated ==
  ASSUME NEW S, NEW base \in S, NEW top \in Nat, NEW g \in [(1 .. top) \X S -> S]
  PROVE  \E f : Iterates(f, S, base, top, g)
<1> DEFINE Is(n, f) == f \in [0 .. n -> S] /\ f[0] = base /\ \A m \in 1 .. n : f[m] = g[<<m, f[m - 1]>>]
           T == {n \in Nat : n <= top => \E f : Is(n, f)}
<1>1. 0 \in T
  <2>1. Is(0, [m \in 0 .. 0 |-> base])
    OBVIOUS
  <2> QED
    BY <2>1
<1>2. ASSUME NEW n \in T PROVE n + 1 \in T
  <2> SUFFICES ASSUME n + 1 <= top PROVE \E f : Is(n + 1, f)
    OBVIOUS
  <2>1. PICK f : Is(n, f)
    OBVIOUS
  <2> DEFINE new == [m \in 0 .. n + 1 |-> IF m = n + 1 THEN g[<<n + 1, f[n]>>] ELSE f[m]]
  <2>2. <<n + 1, f[n]>> \in (1 .. top) \X S
    BY <2>1
  <2>3. new \in [0 .. n + 1 -> S]
    BY <2>1, <2>2
  <2>4. ASSUME NEW m \in 1 .. n + 1 PROVE new[m] = g[<<m, new[m - 1]>>]
    <3>1. m - 1 \in 0 .. n + 1 /\ m - 1 # n + 1 /\ new[m - 1] = f[m - 1]
      OBVIOUS
    <3>2. m \in 0 .. n + 1 /\ (m = n + 1 => m - 1 = n) /\ (m # n + 1 => m \in 1 .. n)
      OBVIOUS
    <3> QED
      BY <2>1, <3>1, <3>2
  <2>5. new[0] = base
    BY <2>1
  <2> HIDE DEF new
  <2>6. Is(n + 1, new)
    BY <2>3, <2>4, <2>5
  <2> QED
    BY <2>6
<1> HIDE DEF Is
<1>3. top \in T
  <2>1. T \in SUBSET Nat
    OBVIOUS
  <2> HIDE DEF T
  <2> QED
    BY <1>1, <1>2, <2>1, Inductive
<1>4. PICK f : Is(top, f)
  BY <1>3
<1> QED
  BY <1>4 DEF Is, Iterates

(* What takes the same steps takes the same values. *)
LEMMA SameSteps ==
  ASSUME NEW S, NEW base, NEW top \in Nat, NEW g, NEW f, Iterates(f, S, base, top, g),
         NEW h, h[0] = base,
         \A n \in 1 .. top : h[n - 1] \in S => h[n] = g[<<n, h[n - 1]>>]
  PROVE  \A n \in 0 .. top : h[n] = f[n]
<1> DEFINE T == {n \in Nat : n <= top => h[n] = f[n]}
<1>1. /\ \A n \in 0 .. top : f[n] \in S
      /\ f[0] = base /\ \A m \in 1 .. top : f[m] = g[<<m, f[m - 1]>>]
  BY DEF Iterates
<1>2. 0 \in T
  BY <1>1
<1>3. ASSUME NEW n \in T PROVE n + 1 \in T
  <2> SUFFICES ASSUME n + 1 <= top PROVE h[n + 1] = f[n + 1]
    OBVIOUS
  <2>1. n + 1 \in 1 .. top /\ n \in 0 .. top /\ (n + 1) - 1 = n /\ h[n] = f[n]
    OBVIOUS
  <2> QED
    BY <1>1, <2>1
<1>4. T \in SUBSET Nat
  OBVIOUS
<1> HIDE DEF T
<1>5. T = Nat
  BY <1>2, <1>3, <1>4, Inductive
<1> QED
  BY <1>5 DEF T

(***************************************************************************)
(* Sums                                                                    *)
(***************************************************************************)

(* The summand of i. *)
At(f, i) == IF i \in DOMAIN f THEN f[i] ELSE 0

(* u sums up f. *)
Sums(u, f, n) ==
  /\ u[0] = 0 /\ \A i \in 0 .. n : u[i] \in Nat
  /\ \A i \in 1 .. n : u[i] = u[i - 1] + At(f, i)

(* Total is the last of the partial sums. *)
LEMMA TotalSums ==
  ASSUME NEW f, NEW n \in Nat, \A i \in 1 .. n : At(f, i) \in Nat
  PROVE  \E u : Sums(u, f, n) /\ Total(f, n) = u[n]
<1> DEFINE Next1(u, i) == IF i = 0 THEN 0 ELSE u[i - 1] + IF i \in DOMAIN f THEN f[i] ELSE 0
           Is(u) == u = [i \in 0 .. n |-> Next1(u, i)]
           g == [x \in (1 .. n) \X Nat |-> x[2] + At(f, x[1])]
<1>1. g \in [(1 .. n) \X Nat -> Nat]
  OBVIOUS
<1>2. PICK u : Iterates(u, Nat, 0, n, g)
  <2> HIDE DEF g
  <2> QED
    BY <1>1, Iterated
<1>3. /\ u \in [0 .. n -> Nat] /\ u[0] = 0
      /\ \A i \in 1 .. n : u[i] = u[i - 1] + At(f, i)
  <2>1. u \in [0 .. n -> Nat] /\ u[0] = 0 /\ \A i \in 1 .. n : u[i] = g[<<i, u[i - 1]>>]
    BY <1>2 DEF Iterates
  <2>2. ASSUME NEW i \in 1 .. n PROVE <<i, u[i - 1]>> \in (1 .. n) \X Nat
    <3>1. i - 1 \in 0 .. n
      OBVIOUS
    <3> QED
      BY <2>1, <3>1
  <2> QED
    BY <2>1, <2>2
<1>4. Is(u)
  <2>1. ASSUME NEW i \in 0 .. n PROVE u[i] = Next1(u, i)
    <3>1. i # 0 => i \in 1 .. n
      OBVIOUS
    <3> QED
      BY <1>3, <3>1 DEF At
  <2>2. u = [i \in 0 .. n |-> u[i]]
    BY <1>3
  <2> HIDE DEF Next1
  <2> QED
    BY <2>1, <2>2
<1>5. PICK h : Is(h) /\ Total(f, n) = h[n]
  <2>1. Total(f, n) = (CHOOSE h : Is(h))[n]
    BY DEF Total
  <2> HIDE DEF Is
  <2> QED
    BY <1>4, <2>1
<1>6. h[0] = 0
  BY <1>5
<1>7. ASSUME NEW i \in 1 .. n, h[i - 1] \in Nat PROVE h[i] = g[<<i, h[i - 1]>>]
  <2>1. i \in 0 .. n /\ i # 0
    OBVIOUS
  <2>2. h[i] = h[i - 1] + At(f, i)
    BY <1>5, <2>1 DEF At
  <2> QED
    BY <1>7, <2>2
<1>8. h[n] = u[n]
  <2>1. n \in 0 .. n
    OBVIOUS
  <2> HIDE DEF g, Is
  <2> QED
    BY <1>2, <1>6, <1>7, <2>1, SameSteps
<1> QED
  BY <1>3, <1>5, <1>8 DEF Sums

(* A sum changes by what one of its summands does. *)
LEMMA TotalAdds ==
  ASSUME NEW f, NEW g, NEW n \in Nat, NEW x \in 1 .. n, NEW d \in Nat,
         \A i \in 1 .. n : At(f, i) \in Nat,
         \A i \in 1 .. n : i # x => At(g, i) = At(f, i),
         At(g, x) = At(f, x) + d
  PROVE  Total(g, n) = Total(f, n) + d
<1>1. PICK u : Sums(u, f, n) /\ Total(f, n) = u[n]
  BY TotalSums
<1>a. \A i \in 1 .. n : At(g, i) \in Nat
  <2> SUFFICES ASSUME NEW i \in 1 .. n PROVE At(g, i) \in Nat
    OBVIOUS
  <2>1. CASE i = x
    BY <2>1
  <2>2. CASE i # x
    BY <2>2
  <2> QED
    BY <2>1, <2>2
<1>2. PICK w : Sums(w, g, n) /\ Total(g, n) = w[n]
  BY <1>a, TotalSums
<1> DEFINE T == {i \in Nat : i <= n => w[i] = u[i] + IF x <= i THEN d ELSE 0}
<1>3. 0 \in T
  BY <1>1, <1>2 DEF Sums
<1>4. ASSUME NEW i \in T PROVE i + 1 \in T
  <2> SUFFICES ASSUME i + 1 <= n PROVE w[i + 1] = u[i + 1] + IF x <= i + 1 THEN d ELSE 0
    OBVIOUS
  <2>1. i + 1 \in 1 .. n /\ i \in 0 .. n /\ (i + 1) - 1 = i
    OBVIOUS
  <2>2. w[i + 1] = w[i] + At(g, i + 1) /\ u[i + 1] = u[i] + At(f, i + 1)
    BY <1>1, <1>2, <2>1 DEF Sums
  <2>3. w[i] = u[i] + IF x <= i THEN d ELSE 0
    BY <2>1
  <2>4. At(g, i + 1) = IF i + 1 = x THEN At(f, i + 1) + d ELSE At(f, i + 1)
    BY <2>1
  <2>5. u[i] \in Nat /\ At(f, i + 1) \in Nat
    BY <1>1, <2>1 DEF Sums
  <2> QED
    BY <2>2, <2>3, <2>4, <2>5
<1>5. T \in SUBSET Nat
  OBVIOUS
<1> HIDE DEF T
<1>6. n \in T
  BY <1>3, <1>4, <1>5, Inductive
<1> QED
  BY <1>1, <1>2, <1>6 DEF T

(* The sum of nothing. *)
LEMMA TotalOfNothing ==
  ASSUME NEW f, NEW n \in Nat, \A i \in 1 .. n : At(f, i) = 0
  PROVE  Total(f, n) = 0
<1>1. PICK u : Sums(u, f, n) /\ Total(f, n) = u[n]
  BY TotalSums
<1> DEFINE T == {i \in Nat : i <= n => u[i] = 0}
<1>2. 0 \in T
  BY <1>1 DEF Sums
<1>3. ASSUME NEW i \in T PROVE i + 1 \in T
  <2> SUFFICES ASSUME i + 1 <= n PROVE u[i + 1] = 0
    OBVIOUS
  <2>1. i + 1 \in 1 .. n /\ (i + 1) - 1 = i
    OBVIOUS
  <2> QED
    BY <1>1, <2>1 DEF Sums
<1>4. T \in SUBSET Nat
  OBVIOUS
<1> HIDE DEF T
<1>5. n \in T
  BY <1>2, <1>3, <1>4, Inductive
<1> QED
  BY <1>1, <1>5 DEF T

(* Equal summands make equal sums. *)
LEMMA TotalSame ==
  ASSUME NEW f, NEW g, NEW n \in Nat, \A i \in 1 .. n : At(f, i) \in Nat /\ At(g, i) = At(f, i)
  PROVE  Total(g, n) = Total(f, n)
<1>1. PICK u : Sums(u, f, n) /\ Total(f, n) = u[n]
  BY TotalSums
<1>2. CASE n = 0
  <2>1. Total(f, n) = 0 /\ Total(g, n) = 0
    BY <1>2, TotalOfNothing
  <2> QED
    BY <2>1
<1>3. CASE n # 0
  <2>1. 1 \in 1 .. n /\ 0 \in Nat /\ At(f, 1) \in Nat /\ At(g, 1) = At(f, 1) + 0
    BY <1>3
  <2>2. Total(g, n) = Total(f, n) + 0
    BY <2>1, TotalAdds
  <2>3. Total(f, n) \in Nat
    BY <1>1 DEF Sums
  <2> QED
    BY <2>2, <2>3
<1> QED
  BY <1>2, <1>3

(***************************************************************************)
(* The report                                                              *)
(***************************************************************************)

(* NewChild adds an element of the right type at the end, so that every
   element stays one. *)
LEMMA NewChildType ==
  ASSUME NEW r \in Seq(ReportElement), NEW e \in DOMAIN r
  PROVE  /\ NewChild(r, e) \in Seq(ReportElement)
         /\ DOMAIN r \subseteq DOMAIN NewChild(r, e)
         /\ Newest(NewChild(r, e)) \in DOMAIN NewChild(r, e)
<1>1. NewElement(e) \in ReportElement
  BY DEF NewElement, ReportElement
<1>2. QED
  BY <1>1, AppendProperties DEF NewChild, Newest

(* Leave keeps the elements and their types. *)
LEMMA LeaveType ==
  ASSUME NEW r \in Seq(ReportElement), NEW e \in DOMAIN r, NEW ok \in BOOLEAN
  PROVE  /\ Leave(r, e, ok) \in Seq(ReportElement)
         /\ DOMAIN Leave(r, e, ok) = DOMAIN r
<1> DEFINE total == IF HasSubTests(r, e) THEN r[e].tests ELSE r[e].tests + 1
           f == IF ok THEN r[e].fails ELSE r[e].fails + 1
<1>1. r[e] \in ReportElement
  OBVIOUS
<1>2. total \in Nat /\ f \in Nat
  BY <1>1 DEF ReportElement
<1>3. Leave(r, e, ok) = [r EXCEPT ![e] = [r[e] EXCEPT !.tests = total, !.fails = f]]
  BY <1>1 DEF Leave, ReportElement
<1>4. [r[e] EXCEPT !.tests = total, !.fails = f] \in ReportElement
  BY <1>1, <1>2 DEF ReportElement
<1> HIDE DEF total, f
<1>5. QED
  BY <1>3, <1>4

(* A new report element brings no failure and hides none. *)
LEMMA NewChildFailure ==
  ASSUME NEW r \in Seq(ReportElement), NEW e \in DOMAIN r
  PROVE  SomeFailure(NewChild(r, e)) <=> SomeFailure(r)
<1>1. NewElement(e) \in ReportElement /\ NewElement(e).fails = 0
  BY DEF NewElement, ReportElement
<1>2. DOMAIN r = 1 .. Len(r) /\ DOMAIN NewChild(r, e) = 1 .. Len(r) + 1
  BY <1>1, AppendProperties, LenProperties DEF NewChild
<1>3. /\ \A i \in 1 .. Len(r) : NewChild(r, e)[i] = r[i]
      /\ NewChild(r, e)[Len(r) + 1] = NewElement(e)
  BY <1>1, AppendProperties DEF NewChild
<1>4. QED
  BY <1>1, <1>2, <1>3, LenProperties DEF SomeFailure

(* Leave records a failure and forgets none. *)
LEMMA LeaveFailure ==
  ASSUME NEW r \in Seq(ReportElement), NEW e \in DOMAIN r, NEW ok \in BOOLEAN
  PROVE  SomeFailure(Leave(r, e, ok)) <=> SomeFailure(r) \/ ~ok
<1>1. \A i \in DOMAIN r : r[i] \in ReportElement
  OBVIOUS
<1>2. DOMAIN Leave(r, e, ok) = DOMAIN r
  BY LeaveType
<1>3. \A i \in DOMAIN r : i # e => Leave(r, e, ok)[i] = r[i]
  BY DEF Leave
<1>4. Leave(r, e, ok)[e].fails = IF ok THEN r[e].fails ELSE r[e].fails + 1
  BY <1>1 DEF Leave, ReportElement
<1>5. r[e].fails \in Nat
  BY <1>1 DEF ReportElement
<1>6. QED
  BY <1>2, <1>3, <1>4, <1>5 DEF SomeFailure

(* Every element but the root is younger than its parent. *)
IsTree(r) ==
  /\ r \in Seq(ReportElement) /\ r # << >>
  /\ \A i \in 2 .. Len(r) : r[i].parent \in 1 .. i - 1

(* A tree has a root and elements of the right type. *)
LEMMA TreeElements ==
  ASSUME NEW r, IsTree(r)
  PROVE  /\ Len(r) \in Nat \ {0} /\ DOMAIN r = 1 .. Len(r) /\ 1 \in DOMAIN r
         /\ \A i \in 1 .. Len(r) : r[i] \in ReportElement /\ r[i].fails \in Nat
<1>1. Len(r) \in Nat \ {0} /\ DOMAIN r = 1 .. Len(r)
  BY EmptySeq, LenProperties DEF IsTree
<1>2. \A i \in 1 .. Len(r) : r[i] \in ReportElement
  BY ElementOfSeq DEF IsTree
<1> QED
  BY <1>1, <1>2 DEF ReportElement

(* A new element makes the tree longer. *)
LEMMA NewChildTree ==
  ASSUME NEW r, IsTree(r), NEW e \in 1 .. Len(r)
  PROVE  LET c == NewChild(r, e) IN
         /\ IsTree(c) /\ Len(c) = Len(r) + 1 /\ Newest(c) = Len(r) + 1
         /\ SomeFailure(c) <=> SomeFailure(r)
<1> DEFINE c == NewChild(r, e)
<1>1. Len(r) \in Nat \ {0} /\ DOMAIN r = 1 .. Len(r) /\ r \in Seq(ReportElement)
  BY TreeElements DEF IsTree
<1>2. NewElement(e) \in ReportElement /\ NewElement(e).parent = e
  BY <1>1 DEF NewElement, ReportElement
<1>3. /\ c \in Seq(ReportElement) /\ c # << >> /\ Len(c) = Len(r) + 1
      /\ c[Len(r) + 1] = NewElement(e) /\ \A i \in 1 .. Len(r) : c[i] = r[i]
  BY <1>1, <1>2, AppendProperties DEF NewChild
<1>4. SomeFailure(c) <=> SomeFailure(r)
  BY <1>1, NewChildFailure
<1> HIDE DEF c
<1>5. ASSUME NEW i \in 2 .. Len(c) PROVE c[i].parent \in 1 .. i - 1
  <2>1. CASE i = Len(r) + 1
    BY <1>1, <1>2, <1>3, <2>1
  <2>2. CASE i # Len(r) + 1
    <3>1. i \in 2 .. Len(r) /\ i \in 1 .. Len(r)
      BY <1>1, <1>3, <2>2
    <3> QED
      BY <1>3, <3>1 DEF IsTree
  <2> QED
    BY <2>1, <2>2
<1> QED
  BY <1>3, <1>4, <1>5 DEF IsTree, Newest, c

(* To leave an element keeps the tree. *)
LEMMA LeaveTree ==
  ASSUME NEW r, IsTree(r), NEW e \in 1 .. Len(r), NEW ok \in BOOLEAN
  PROVE  LET l == Leave(r, e, ok) IN
         /\ IsTree(l) /\ Len(l) = Len(r)
         /\ SomeFailure(l) <=> SomeFailure(r) \/ ~ok
<1> DEFINE l == Leave(r, e, ok)
<1>1. Len(r) \in Nat \ {0} /\ DOMAIN r = 1 .. Len(r) /\ r \in Seq(ReportElement)
      /\ \A i \in 1 .. Len(r) : r[i] \in ReportElement
  BY TreeElements DEF IsTree
<1>2. l \in Seq(ReportElement) /\ DOMAIN l = DOMAIN r
  BY <1>1, LeaveType
<1>3. SomeFailure(l) <=> SomeFailure(r) \/ ~ok
  BY <1>1, LeaveFailure
<1>4. \A i \in 1 .. Len(r) : l[i].parent = r[i].parent
  BY <1>1 DEF Leave, ReportElement
<1> HIDE DEF l
<1>5. Len(l) = Len(r) /\ l # << >>
  BY <1>1, <1>2, LenProperties, EmptySeq
<1> QED
  BY <1>2, <1>3, <1>4, <1>5 DEF IsTree, l

(* What is added to a parent. *)
LEMMA AddedTree ==
  ASSUME NEW r, IsTree(r), NEW e \in 2 .. Len(r)
  PROVE  LET a == AddToParent(r, e) IN
         /\ IsTree(a) /\ Len(a) = Len(r)
         /\ a[r[e].parent].fails = r[r[e].parent].fails + r[e].fails
         /\ a[r[e].parent].tests = r[r[e].parent].tests + r[e].tests
         /\ \A i \in 1 .. Len(r) : a[i].parent = r[i].parent
         /\ \A i \in 1 .. Len(r) : i # r[e].parent => a[i] = r[i]
<1> DEFINE p == r[e].parent
           total == r[p].tests + r[e].tests
           f == r[p].fails + r[e].fails
           new == [r[p] EXCEPT !.tests = total, !.fails = f]
           a == [r EXCEPT ![p] = new]
<1>1. Len(r) \in Nat \ {0} /\ DOMAIN r = 1 .. Len(r) /\ r \in Seq(ReportElement)
      /\ \A i \in 1 .. Len(r) : r[i] \in ReportElement
  BY TreeElements DEF IsTree
<1>2. p \in 1 .. Len(r) /\ e \in 1 .. Len(r)
  BY <1>1 DEF IsTree
<1>3. AddToParent(r, e) = a
  BY <1>1, <1>2 DEF AddToParent, ReportElement
<1>4. new \in ReportElement /\ new.parent = r[p].parent /\ new.fails = f /\ new.tests = total
  <2> HIDE DEF p
  <2>1. r[p] \in ReportElement /\ r[e] \in ReportElement
    BY <1>1, <1>2
  <2>2. total \in Nat /\ f \in Nat
    BY <2>1 DEF ReportElement
  <2> HIDE DEF total, f
  <2> QED
    BY <2>1, <2>2 DEF ReportElement
<1> HIDE DEF new, p
<1>5. /\ a \in Seq(ReportElement) /\ Len(a) = Len(r)
      /\ \A i \in 1 .. Len(r) : a[i] = IF i = p THEN new ELSE r[i]
  BY <1>1, <1>2, <1>4, ExceptSeq
<1> HIDE DEF a
<1>6. a # << >>
  BY <1>1, <1>5, EmptySeq
<1>7. \A i \in 1 .. Len(r) : a[i].parent = r[i].parent
  BY <1>4, <1>5
<1>8. IsTree(a)
  BY <1>5, <1>6, <1>7 DEF IsTree
<1> QED
  BY <1>2, <1>3, <1>4, <1>5, <1>7, <1>8 DEF p

(* The function that getTestResult is the last value of. *)
LEMMA Settled ==
  ASSUME NEW r, IsTree(r)
  PROVE  \E f : /\ \A n \in 0 .. Len(r) - 1 : IsTree(f[n]) /\ Len(f[n]) = Len(r)
                /\ f[0] = r
                /\ \A n \in 1 .. Len(r) - 1 : f[n] = AddToParent(f[n - 1], Len(r) + 1 - n)
                /\ getTestResult(r) = f[Len(r) - 1]
<1> DEFINE last == Len(r) - 1
           S == {a \in Seq(ReportElement) : IsTree(a) /\ Len(a) = Len(r)}
           g == [x \in (1 .. last) \X S |-> AddToParent(x[2], Len(r) + 1 - x[1])]
           Next1(f, n) == IF n = 0 THEN r ELSE AddToParent(f[n - 1], Len(r) + 1 - n)
           Is(f) == f = [n \in 0 .. last |-> Next1(f, n)]
<1>1. last \in Nat /\ Len(r) \in Nat
  BY TreeElements
<1>2. r \in S
  BY DEF IsTree
<1>3. g \in [(1 .. last) \X S -> S]
  <2>1. ASSUME NEW n \in 1 .. last, NEW a \in S PROVE AddToParent(a, Len(r) + 1 - n) \in S
    <3>1. Len(r) + 1 - n \in 2 .. Len(a)
      BY <1>1
    <3>2. IsTree(AddToParent(a, Len(r) + 1 - n)) /\ Len(AddToParent(a, Len(r) + 1 - n)) = Len(a)
      BY <3>1, AddedTree
    <3> QED
      BY <3>2 DEF IsTree
  <2> HIDE DEF S
  <2> QED
    BY <2>1
<1>a. PICK f : Iterates(f, S, r, last, g)
  <2> HIDE DEF S, g, last
  <2>1. last \in Nat
    BY <1>1
  <2> QED
    BY <1>2, <1>3, <2>1, Iterated
<1>4. f \in [0 .. last -> S] /\ f[0] = r /\ \A m \in 1 .. last : f[m] = g[<<m, f[m - 1]>>]
  BY <1>a DEF Iterates
<1>5. ASSUME NEW n \in 0 .. last, n # 0 PROVE n \in 1 .. last /\ n - 1 \in 0 .. last
  BY <1>1, <1>5
<1>6. ASSUME NEW n \in 1 .. last PROVE f[n] = AddToParent(f[n - 1], Len(r) + 1 - n)
  <2>1. n - 1 \in 0 .. last
    BY <1>1
  <2> HIDE DEF S
  <2>2. <<n, f[n - 1]>> \in (1 .. last) \X S
    BY <1>4, <2>1
  <2> QED
    BY <1>4, <2>2
<1>7. Is(f)
  <2>1. \A n \in 0 .. last : f[n] = Next1(f, n)
    BY <1>4, <1>5, <1>6
  <2>2. f = [n \in 0 .. last |-> f[n]]
    BY <1>4
  <2> HIDE DEF Next1, last, S
  <2> QED
    BY <2>1, <2>2
<1>8. PICK h : Is(h) /\ getTestResult(r) = h[last]
  <2>1. getTestResult(r) = (CHOOSE h : Is(h))[last]
    BY DEF getTestResult
  <2> HIDE DEF Is
  <2> QED
    BY <1>7, <2>1
<1>9. ASSUME NEW n \in Nat PROVE n <= last => h[n] = f[n]
  <2> DEFINE T == {m \in Nat : m <= last => h[m] = f[m]}
  <2>1. 0 \in T
    BY <1>1, <1>4, <1>8
  <2>2. ASSUME NEW m \in T PROVE m + 1 \in T
    <3> SUFFICES ASSUME m + 1 <= last PROVE h[m + 1] = f[m + 1]
      OBVIOUS
    <3>1. m + 1 \in 1 .. last /\ m + 1 \in 0 .. last /\ m + 1 # 0 /\ (m + 1) - 1 = m /\ m <= last
      BY <1>1
    <3>2. h[m + 1] = AddToParent(h[m], Len(r) + 1 - (m + 1))
      BY <1>8, <3>1
    <3>3. f[m + 1] = AddToParent(f[m], Len(r) + 1 - (m + 1))
      BY <1>6, <3>1
    <3> QED
      BY <3>1, <3>2, <3>3
  <2>3. T \in SUBSET Nat
    OBVIOUS
  <2> HIDE DEF T
  <2>4. n \in T
    BY <2>1, <2>2, <2>3, Inductive
  <2> QED
    BY <2>4 DEF T
<1>10. getTestResult(r) = f[last]
  <2>1. last \in Nat /\ last <= last
    BY <1>1
  <2> HIDE DEF last, Is
  <2>2. h[last] = f[last]
    BY <1>9, <2>1
  <2> QED
    BY <1>8, <2>2
<1>11. \A n \in 0 .. last : IsTree(f[n]) /\ Len(f[n]) = Len(r)
  BY <1>4
<1> QED
  BY <1>4, <1>6, <1>10, <1>11

(* Adding up the totals keeps the tree; a failure anywhere reaches the root, and
   none appears where there was none. *)
LEMMA Totals ==
  ASSUME NEW r, IsTree(r)
  PROVE  /\ IsTree(getTestResult(r)) /\ Len(getTestResult(r)) = Len(r)
         /\ SomeFailure(getTestResult(r)) <=> SomeFailure(r)
         /\ DidFail(r) <=> SomeFailure(r)
<1>1. PICK f : /\ \A n \in 0 .. Len(r) - 1 : IsTree(f[n]) /\ Len(f[n]) = Len(r)
               /\ f[0] = r
               /\ \A n \in 1 .. Len(r) - 1 : f[n] = AddToParent(f[n - 1], Len(r) + 1 - n)
               /\ getTestResult(r) = f[Len(r) - 1]
  BY Settled
<1> DEFINE last == Len(r) - 1
           Failing(a, m) == \E i \in 1 .. m : a[i].fails > 0
           T == {n \in Nat : n <= last =>
                   /\ Failing(f[n], Len(r)) => Failing(r, Len(r))
                   /\ Failing(r, Len(r)) => Failing(f[n], Len(r) - n)}
<1>2. last \in Nat /\ Len(r) \in Nat \ {0} /\ last \in 0 .. last
  BY TreeElements
<1>3. 0 \in T
  BY <1>1, <1>2
<1>4. ASSUME NEW n \in T PROVE n + 1 \in T
  <2> SUFFICES ASSUME n + 1 <= last
               PROVE  /\ Failing(f[n + 1], Len(r)) => Failing(r, Len(r))
                      /\ Failing(r, Len(r)) => Failing(f[n + 1], Len(r) - (n + 1))
    OBVIOUS
  <2> DEFINE e == Len(r) - n
             a == f[n]
             b == f[n + 1]
             p == a[e].parent
  <2>1. /\ n + 1 \in 1 .. last /\ n \in 0 .. last /\ (n + 1) - 1 = n /\ Len(r) + 1 - (n + 1) = e
        /\ e \in 2 .. Len(r) /\ Len(r) - (n + 1) = e - 1
    BY <1>2
  <2>2. IsTree(a) /\ Len(a) = Len(r) /\ b = AddToParent(a, e)
    BY <1>1, <2>1
  <2>3. /\ Failing(a, Len(r)) => Failing(r, Len(r))
        /\ Failing(r, Len(r)) => Failing(a, e)
    BY <2>1
  <2> HIDE DEF a, b, e
  <2>4. /\ p \in 1 .. e - 1 /\ b[p].fails = a[p].fails + a[e].fails
        /\ \A i \in 1 .. Len(r) : i # p => b[i].fails = a[i].fails
    <3>1. e \in 2 .. Len(a)
      BY <2>1, <2>2
    <3>2. p \in 1 .. e - 1
      BY <2>2, <3>1 DEF IsTree
    <3> QED
      BY <2>2, <3>1, <3>2, AddedTree
  <2>5. \A i \in 1 .. Len(r) : a[i].fails \in Nat
    BY <2>2, TreeElements
  <2> HIDE DEF p
  <2>6. p \in 1 .. Len(r) /\ e \in 1 .. Len(r) /\ p < e
    BY <1>2, <2>1, <2>4
  <2>7. ASSUME Failing(b, Len(r)) PROVE Failing(a, Len(r))
    <3>1. PICK i \in 1 .. Len(r) : b[i].fails > 0
      BY <2>7
    <3>2. CASE i = p
      <4>1. a[p].fails > 0 \/ a[e].fails > 0
        BY <2>4, <2>5, <2>6, <3>1, <3>2
      <4> QED
        BY <2>6, <4>1
    <3>3. CASE i # p
      BY <2>4, <3>1, <3>3
    <3> QED
      BY <3>2, <3>3
  <2>8. ASSUME Failing(a, e) PROVE Failing(b, e - 1)
    <3>1. PICK i \in 1 .. e : a[i].fails > 0
      BY <2>8
    <3>2. i \in 1 .. Len(r) /\ (i # e => i \in 1 .. e - 1)
      BY <1>2, <2>1, <3>1
    <3>3. CASE i = e \/ i = p
      <4>1. b[p].fails > 0
        BY <2>4, <2>5, <2>6, <3>1, <3>3
      <4> QED
        BY <2>4, <4>1
    <3>4. CASE i # e /\ i # p
      BY <2>4, <3>1, <3>2, <3>4
    <3> QED
      BY <3>3, <3>4
  <2> QED
    BY <2>1, <2>3, <2>7, <2>8 DEF b
<1>5. last \in T
  <2>1. T \in SUBSET Nat
    OBVIOUS
  <2> HIDE DEF T
  <2> QED
    BY <1>2, <1>3, <1>4, <2>1, Inductive
<1>6. IsTree(f[last]) /\ Len(f[last]) = Len(r) /\ getTestResult(r) = f[last]
  BY <1>1, <1>2
<1>7. Failing(f[last], Len(r)) => Failing(r, Len(r))
  BY <1>5
<1>8. Failing(r, Len(r)) => Failing(f[last], 1)
  <2>1. Len(r) - last = 1
    BY <1>2
  <2> QED
    BY <1>5, <2>1
<1>9. Failing(f[last], 1) <=> f[last][1].fails > 0
  OBVIOUS
<1>10. Failing(f[last], 1) => Failing(f[last], Len(r))
  BY <1>2
<1>11. /\ SomeFailure(r) <=> Failing(r, Len(r))
       /\ SomeFailure(f[last]) <=> Failing(f[last], Len(r))
  BY <1>6, TreeElements DEF SomeFailure
<1>12. DidFail(r) <=> f[last][1].fails > 0
  BY <1>6 DEF DidFail, Root
<1> HIDE DEF Failing, last
<1> QED
  BY <1>6, <1>7, <1>8, <1>9, <1>10, <1>11, <1>12

(* A case of a test leaves one more element in the tree. *)
OneCase(r, e, ok) == Leave(NewChild(r, e), Newest(r) + 1, ok)

(* The tree stays a tree, and shows the failure of the case and no other. *)
LEMMA CaseAdded ==
  ASSUME NEW r, IsTree(r), NEW e \in 1 .. Len(r), NEW ok \in BOOLEAN
  PROVE  /\ IsTree(OneCase(r, e, ok)) /\ Len(OneCase(r, e, ok)) = Len(r) + 1
         /\ SomeFailure(OneCase(r, e, ok)) <=> SomeFailure(r) \/ ~ok
<1> DEFINE c == NewChild(r, e)
           new == Len(r) + 1
<1>1. Len(r) \in Nat
  BY TreeElements
<1>2. IsTree(c) /\ Len(c) = new /\ (SomeFailure(c) <=> SomeFailure(r))
  BY NewChildTree
<1>3. OneCase(r, e, ok) = Leave(c, new, ok)
  BY DEF OneCase, Newest
<1>4. new \in 1 .. Len(c)
  BY <1>1, <1>2
<1> HIDE DEF c, new
<1>5. /\ IsTree(Leave(c, new, ok)) /\ Len(Leave(c, new, ok)) = Len(c)
      /\ SomeFailure(Leave(c, new, ok)) <=> SomeFailure(c) \/ ~ok
  BY <1>2, <1>4, LeaveTree
<1> QED
  BY <1>2, <1>3, <1>5 DEF new

(* f is the tree after each of the n cases of element e. *)
Grows(f, r, e, n, bad) ==
  /\ \A i \in 0 .. n : IsTree(f[i]) /\ e \in 1 .. Len(f[i])
  /\ f[0] = r
  /\ \A i \in 1 .. n : f[i] = OneCase(f[i - 1], e, i > bad)
  /\ WithCases(r, e, n, bad) = f[n]

(* The function that WithCases returns the last value of. *)
LEMMA Grown ==
  ASSUME NEW r, IsTree(r), NEW e \in 1 .. Len(r), NEW n \in Nat, NEW bad \in Nat
  PROVE  \E f : Grows(f, r, e, n, bad)
<1> DEFINE S == {a \in Seq(ReportElement) : IsTree(a) /\ e \in 1 .. Len(a)}
           g == [x \in (1 .. n) \X S |-> OneCase(x[2], e, x[1] > bad)]
           Case(f, i) == IF i = 0 THEN r ELSE OneCase(f[i - 1], e, i > bad)
           Is(f) == f = [i \in 0 .. n |-> Case(f, i)]
<1>1. r \in S
  BY DEF IsTree
<1>2. g \in [(1 .. n) \X S -> S]
  <2>1. ASSUME NEW i \in 1 .. n, NEW a \in S PROVE OneCase(a, e, i > bad) \in S
    <3> DEFINE ok == i > bad
    <3>1. ok \in BOOLEAN /\ Len(a) \in Nat
      BY TreeElements
    <3> HIDE DEF ok
    <3>2. IsTree(OneCase(a, e, ok)) /\ Len(OneCase(a, e, ok)) = Len(a) + 1
      BY <3>1, CaseAdded
    <3>3. OneCase(a, e, ok) \in S
      BY <3>1, <3>2 DEF IsTree
    <3> QED
      BY <3>3 DEF ok
  <2> HIDE DEF S
  <2> QED
    BY <2>1
<1>a. PICK f : Iterates(f, S, r, n, g)
  <2> HIDE DEF S, g
  <2> QED
    BY <1>1, <1>2, Iterated
<1>3. f \in [0 .. n -> S] /\ f[0] = r /\ \A m \in 1 .. n : f[m] = g[<<m, f[m - 1]>>]
  BY <1>a DEF Iterates
<1>4. ASSUME NEW i \in 1 .. n PROVE f[i] = OneCase(f[i - 1], e, i > bad)
  <2>1. i - 1 \in 0 .. n
    OBVIOUS
  <2> HIDE DEF S
  <2>2. <<i, f[i - 1]>> \in (1 .. n) \X S
    BY <1>3, <2>1
  <2> QED
    BY <1>3, <2>2
<1>5. Is(f)
  <2>1. \A i \in 0 .. n : i # 0 => i \in 1 .. n
    OBVIOUS
  <2>2. \A i \in 0 .. n : f[i] = Case(f, i)
    BY <1>3, <1>4, <2>1
  <2>3. f = [i \in 0 .. n |-> f[i]]
    BY <1>3
  <2> HIDE DEF Case, S
  <2> QED
    BY <2>2, <2>3
<1>6. PICK h : Is(h) /\ WithCases(r, e, n, bad) = h[n]
  <2>1. WithCases(r, e, n, bad) = (CHOOSE h : Is(h))[n]
    BY DEF WithCases, OneCase
  <2> HIDE DEF Is
  <2> QED
    BY <1>5, <2>1
<1>7. h[n] = f[n]
  <2> DEFINE T == {m \in Nat : m <= n => h[m] = f[m]}
  <2>1. 0 \in T
    BY <1>3, <1>6
  <2>2. ASSUME NEW m \in T PROVE m + 1 \in T
    <3> SUFFICES ASSUME m + 1 <= n PROVE h[m + 1] = f[m + 1]
      OBVIOUS
    <3>1. m + 1 \in 1 .. n /\ m + 1 \in 0 .. n /\ m + 1 # 0 /\ (m + 1) - 1 = m /\ m <= n
      OBVIOUS
    <3>2. h[m + 1] = OneCase(h[m], e, m + 1 > bad)
      BY <1>6, <3>1
    <3>3. f[m + 1] = OneCase(f[m], e, m + 1 > bad)
      BY <1>4, <3>1
    <3> QED
      BY <3>1, <3>2, <3>3
  <2>3. T \in SUBSET Nat
    OBVIOUS
  <2> HIDE DEF T
  <2>4. n \in T
    BY <2>1, <2>2, <2>3, Inductive
  <2> QED
    BY <2>4 DEF T
<1>8. \A i \in 0 .. n : IsTree(f[i]) /\ e \in 1 .. Len(f[i])
  BY <1>3
<1>9. WithCases(r, e, n, bad) = f[n]
  BY <1>6, <1>7
<1>10. Grows(f, r, e, n, bad)
  BY <1>3, <1>4, <1>8, <1>9 DEF Grows
<1> QED
  BY <1>10

(* A test with n cases of which bad fail leaves n elements in the tree, and a
   failure if bad > 0. *)
LEMMA CasesAdded ==
  ASSUME NEW r, IsTree(r), NEW e \in 1 .. Len(r), NEW n \in Nat, NEW bad \in 0 .. n
  PROVE  LET w == WithCases(r, e, n, bad) IN
         /\ IsTree(w) /\ Len(w) = Len(r) + n
         /\ SomeFailure(w) <=> SomeFailure(r) \/ bad > 0
<1>1. PICK f : Grows(f, r, e, n, bad)
  <2>1. bad \in Nat
    OBVIOUS
  <2> QED
    BY <2>1, Grown
<1> DEFINE T == {i \in Nat : i <= n =>
                   /\ Len(f[i]) = Len(r) + i
                   /\ SomeFailure(f[i]) <=> SomeFailure(r) \/ (i > 0 /\ bad > 0)}
<1>2. Len(r) \in Nat
  BY TreeElements
<1>3. 0 \in T
  BY <1>1, <1>2 DEF Grows
<1>4. ASSUME NEW i \in T PROVE i + 1 \in T
  <2> SUFFICES ASSUME i + 1 <= n
               PROVE  /\ Len(f[i + 1]) = Len(r) + (i + 1)
                      /\ SomeFailure(f[i + 1]) <=> SomeFailure(r) \/ (i + 1 > 0 /\ bad > 0)
    OBVIOUS
  <2> DEFINE ok == i + 1 > bad
  <2>1. /\ i + 1 \in 1 .. n /\ i \in 0 .. n /\ (i + 1) - 1 = i /\ i <= n /\ i \in Nat
        /\ ok \in BOOLEAN /\ i + 1 > 0
    OBVIOUS
  <2>2. ~ok => bad > 0
    BY <2>1
  <2>3. bad > 0 => ~ok \/ i > 0
    BY <2>1
  <2>4. f[i + 1] = OneCase(f[i], e, ok)
    BY <1>1, <2>1 DEF Grows
  <2>5. /\ Len(f[i]) = Len(r) + i
        /\ SomeFailure(f[i]) <=> SomeFailure(r) \/ (i > 0 /\ bad > 0)
    BY <2>1
  <2>6. IsTree(f[i]) /\ e \in 1 .. Len(f[i])
    BY <1>1, <2>1 DEF Grows
  <2> HIDE DEF ok
  <2>7. /\ Len(OneCase(f[i], e, ok)) = Len(f[i]) + 1
        /\ SomeFailure(OneCase(f[i], e, ok)) <=> SomeFailure(f[i]) \/ ~ok
    BY <2>1, <2>6, CaseAdded
  <2>8. Len(f[i + 1]) = Len(r) + (i + 1)
    BY <1>2, <2>1, <2>4, <2>5, <2>7
  <2>9. SomeFailure(f[i + 1]) <=> SomeFailure(r) \/ (i + 1 > 0 /\ bad > 0)
    BY <2>1, <2>2, <2>3, <2>4, <2>5, <2>7
  <2> QED
    BY <2>8, <2>9
<1>5. n \in T
  <2>1. T \in SUBSET Nat
    OBVIOUS
  <2> HIDE DEF T
  <2> QED
    BY <1>3, <1>4, <2>1, Inductive
<1>6. bad > 0 => n > 0
  OBVIOUS
<1>7. IsTree(f[n]) /\ WithCases(r, e, n, bad) = f[n]
  BY <1>1 DEF Grows
<1> QED
  BY <1>5, <1>6, <1>7

(***************************************************************************)
(* What is under an element                                                *)
(***************************************************************************)

(* Flat returns what has e or something under e as its parent. *)
LEMMA FlatElements ==
  ASSUME NEW r, IsTree(r), NEW e \in 1 .. Len(r)
  PROVE  /\ Flat(r, e) \subseteq 1 .. Len(r)
         /\ \A i \in 1 .. Len(r) :
              i \in Flat(r, e) <=> i > e /\ (r[i].parent = e \/ r[i].parent \in Flat(r, e))
<1> DEFINE N == Len(r)
           Under(u, i) == i > e /\ (r[i].parent = e \/ u[r[i].parent])
           Is(u) == u = [i \in DOMAIN r |-> Under(u, i)]
           Upto(u, n) == u \in [1 .. n -> BOOLEAN] /\ \A i \in 1 .. n : u[i] = Under(u, i)
           T == {n \in Nat : n <= N => \E u : Upto(u, n)}
<1>1. N \in Nat \ {0} /\ DOMAIN r = 1 .. N /\ e \in 1 .. N
  BY TreeElements
<1>2. \A i \in 1 .. N : i > e => r[i].parent \in 1 .. i - 1
  BY <1>1 DEF IsTree
<1>3. 0 \in T
  <2>1. Upto([i \in 1 .. 0 |-> TRUE], 0)
    OBVIOUS
  <2> QED
    BY <2>1
<1>4. ASSUME NEW n \in T PROVE n + 1 \in T
  <2> SUFFICES ASSUME n + 1 <= N PROVE \E u : Upto(u, n + 1)
    OBVIOUS
  <2>1. PICK u : Upto(u, n)
    BY <1>1
  <2> DEFINE w == [i \in 1 .. n + 1 |-> IF i = n + 1 THEN Under(u, n + 1) ELSE u[i]]
  <2>2. n \in Nat /\ n + 1 \in 1 .. N
    BY <1>1
  <2>3. \A i \in 1 .. n + 1 : i # n + 1 => i \in 1 .. n
    BY <2>2
  <2>4. w \in [1 .. n + 1 -> BOOLEAN]
    BY <2>1, <2>3
  <2>5. ASSUME NEW i \in 1 .. n + 1 PROVE w[i] = Under(w, i)
    <3>1. i \in 1 .. N
      BY <1>1, <2>2
    <3>2. i > e => r[i].parent \in 1 .. n /\ w[r[i].parent] = u[r[i].parent]
      <4>1. i > e => r[i].parent \in 1 .. i - 1
        BY <1>2, <3>1
      <4>2. \A j \in 1 .. i - 1 : j \in 1 .. n /\ j \in 1 .. n + 1 /\ j # n + 1
        BY <2>2
      <4> QED
        BY <4>1, <4>2
    <3>3. CASE i = n + 1
      BY <3>2, <3>3
    <3>4. CASE i # n + 1
      BY <2>1, <2>3, <3>2, <3>4
    <3> QED
      BY <3>3, <3>4
  <2> HIDE DEF w, Under
  <2>6. Upto(w, n + 1)
    BY <2>4, <2>5
  <2> QED
    BY <2>6
<1>5. PICK u : Upto(u, N)
  <2>1. T \in SUBSET Nat
    OBVIOUS
  <2> HIDE DEF T, N, Upto
  <2>2. T = Nat
    BY <1>3, <1>4, <2>1, Inductive
  <2>3. N \in T /\ N <= N
    BY <1>1, <2>2
  <2> QED
    BY <2>3 DEF T
<1>6. Is(u)
  <2>1. u = [i \in 1 .. N |-> u[i]]
    BY <1>5
  <2>2. \A i \in 1 .. N : u[i] = Under(u, i)
    BY <1>5
  <2> HIDE DEF Under, N
  <2> QED
    BY <1>1, <2>1, <2>2
<1>7. PICK h : Is(h) /\ Flat(r, e) = {i \in DOMAIN r : h[i]}
  <2>1. Flat(r, e) = {i \in DOMAIN r : (CHOOSE h : Is(h))[i]}
    BY DEF Flat
  <2> HIDE DEF Is
  <2> QED
    BY <1>6, <2>1
<1>8. \A i \in 1 .. N : h[i] <=> i > e /\ (r[i].parent = e \/ h[r[i].parent])
  BY <1>1, <1>7
<1>9. \A i \in 1 .. N : i \in Flat(r, e) <=> h[i]
  BY <1>1, <1>7
<1>10. ASSUME NEW i \in 1 .. N
       PROVE  i \in Flat(r, e) <=> i > e /\ (r[i].parent = e \/ r[i].parent \in Flat(r, e))
  <2>1. i > e => r[i].parent \in 1 .. N
    <3>1. \A j \in 1 .. i - 1 : j \in 1 .. N
      BY <1>1
    <3> QED
      BY <1>2, <3>1
  <2> QED
    BY <1>8, <1>9, <2>1
<1> QED
  BY <1>1, <1>7, <1>10

(* An element with what is under it. *)
Branch(r, e) == {e} \cup Flat(r, e)

(* What is under e is what has its parent on the branch of e. *)
LEMMA FlatBranch ==
  ASSUME NEW r, IsTree(r), NEW e \in 1 .. Len(r)
  PROVE  /\ Flat(r, e) \subseteq 2 .. Len(r) /\ Branch(r, e) \subseteq 1 .. Len(r)
         /\ \A i \in Branch(r, e) : i >= e
         /\ \A i \in 2 .. Len(r) : i \in Flat(r, e) <=> r[i].parent \in Branch(r, e)
<1>1. Len(r) \in Nat \ {0} /\ e \in 1 .. Len(r)
  BY TreeElements
<1>2. /\ Flat(r, e) \subseteq 1 .. Len(r)
      /\ \A i \in 1 .. Len(r) :
           i \in Flat(r, e) <=> i > e /\ (r[i].parent = e \/ r[i].parent \in Flat(r, e))
  BY FlatElements
<1>3. \A i \in Flat(r, e) : i > e /\ i \in 1 .. Len(r)
  BY <1>2
<1>4. Flat(r, e) \subseteq 2 .. Len(r)
  BY <1>1, <1>3
<1>5. ASSUME NEW i \in 2 .. Len(r)
      PROVE  i \in Flat(r, e) <=> r[i].parent \in Branch(r, e)
  <2>1. i \in 1 .. Len(r) /\ r[i].parent \in 1 .. i - 1
    BY <1>1 DEF IsTree
  <2>2. r[i].parent \in Branch(r, e) => i > e
    BY <1>1, <1>3, <2>1 DEF Branch
  <2> QED
    BY <1>2, <2>1, <2>2 DEF Branch
<1> QED
  BY <1>1, <1>3, <1>4, <1>5 DEF Branch

(* What is under e are the branches of its sub tests. *)
LEMMA FlatOfBranches ==
  ASSUME NEW r, IsTree(r), NEW e \in 1 .. Len(r), NEW i \in 1 .. Len(r)
  PROVE  i \in Flat(r, e) <=> \E c \in 2 .. Len(r) : r[c].parent = e /\ i \in Branch(r, c)
<1> DEFINE N == Len(r)
           Sub(j) == \E c \in 2 .. N : r[c].parent = e /\ j \in Branch(r, c)
           T == {n \in Nat : \A j \in 1 .. N : j <= n => (j \in Flat(r, e) <=> Sub(j))}
<1>1. N \in Nat \ {0} /\ \A c \in 2 .. N : c \in 1 .. N /\ r[c].parent \in 1 .. c - 1
  BY TreeElements DEF IsTree
<1>2. /\ Flat(r, e) \subseteq 2 .. N
      /\ \A j \in 2 .. N : j \in Flat(r, e) <=> r[j].parent = e \/ r[j].parent \in Flat(r, e)
  BY FlatBranch DEF Branch
<1>3. ASSUME NEW c \in 2 .. N
      PROVE  /\ Flat(r, c) \subseteq 2 .. N
             /\ \A j \in 2 .. N : j \in Flat(r, c) <=> r[j].parent \in Branch(r, c)
  BY <1>1, FlatBranch
<1>4. 0 \in T
  BY <1>1
<1>5. ASSUME NEW n \in T PROVE n + 1 \in T
  <2> SUFFICES ASSUME NEW j \in 1 .. N, j <= n + 1 PROVE j \in Flat(r, e) <=> Sub(j)
    BY <1>1
  <2>1. CASE j = 1
    <3>1. ~ (j \in Flat(r, e))
      BY <1>2, <2>1
    <3>2. ASSUME NEW c \in 2 .. N, j \in Branch(r, c) PROVE FALSE
      BY <1>3, <2>1, <3>2 DEF Branch
    <3> QED
      BY <3>1, <3>2
  <2>2. CASE j # 1
    <3> DEFINE p == r[j].parent
    <3>1. j \in 2 .. N
      BY <1>1, <2>2
    <3>2. p \in 1 .. N /\ p <= n /\ p < j
      <4>1. p \in 1 .. j - 1
        BY <1>1, <3>1
      <4> HIDE DEF p
      <4> QED
        BY <1>1, <1>5, <3>1, <4>1
    <3>3. p \in Flat(r, e) <=> Sub(p)
      BY <1>5, <3>2
    <3>4. ASSUME NEW c \in 2 .. N, r[c].parent = e
          PROVE  j \in Branch(r, c) <=> j = c \/ p \in Branch(r, c)
      BY <1>3, <3>1 DEF Branch
    <3>5. Sub(j) <=> p = e \/ Sub(p)
      BY <3>1, <3>4
    <3> QED
      BY <1>2, <3>1, <3>3, <3>5
  <2> QED
    BY <2>1, <2>2
<1>6. i \in Nat /\ i <= i
  BY <1>1
<1>7. i \in T
  <2>1. T \in SUBSET Nat
    OBVIOUS
  <2> HIDE DEF T
  <2> QED
    BY <1>4, <1>5, <1>6, <2>1, Inductive
<1> QED
  BY <1>6, <1>7

(* The branches of two sub tests of an element have nothing in common. *)
LEMMA BranchesApart ==
  ASSUME NEW r, IsTree(r), NEW c \in 2 .. Len(r), NEW d \in 2 .. Len(r), c # d,
         r[c].parent = r[d].parent
  PROVE  Branch(r, c) \cap Branch(r, d) = {}
<1> DEFINE N == Len(r)
           T == {n \in Nat : \A j \in 1 .. N : j <= n => ~ (j \in Branch(r, c) /\ j \in Branch(r, d))}
<1>1. N \in Nat \ {0} /\ \A j \in 2 .. N : j \in 1 .. N /\ r[j].parent \in 1 .. j - 1
  BY TreeElements DEF IsTree
<1>2. /\ Branch(r, c) \subseteq 1 .. N /\ \A j \in Branch(r, c) : j >= c
      /\ \A j \in 2 .. N : j \in Branch(r, c) <=> j = c \/ r[j].parent \in Branch(r, c)
  BY <1>1, FlatBranch DEF Branch
<1>3. /\ Branch(r, d) \subseteq 1 .. N /\ \A j \in Branch(r, d) : j >= d
      /\ \A j \in 2 .. N : j \in Branch(r, d) <=> j = d \/ r[j].parent \in Branch(r, d)
  BY <1>1, FlatBranch DEF Branch
<1>4. 0 \in T
  BY <1>1
<1>5. ASSUME NEW n \in T PROVE n + 1 \in T
  <2> SUFFICES ASSUME NEW j \in 1 .. N, j <= n + 1, j \in Branch(r, c), j \in Branch(r, d)
               PROVE  FALSE
    BY <1>1
  <2> DEFINE p == r[j].parent
  <2>1. j \in 2 .. N
    BY <1>1, <1>2
  <2>2. p \in 1 .. N /\ p <= n /\ p < j
    <3>1. p \in 1 .. j - 1
      BY <1>1, <2>1
    <3> HIDE DEF p
    <3> QED
      BY <1>1, <1>5, <2>1, <3>1
  <2>3. r[c].parent < c /\ r[d].parent < d
    BY <1>1
  <2>4. CASE j = c
    <3>1. p \in Branch(r, d)
      BY <1>3, <2>1, <2>4
    <3>2. p >= d /\ p = r[d].parent
      BY <1>3, <2>4, <3>1
    <3> HIDE DEF p
    <3> QED
      BY <1>1, <2>2, <2>3, <3>2
  <2>5. CASE j = d
    <3>1. p \in Branch(r, c)
      BY <1>2, <2>1, <2>5
    <3>2. p >= c /\ p = r[c].parent
      BY <1>2, <2>5, <3>1
    <3> HIDE DEF p
    <3> QED
      BY <1>1, <2>2, <2>3, <3>2
  <2>6. CASE j # c /\ j # d
    <3>1. p \in Branch(r, c) /\ p \in Branch(r, d)
      BY <1>2, <1>3, <2>1, <2>6
    <3> QED
      BY <1>5, <2>2, <3>1
  <2> QED
    BY <2>4, <2>5, <2>6
<1>6. T = Nat
  <2>1. T \in SUBSET Nat
    OBVIOUS
  <2> HIDE DEF T
  <2> QED
    BY <1>4, <1>5, <2>1, Inductive
<1>7. ASSUME NEW j \in Branch(r, c), j \in Branch(r, d) PROVE FALSE
  <2>1. j \in 1 .. N /\ j \in Nat /\ j <= j
    BY <1>1, <1>2
  <2>2. j \in T
    <3> HIDE DEF T
    <3> QED
      BY <1>6, <2>1
  <2> QED
    BY <1>7, <2>1, <2>2
<1> QED
  BY <1>7

(* Everything is under the root. *)
LEMMA FlatOfRoot ==
  ASSUME NEW r, IsTree(r)
  PROVE  Flat(r, 1) = 2 .. Len(r)
<1> DEFINE N == Len(r)
           T == {n \in Nat : \A j \in 2 .. N : j <= n => j \in Flat(r, 1)}
<1>1. N \in Nat \ {0} /\ 1 \in 1 .. N /\ \A j \in 2 .. N : r[j].parent \in 1 .. j - 1
  BY TreeElements DEF IsTree
<1>2. /\ Flat(r, 1) \subseteq 2 .. N
      /\ \A j \in 2 .. N : j \in Flat(r, 1) <=> r[j].parent = 1 \/ r[j].parent \in Flat(r, 1)
  BY <1>1, FlatBranch DEF Branch
<1>3. 0 \in T
  BY <1>1
<1>4. ASSUME NEW n \in T PROVE n + 1 \in T
  <2> SUFFICES ASSUME NEW j \in 2 .. N, j <= n + 1 PROVE j \in Flat(r, 1)
    BY <1>1
  <2> DEFINE p == r[j].parent
  <2>1. p = 1 \/ (p \in 2 .. N /\ p <= n)
    <3>1. p \in 1 .. j - 1
      BY <1>1
    <3> HIDE DEF p
    <3> QED
      BY <1>1, <1>4, <3>1
  <2> QED
    BY <1>2, <1>4, <2>1
<1>5. T = Nat
  <2>1. T \in SUBSET Nat
    OBVIOUS
  <2> HIDE DEF T
  <2> QED
    BY <1>3, <1>4, <2>1, Inductive
<1>6. N \in T
  <2> HIDE DEF T
  <2> QED
    BY <1>1, <1>5
<1>7. \A j \in 2 .. N : j <= N
  BY <1>1
<1> QED
  BY <1>2, <1>6, <1>7

(* Trees with the same parents have the same branches and leaves. *)
LEMMA SameParents ==
  ASSUME NEW r, IsTree(r), NEW q, IsTree(q), Len(q) = Len(r),
         \A i \in 1 .. Len(r) : q[i].parent = r[i].parent
  PROVE  /\ \A e \in 1 .. Len(r) : Flat(q, e) = Flat(r, e) /\ (HasSubTests(q, e) <=> HasSubTests(r, e))
         /\ SubTests(q, 1) = SubTests(r, 1)
<1> DEFINE N == Len(r)
<1>1. N \in Nat \ {0} /\ DOMAIN r = 1 .. N /\ DOMAIN q = 1 .. N
      /\ \A j \in 2 .. N : j \in 1 .. N /\ r[j].parent \in 1 .. j - 1
  BY TreeElements DEF IsTree
<1>2. ASSUME NEW e \in 1 .. N PROVE Flat(q, e) = Flat(r, e)
  <2> DEFINE T == {n \in Nat : \A j \in 1 .. N : j <= n => (j \in Flat(q, e) <=> j \in Flat(r, e))}
  <2>1. /\ Flat(r, e) \subseteq 2 .. N
        /\ \A j \in 2 .. N : j \in Flat(r, e) <=> r[j].parent = e \/ r[j].parent \in Flat(r, e)
    BY FlatBranch DEF Branch
  <2>2. /\ Flat(q, e) \subseteq 2 .. N
        /\ \A j \in 2 .. N : j \in Flat(q, e) <=> r[j].parent = e \/ r[j].parent \in Flat(q, e)
    <3>1. /\ Flat(q, e) \subseteq 2 .. N
          /\ \A j \in 2 .. N : j \in Flat(q, e) <=> q[j].parent = e \/ q[j].parent \in Flat(q, e)
      BY FlatBranch DEF Branch
    <3> QED
      BY <1>1, <3>1
  <2>3. 0 \in T
    BY <1>1
  <2>4. ASSUME NEW n \in T PROVE n + 1 \in T
    <3> SUFFICES ASSUME NEW j \in 1 .. N, j <= n + 1 PROVE j \in Flat(q, e) <=> j \in Flat(r, e)
      BY <1>1
    <3> DEFINE p == r[j].parent
    <3>1. CASE j = 1
      BY <2>1, <2>2, <3>1
    <3>2. CASE j # 1
      <4>1. j \in 2 .. N
        BY <1>1, <3>2
      <4>2. p \in 1 .. N /\ p <= n
        <5>1. p \in 1 .. j - 1
          BY <1>1, <4>1
        <5> HIDE DEF p
        <5> QED
          BY <1>1, <2>4, <4>1, <5>1
      <4> QED
        BY <2>1, <2>2, <2>4, <4>1, <4>2
    <3> QED
      BY <3>1, <3>2
  <2>5. N \in T
    <3>1. T \in SUBSET Nat
      OBVIOUS
    <3> HIDE DEF T
    <3> QED
      BY <1>1, <2>3, <2>4, <3>1, Inductive
  <2>6. \A j \in 1 .. N : j <= N
    BY <1>1
  <2>7. \A j \in 2 .. N : j \in 1 .. N
    BY <1>1
  <2> QED
    BY <2>1, <2>2, <2>5, <2>6, <2>7
<1>3. \A e \in 1 .. N : HasSubTests(q, e) <=> HasSubTests(r, e)
  BY <1>1 DEF HasSubTests
<1>4. SubTests(q, 1) = SubTests(r, 1)
  BY <1>1 DEF SubTests
<1> QED
  BY <1>2, <1>3, <1>4

(* The elements without sub tests. *)
LeavesOf(r) == {e \in 2 .. Len(r) : ~HasSubTests(r, e)}

(* The leaves counted at e when the elements from x on have been settled. *)
Reached(r, e, x) ==
  {l \in LeavesOf(r) :
     l = e \/ \E c \in 2 .. Len(r) : c >= x /\ r[c].parent = e /\ l \in Branch(r, c)}

(* When everything younger than e is settled, all leaves on its branch are
   counted. *)
LEMMA ReachedAll ==
  ASSUME NEW r, IsTree(r), NEW e \in 1 .. Len(r), NEW x \in Int, x <= e + 1
  PROVE  Reached(r, e, x) = LeavesOf(r) \cap Branch(r, e)
<1>1. Len(r) \in Nat \ {0} /\ \A c \in 2 .. Len(r) : c \in 1 .. Len(r) /\ r[c].parent \in 1 .. c - 1
  BY TreeElements DEF IsTree
<1>2. \A c \in 2 .. Len(r) : r[c].parent = e => c >= x
  BY <1>1
<1>3. \A l \in LeavesOf(r) : l \in 1 .. Len(r)
  BY <1>1 DEF LeavesOf
<1>4. \A l \in LeavesOf(r) :
        l \in Flat(r, e) <=> \E c \in 2 .. Len(r) : r[c].parent = e /\ l \in Branch(r, c)
  BY <1>3, FlatOfBranches
<1> QED
  BY <1>2, <1>4 DEF Reached, Branch

(* To settle c brings the leaves of its branch to its parent, where none of them
   was counted. *)
LEMMA ReachedGrows ==
  ASSUME NEW r, IsTree(r), NEW c \in 2 .. Len(r)
  PROVE  LET p == r[c].parent IN
         /\ Reached(r, p, c) = Reached(r, p, c + 1) \cup Reached(r, c, c + 1)
         /\ Reached(r, p, c + 1) \cap Reached(r, c, c + 1) = {}
         /\ \A e \in 1 .. Len(r) : e # p => Reached(r, e, c) = Reached(r, e, c + 1)
<1> DEFINE p == r[c].parent
<1>1. Len(r) \in Nat \ {0} /\ c \in 1 .. Len(r) /\ c \in Int /\ c + 1 \in Int /\ DOMAIN r = 1 .. Len(r)
  BY TreeElements DEF IsTree
<1>2. Reached(r, c, c + 1) = LeavesOf(r) \cap Branch(r, c)
  BY <1>1, ReachedAll
<1>3. \A d \in 2 .. Len(r) : d >= c <=> d = c \/ d >= c + 1
  BY <1>1
<1>4. ~ (p \in LeavesOf(r))
  BY <1>1 DEF LeavesOf, HasSubTests
<1>5. \A d \in 2 .. Len(r) : d >= c + 1 /\ r[d].parent = p => Branch(r, c) \cap Branch(r, d) = {}
  <2>1. \A d \in 2 .. Len(r) : d >= c + 1 => c # d
    BY <1>1
  <2> QED
    BY <2>1, BranchesApart
<1>6. Reached(r, p, c + 1) \cap Branch(r, c) = {}
  BY <1>4, <1>5 DEF Reached
<1>7. Reached(r, p, c) = Reached(r, p, c + 1) \cup (LeavesOf(r) \cap Branch(r, c))
  BY <1>3, <1>4 DEF Reached
<1>8. \A e \in 1 .. Len(r) : e # p => Reached(r, e, c) = Reached(r, e, c + 1)
  BY <1>3 DEF Reached
<1> QED
  BY <1>2, <1>6, <1>7, <1>8

(* Adding up the totals counts the leaves of each branch. *)
LEMMA TestsCounted ==
  ASSUME NEW r, IsTree(r),
         \A e \in 1 .. Len(r) : r[e].tests = IF e \in LeavesOf(r) THEN 1 ELSE 0
  PROVE  \A e \in 1 .. Len(r) :
           getTestResult(r)[e].tests = Cardinality(LeavesOf(r) \cap Branch(r, e))
<1> DEFINE N == Len(r)
           Count(e, x) == Cardinality(Reached(r, e, x))
<1>1. N \in Nat \ {0} /\ \A c \in 2 .. N : c \in 1 .. N /\ r[c].parent \in 1 .. c - 1
  BY TreeElements DEF IsTree
<1>2. ASSUME NEW e, NEW x PROVE IsFiniteSet(Reached(r, e, x)) /\ Count(e, x) \in Nat
  <2>1. IsFiniteSet(2 .. N)
    BY <1>1, FS_Interval
  <2>2. Reached(r, e, x) \in SUBSET (2 .. N)
    BY DEF Reached, LeavesOf
  <2>3. IsFiniteSet(Reached(r, e, x))
    BY <2>1, <2>2, FS_Subset
  <2> QED
    BY <2>3, FS_CardinalityType
<1>3. PICK f : /\ \A n \in 0 .. N - 1 : IsTree(f[n]) /\ Len(f[n]) = N
               /\ f[0] = r
               /\ \A n \in 1 .. N - 1 : f[n] = AddToParent(f[n - 1], N + 1 - n)
               /\ getTestResult(r) = f[N - 1]
  BY Settled
<1> DEFINE T == {n \in Nat : n <= N - 1 =>
                   \A e \in 1 .. N : /\ f[n][e].tests = Count(e, N + 1 - n)
                                     /\ f[n][e].parent = r[e].parent}
<1> HIDE DEF Count
<1>4. 0 \in T
  <2> SUFFICES ASSUME NEW e \in 1 .. N PROVE r[e].tests = Count(e, N + 1)
    BY <1>1, <1>3
  <2>1. \A c \in 2 .. N : ~ (c >= N + 1)
    BY <1>1
  <2>2. Reached(r, e, N + 1) = IF e \in LeavesOf(r) THEN {e} ELSE {}
    BY <2>1 DEF Reached
  <2> QED
    BY <2>2, FS_EmptySet, FS_Singleton DEF Count
<1>5. ASSUME NEW n \in T PROVE n + 1 \in T
  <2> SUFFICES ASSUME n + 1 <= N - 1, NEW e \in 1 .. N
               PROVE  /\ f[n + 1][e].tests = Count(e, N + 1 - (n + 1))
                      /\ f[n + 1][e].parent = r[e].parent
    OBVIOUS
  <2> DEFINE c == N - n
             p == r[c].parent
  <2>1. /\ n + 1 \in 1 .. N - 1 /\ n \in 0 .. N - 1 /\ (n + 1) - 1 = n
        /\ N + 1 - (n + 1) = c /\ N + 1 - n = c + 1 /\ c \in 2 .. N
    BY <1>1
  <2>2. IsTree(f[n]) /\ Len(f[n]) = N /\ f[n + 1] = AddToParent(f[n], c)
    BY <1>3, <2>1
  <2>3. \A i \in 1 .. N : f[n][i].tests = Count(i, c + 1) /\ f[n][i].parent = r[i].parent
    BY <2>1
  <2> HIDE DEF c
  <2>4. p \in 1 .. N /\ c \in 1 .. N /\ f[n][c].parent = p
    <3>1. p \in 1 .. c - 1 /\ c \in 1 .. N
      BY <1>1, <2>1
    <3> QED
      BY <1>1, <2>3, <3>1
  <2> HIDE DEF p
  <2>5. /\ f[n + 1][p].tests = f[n][p].tests + f[n][c].tests
        /\ \A i \in 1 .. N : f[n + 1][i].parent = f[n][i].parent
        /\ \A i \in 1 .. N : i # p => f[n + 1][i] = f[n][i]
    <3>1. c \in 2 .. Len(f[n])
      BY <2>1, <2>2
    <3>2. /\ f[n + 1][f[n][c].parent].tests = f[n][f[n][c].parent].tests + f[n][c].tests
          /\ \A i \in 1 .. Len(f[n]) : f[n + 1][i].parent = f[n][i].parent
          /\ \A i \in 1 .. Len(f[n]) : i # f[n][c].parent => f[n + 1][i] = f[n][i]
      BY <2>2, <3>1, AddedTree
    <3> QED
      BY <2>2, <2>4, <3>2
  <2>6. CASE e = p
    <3>1. /\ Reached(r, p, c) = Reached(r, p, c + 1) \cup Reached(r, c, c + 1)
          /\ Reached(r, p, c + 1) \cap Reached(r, c, c + 1) = {}
      <4>1. LET u == r[c].parent IN
            /\ Reached(r, u, c) = Reached(r, u, c + 1) \cup Reached(r, c, c + 1)
            /\ Reached(r, u, c + 1) \cap Reached(r, c, c + 1) = {}
        BY <2>1, ReachedGrows
      <4> QED
        BY <4>1 DEF p
    <3>2. Count(p, c) = Count(p, c + 1) + Count(c, c + 1) - Cardinality({})
      BY <1>2, <3>1, FS_Union DEF Count
    <3>3. Count(p, c) = Count(p, c + 1) + Count(c, c + 1)
      BY <1>2, <3>2, FS_EmptySet
    <3>4. f[n + 1][e].tests = Count(e, c)
      BY <2>3, <2>4, <2>5, <2>6, <3>3
    <3> QED
      BY <2>1, <2>3, <2>5, <3>4
  <2>7. CASE e # p
    <3>1. Count(e, c) = Count(e, c + 1)
      <4>1. Reached(r, e, c) = Reached(r, e, c + 1)
        BY <2>1, <2>7, ReachedGrows DEF p
      <4> QED
        BY <4>1 DEF Count
    <3> QED
      BY <2>1, <2>3, <2>5, <2>7, <3>1
  <2> QED
    BY <2>6, <2>7
<1>6. N - 1 \in T
  <2>1. T \in SUBSET Nat
    OBVIOUS
  <2>2. N - 1 \in Nat
    BY <1>1
  <2> HIDE DEF T, N
  <2> QED
    BY <1>4, <1>5, <2>1, <2>2, Inductive
<1>7. ASSUME NEW e \in 1 .. N
      PROVE  getTestResult(r)[e].tests = Cardinality(LeavesOf(r) \cap Branch(r, e))
  <2>1. N + 1 - (N - 1) = 2 /\ N - 1 <= N - 1 /\ 2 <= e + 1 /\ 2 \in Int
    BY <1>1
  <2>2. f[N - 1][e].tests = Count(e, 2)
    BY <1>6, <2>1
  <2>3. Reached(r, e, 2) = LeavesOf(r) \cap Branch(r, e)
    BY <2>1, ReachedAll
  <2> QED
    BY <1>3, <2>2, <2>3 DEF Count
<1> QED
  BY <1>7

(* The counts v of the elements as the youngest first are settled. *)
Flows(v, parent, N) ==
  /\ N \in Nat \ {0} /\ v[0][1] = 0
  /\ \A n \in 0 .. N - 1, i \in 1 .. N : v[n][i] \in Nat
  /\ \A c \in 2 .. N : parent[c] \in 1 .. c - 1
  /\ \A n \in 1 .. N - 1, c \in 2 .. N : c = N + 1 - n =>
       /\ v[n][parent[c]] = v[n - 1][parent[c]] + v[n - 1][c]
       /\ \A i \in 1 .. N : i # parent[c] => v[n][i] = v[n - 1][i]

(* top has the last counts of the root's sub tests. *)
IsTop(top, v, parent, N) ==
  \A i \in 1 .. N : At(top, i) = IF i # 1 /\ parent[i] = 1 THEN v[N - 1][i] ELSE 0

(* What the root gets is the sum of what its sub tests have in the end. *)
LEMMA TopsAdded ==
  ASSUME NEW N, NEW parent, NEW v, Flows(v, parent, N), NEW top, IsTop(top, v, parent, N)
  PROVE  v[N - 1][1] = Total(top, N)
<1>a. /\ N \in Nat \ {0} /\ v[0][1] = 0
      /\ \A n \in 0 .. N - 1, i \in 1 .. N : v[n][i] \in Nat
      /\ \A c \in 2 .. N : parent[c] \in 1 .. c - 1
      /\ \A n \in 1 .. N - 1, c \in 2 .. N : c = N + 1 - n =>
           /\ v[n][parent[c]] = v[n - 1][parent[c]] + v[n - 1][c]
           /\ \A i \in 1 .. N : i # parent[c] => v[n][i] = v[n - 1][i]
  BY DEF Flows
<1> DEFINE Tops(n, x) == [e \in {i \in 2 .. N : i >= x /\ parent[i] = 1} |-> v[n][e]]
           T == {n \in Nat : n <= N - 1 => v[n][1] = Total(Tops(n, N + 1 - n), N)}
<1>1. ASSUME NEW n, NEW x, NEW i \in 1 .. N
      PROVE  At(Tops(n, x), i) = IF i >= x /\ i # 1 /\ parent[i] = 1 THEN v[n][i] ELSE 0
  BY DEF At
<1>2. ASSUME NEW n \in 0 .. N - 1, NEW x PROVE \A i \in 1 .. N : At(Tops(n, x), i) \in Nat
  <2> SUFFICES ASSUME NEW i \in 1 .. N PROVE At(Tops(n, x), i) \in Nat
    OBVIOUS
  <2>1. v[n][i] \in Nat
    BY <1>2, <1>a
  <2> HIDE DEF Tops
  <2>2. At(Tops(n, x), i) = IF i >= x /\ i # 1 /\ parent[i] = 1 THEN v[n][i] ELSE 0
    BY <1>1
  <2> QED
    BY <2>1, <2>2
<1> HIDE DEF Tops
<1>3. 0 \in T
  <2>1. \A i \in 1 .. N : At(Tops(0, N + 1), i) = 0
    <3>1. \A i \in 1 .. N : ~ (i >= N + 1)
      BY <1>a
    <3> QED
      BY <1>1, <3>1
  <2>2. Total(Tops(0, N + 1), N) = 0
    BY <1>a, <2>1, TotalOfNothing
  <2> QED
    BY <1>a, <2>2
<1>4. ASSUME NEW n \in T PROVE n + 1 \in T
  <2> SUFFICES ASSUME n + 1 <= N - 1
               PROVE  v[n + 1][1] = Total(Tops(n + 1, N + 1 - (n + 1)), N)
    OBVIOUS
  <2> DEFINE c == N - n
  <2>1. /\ n + 1 \in 1 .. N - 1 /\ n \in 0 .. N - 1 /\ n + 1 \in 0 .. N - 1 /\ (n + 1) - 1 = n
        /\ N + 1 - (n + 1) = c /\ N + 1 - n = c + 1 /\ c \in 2 .. N
    BY <1>a
  <2>2. v[n][1] = Total(Tops(n, c + 1), N)
    BY <2>1
  <2> HIDE DEF c
  <2>3. /\ v[n + 1][parent[c]] = v[n][parent[c]] + v[n][c]
        /\ \A i \in 1 .. N : i # parent[c] => v[n + 1][i] = v[n][i]
        /\ parent[c] \in 1 .. c - 1
    <3>1. /\ v[n + 1][parent[c]] = v[(n + 1) - 1][parent[c]] + v[(n + 1) - 1][c]
          /\ \A i \in 1 .. N : i # parent[c] => v[n + 1][i] = v[(n + 1) - 1][i]
      <4>1. n + 1 \in 1 .. N - 1 /\ c \in 2 .. N /\ c = N + 1 - (n + 1)
        BY <2>1
      <4> QED
        BY <1>a, <4>1
    <3>2. parent[c] \in 1 .. c - 1
      BY <1>a, <2>1
    <3> QED
      BY <2>1, <3>1, <3>2
  <2>4. c \in 1 .. N /\ 1 \in 1 .. N /\ v[n][c] \in Nat /\ c # 1
    <3>1. c \in 1 .. N /\ 1 \in 1 .. N /\ c # 1
      BY <1>a, <2>1
    <3> QED
      BY <1>a, <2>1, <3>1
  <2>5. \A i \in 1 .. N : i >= c => v[n + 1][i] = v[n][i]
    BY <2>1, <2>3
  <2>6. \A i \in 1 .. N : i # c => (i >= c <=> i >= c + 1)
    BY <2>1
  <2>7. \A i \in 1 .. N : At(Tops(n, c + 1), i) \in Nat
    BY <1>2, <2>1
  <2>8. \A i \in 1 .. N : i # c => At(Tops(n + 1, c), i) = At(Tops(n, c + 1), i)
    BY <1>1, <2>5, <2>6
  <2>9. At(Tops(n, c + 1), c) = 0 /\ At(Tops(n + 1, c), c) = IF parent[c] = 1 THEN v[n][c] ELSE 0
    <3>1. c >= c /\ ~ (c >= c + 1) /\ v[n + 1][c] = v[n][c]
      BY <2>1, <2>4, <2>5
    <3> QED
      BY <1>1, <2>4, <3>1
  <2>10. CASE parent[c] = 1
    <3>a. PICK d \in Nat : d = v[n][c]
      BY <2>4
    <3>1. At(Tops(n + 1, c), c) = At(Tops(n, c + 1), c) + d
      BY <2>4, <2>9, <2>10, <3>a
    <3>2. Total(Tops(n + 1, c), N) = Total(Tops(n, c + 1), N) + d
      <4>1. PICK a, b : a = Tops(n, c + 1) /\ b = Tops(n + 1, c)
        OBVIOUS
      <4>2. /\ \A i \in 1 .. N : At(a, i) \in Nat
            /\ \A i \in 1 .. N : i # c => At(b, i) = At(a, i)
            /\ At(b, c) = At(a, c) + d
            /\ c \in 1 .. N /\ N \in Nat
        BY <1>a, <2>4, <2>7, <2>8, <3>1, <4>1
      <4>3. Total(b, N) = Total(a, N) + d
        BY <4>2, TotalAdds
      <4> QED
        BY <4>1, <4>3
    <3> QED
      BY <2>1, <2>2, <2>3, <2>10, <3>2, <3>a
  <2>11. CASE parent[c] # 1
    <3>1. \A i \in 1 .. N : At(Tops(n + 1, c), i) = At(Tops(n, c + 1), i)
      BY <2>8, <2>9, <2>11
    <3>2. Total(Tops(n + 1, c), N) = Total(Tops(n, c + 1), N)
      BY <1>a, <2>7, <3>1, TotalSame
    <3>3. v[n + 1][1] = v[n][1]
      BY <2>3, <2>4, <2>11
    <3> QED
      BY <2>1, <2>2, <3>2, <3>3
  <2> QED
    BY <2>10, <2>11
<1>5. N - 1 \in T
  <2>1. T \in SUBSET Nat
    OBVIOUS
  <2>2. N - 1 \in Nat
    BY <1>a
  <2> HIDE DEF T
  <2> QED
    BY <1>3, <1>4, <2>1, <2>2, Inductive
<1>6. v[N - 1][1] = Total(Tops(N - 1, 2), N)
  <2>1. N + 1 - (N - 1) = 2 /\ N - 1 <= N - 1
    BY <1>a
  <2> QED
    BY <1>5, <2>1
<1>7. \A i \in 1 .. N : At(top, i) = At(Tops(N - 1, 2), i)
  <2> SUFFICES ASSUME NEW i \in 1 .. N PROVE At(top, i) = At(Tops(N - 1, 2), i)
    OBVIOUS
  <2>1. i # 1 => i >= 2
    BY <1>a
  <2>2. At(Tops(N - 1, 2), i) = IF i >= 2 /\ i # 1 /\ parent[i] = 1 THEN v[N - 1][i] ELSE 0
    BY <1>1
  <2> QED
    BY <2>1, <2>2 DEF IsTop
<1>8. \A i \in 1 .. N : At(Tops(N - 1, 2), i) \in Nat
  <2>1. N - 1 \in 0 .. N - 1
    BY <1>a
  <2> QED
    BY <1>2, <2>1
<1>9. Total(top, N) = Total(Tops(N - 1, 2), N)
  BY <1>7, <1>8, <1>a, TotalSame
<1> QED
  BY <1>6, <1>9

(* Every element without sub tests counts as one test, but for x, which is not
   left yet; nothing is counted at the root, and each of its sub tests has some
   of its own. *)
Counted(r, x) ==
  /\ r[1].parent = 0 /\ r[1].fails = 0
  /\ \A e \in 1 .. Len(r) :
       r[e].tests = IF e = 1 \/ e = x \/ HasSubTests(r, e) THEN 0 ELSE 1
  /\ \A e \in 2 .. Len(r) : r[e].parent = 1 /\ e # x => HasSubTests(r, e)

(* A new element is not counted yet, and makes its parent one with sub tests. *)
LEMMA NewChildCounted ==
  ASSUME NEW r, IsTree(r), NEW p \in 1 .. Len(r), NEW x \in {0, p}, Counted(r, x),
         p = 1 \/ p = x \/ HasSubTests(r, p)
  PROVE  LET c == NewChild(r, p)
             new == Len(r) + 1 IN
         /\ Counted(c, new) /\ HasSubTests(c, p) /\ ~HasSubTests(c, new) /\ c[new].parent = p
         /\ \A i : HasSubTests(r, i) => HasSubTests(c, i)
<1> DEFINE c == NewChild(r, p)
           new == Len(r) + 1
<1>1. Len(r) \in Nat \ {0} /\ DOMAIN r = 1 .. Len(r) /\ r \in Seq(ReportElement)
      /\ \A i \in 2 .. Len(r) : r[i].parent \in 1 .. i - 1
  BY TreeElements DEF IsTree
<1>2. /\ NewElement(p) \in ReportElement /\ NewElement(p).parent = p
      /\ NewElement(p).tests = 0
  BY <1>1 DEF NewElement, ReportElement
<1>3. /\ c \in Seq(ReportElement) /\ Len(c) = new /\ DOMAIN c = 1 .. new
      /\ c[new] = NewElement(p) /\ \A i \in 1 .. Len(r) : c[i] = r[i]
  BY <1>1, <1>2, AppendProperties, LenProperties DEF NewChild
<1> HIDE DEF c
<1>4. new \in 1 .. new /\ new # 1 /\ 1 \in 1 .. Len(r)
      /\ \A i \in 1 .. new : i # new => i \in 1 .. Len(r)
  <2>1. Len(r) \in Nat /\ Len(r) >= 1
    BY <1>1
  <2> QED
    BY <2>1
<1>5. HasSubTests(c, p) /\ c[new].parent = p
  BY <1>2, <1>3, <1>4 DEF HasSubTests
<1>6. \A i : HasSubTests(r, i) => HasSubTests(c, i)
  <2>1. \A i \in 1 .. Len(r) : i \in 1 .. new
    BY <1>1
  <2> QED
    BY <1>1, <1>3, <2>1 DEF HasSubTests
<1>7. \A i \in 1 .. Len(r) : HasSubTests(c, i) => i = p \/ HasSubTests(r, i)
  BY <1>1, <1>2, <1>3, <1>4 DEF HasSubTests
<1>8. ~HasSubTests(c, new)
  <2> SUFFICES ASSUME NEW i \in 1 .. new, c[i].parent = new PROVE FALSE
    BY <1>3 DEF HasSubTests
  <2>1. CASE i = new
    BY <1>1, <1>2, <1>3, <2>1
  <2>2. CASE i = 1
    BY <1>1, <1>3, <1>4, <2>2 DEF Counted
  <2>3. CASE i # new /\ i # 1
    <3>1. i \in 2 .. Len(r) /\ i \in 1 .. Len(r)
      BY <1>1, <2>3
    <3>2. r[i].parent \in 1 .. i - 1 /\ r[i].parent = new
      BY <1>1, <1>3, <3>1
    <3> QED
      BY <1>1, <3>1, <3>2
  <2> QED
    BY <2>1, <2>2, <2>3
<1>9. ASSUME NEW e \in 1 .. new
      PROVE  c[e].tests = IF e = 1 \/ e = new \/ HasSubTests(c, e) THEN 0 ELSE 1
  <2>1. CASE e = new
    BY <1>2, <1>3, <2>1
  <2>2. CASE e # new
    <3>1. e \in 1 .. Len(r) /\ c[e] = r[e]
      BY <1>3, <1>4, <2>2
    <3>2. r[e].tests = IF e = 1 \/ e = x \/ HasSubTests(r, e) THEN 0 ELSE 1
      BY <3>1 DEF Counted
    <3>3. e = x => e = p
      BY <1>1, <3>1
    <3> QED
      BY <1>5, <1>6, <1>7, <2>2, <3>1, <3>2, <3>3
  <2> QED
    BY <2>1, <2>2
<1>10. ASSUME NEW e \in 2 .. new, c[e].parent = 1, e # new PROVE HasSubTests(c, e)
  <2>1. e \in 2 .. Len(r) /\ c[e] = r[e]
    BY <1>1, <1>3, <1>10
  <2>2. e = x \/ HasSubTests(r, e)
    BY <1>10, <2>1 DEF Counted
  <2>3. e = x => e = p
    BY <1>1, <2>1
  <2> QED
    BY <1>5, <1>6, <2>2, <2>3
<1>11. Counted(c, new)
  BY <1>3, <1>4, <1>9, <1>10 DEF Counted
<1> QED
  BY <1>5, <1>6, <1>8, <1>11 DEF c

(* What it means to leave an element. *)
LEMMA LeaveParts ==
  ASSUME NEW r, IsTree(r), NEW e \in 1 .. Len(r), NEW ok \in BOOLEAN
  PROVE  LET l == Leave(r, e, ok) IN
         /\ Len(l) = Len(r)
         /\ l[e].tests = IF HasSubTests(r, e) THEN r[e].tests ELSE r[e].tests + 1
         /\ \A i \in 1 .. Len(r) : i # e => l[i] = r[i]
         /\ \A i \in 1 .. Len(r) : l[i].parent = r[i].parent
         /\ \A i : HasSubTests(l, i) <=> HasSubTests(r, i)
<1> DEFINE l == Leave(r, e, ok)
<1>1. DOMAIN r = 1 .. Len(r) /\ r \in Seq(ReportElement)
      /\ \A i \in 1 .. Len(r) : r[i] \in ReportElement
  BY TreeElements DEF IsTree
<1>2. DOMAIN l = DOMAIN r
  BY <1>1, LeaveType
<1>3. Len(l) = Len(r)
  BY LeaveTree
<1>4. \A i \in 1 .. Len(r) : i # e => l[i] = r[i]
  BY <1>1 DEF Leave
<1>5. l[e].tests = IF HasSubTests(r, e) THEN r[e].tests ELSE r[e].tests + 1
  BY <1>1 DEF Leave, ReportElement
<1>6. \A i \in 1 .. Len(r) : l[i].parent = r[i].parent
  BY <1>1 DEF Leave, ReportElement
<1> HIDE DEF l
<1>7. \A i : HasSubTests(l, i) <=> HasSubTests(r, i)
  BY <1>1, <1>2, <1>6 DEF HasSubTests
<1> QED
  BY <1>3, <1>4, <1>5, <1>6, <1>7 DEF l

(* The element not yet counted is counted when it is left without sub tests; one
   with sub tests is not. *)
LEMMA LeaveCounted ==
  ASSUME NEW r, IsTree(r), NEW e \in 2 .. Len(r), NEW ok \in BOOLEAN, NEW x,
         Counted(r, x),
         \/ x = e /\ ~HasSubTests(r, e) /\ r[e].parent # 1
         \/ x = 0 /\ HasSubTests(r, e)
  PROVE  LET l == Leave(r, e, ok) IN
         Counted(l, 0) /\ \A i : HasSubTests(l, i) <=> HasSubTests(r, i)
<1> DEFINE l == Leave(r, e, ok)
<1>1. Len(r) \in Nat \ {0} /\ e \in 1 .. Len(r) /\ 1 \in 1 .. Len(r) /\ e # 1
  BY TreeElements
<1>2. /\ Len(l) = Len(r)
      /\ l[e].tests = IF HasSubTests(r, e) THEN r[e].tests ELSE r[e].tests + 1
      /\ \A i \in 1 .. Len(r) : i # e => l[i] = r[i]
      /\ \A i \in 1 .. Len(r) : l[i].parent = r[i].parent
      /\ \A i : HasSubTests(l, i) <=> HasSubTests(r, i)
  BY <1>1, LeaveParts
<1> HIDE DEF l
<1>3. ASSUME NEW i \in 1 .. Len(r)
      PROVE  l[i].tests = IF i = 1 \/ i = 0 \/ HasSubTests(l, i) THEN 0 ELSE 1
  <2>1. r[i].tests = IF i = 1 \/ i = x \/ HasSubTests(r, i) THEN 0 ELSE 1
    BY DEF Counted
  <2>2. i # 0
    OBVIOUS
  <2>3. CASE i = e
    BY <1>1, <1>2, <2>1, <2>2, <2>3
  <2>4. CASE i # e
    BY <1>2, <2>1, <2>2, <2>4
  <2> QED
    BY <2>3, <2>4
<1>4. ASSUME NEW i \in 2 .. Len(r), l[i].parent = 1 PROVE HasSubTests(l, i)
  <2>1. i \in 1 .. Len(r) /\ i # 0
    BY <1>1
  <2>2. r[i].parent = 1
    BY <1>2, <1>4, <2>1
  <2>3. i # x => HasSubTests(r, i)
    BY <2>2 DEF Counted
  <2> QED
    BY <1>2, <2>1, <2>2, <2>3
<1>5. l[1].parent = 0 /\ l[1].fails = 0
  BY <1>1, <1>2 DEF Counted
<1> QED
  BY <1>2, <1>3, <1>4, <1>5 DEF Counted, l

(* A case is counted, and its test is not any more. *)
LEMMA CaseCounted ==
  ASSUME NEW r, IsTree(r), NEW e \in 2 .. Len(r), NEW x \in {0, e}, Counted(r, x),
         e = x \/ HasSubTests(r, e), NEW ok \in BOOLEAN
  PROVE  /\ Counted(OneCase(r, e, ok), 0) /\ HasSubTests(OneCase(r, e, ok), e)
         /\ \A i : HasSubTests(r, i) => HasSubTests(OneCase(r, e, ok), i)
<1> DEFINE c == NewChild(r, e)
           new == Len(r) + 1
<1>1. Len(r) \in Nat \ {0} /\ e \in 1 .. Len(r) /\ e # 1
  BY TreeElements
<1>2. IsTree(c) /\ Len(c) = new
  BY <1>1, NewChildTree
<1>3. /\ Counted(c, new) /\ HasSubTests(c, e) /\ ~HasSubTests(c, new) /\ c[new].parent = e
      /\ \A i : HasSubTests(r, i) => HasSubTests(c, i)
  BY <1>1, NewChildCounted
<1>4. OneCase(r, e, ok) = Leave(c, new, ok)
  BY DEF OneCase, Newest
<1>5. new \in 2 .. Len(c)
  BY <1>1, <1>2
<1> HIDE DEF c, new
<1>6. /\ Counted(Leave(c, new, ok), 0)
      /\ \A i : HasSubTests(Leave(c, new, ok), i) <=> HasSubTests(c, i)
  BY <1>1, <1>2, <1>3, <1>5, LeaveCounted
<1> QED
  BY <1>3, <1>4, <1>6

(* The cases of a test are counted. *)
LEMMA CasesCounted ==
  ASSUME NEW r, IsTree(r), NEW e \in 2 .. Len(r), Counted(r, e), NEW n \in Nat, NEW bad \in Nat
  PROVE  LET w == WithCases(r, e, n, bad) IN
         /\ \A i : HasSubTests(r, i) => HasSubTests(w, i)
         /\ n = 0 => w = r
         /\ n # 0 => Counted(w, 0) /\ HasSubTests(w, e)
<1>1. e \in 1 .. Len(r) /\ e # 1 /\ Len(r) \in Nat
  BY TreeElements
<1>2. PICK f : Grows(f, r, e, n, bad)
  BY <1>1, Grown
<1> DEFINE Kept(w) == \A i : HasSubTests(r, i) => HasSubTests(w, i)
           T == {i \in Nat : i <= n => /\ Kept(f[i])
                                       /\ i # 0 => Counted(f[i], 0) /\ HasSubTests(f[i], e)}
<1>3. 0 \in T /\ f[0] = r
  BY <1>2 DEF Grows
<1>4. ASSUME NEW i \in T PROVE i + 1 \in T
  <2> SUFFICES ASSUME i + 1 <= n
               PROVE  Kept(f[i + 1]) /\ Counted(f[i + 1], 0) /\ HasSubTests(f[i + 1], e)
    OBVIOUS
  <2> DEFINE ok == i + 1 > bad
  <2>1. i + 1 \in 1 .. n /\ i \in 0 .. n /\ (i + 1) - 1 = i /\ i <= n /\ i \in Nat /\ ok \in BOOLEAN
    OBVIOUS
  <2>2. f[i + 1] = OneCase(f[i], e, ok)
    BY <1>2, <2>1 DEF Grows
  <2>3. IsTree(f[i]) /\ e \in 1 .. Len(f[i])
    BY <1>2, <2>1 DEF Grows
  <2>4. e \in 2 .. Len(f[i])
    BY <1>1, <2>3, TreeElements
  <2>5. Kept(f[i]) /\ (i # 0 => Counted(f[i], 0) /\ HasSubTests(f[i], e))
    BY <2>1
  <2> HIDE DEF ok
  <2>6. PICK x \in {0, e} : Counted(f[i], x) /\ (e = x \/ HasSubTests(f[i], e))
    BY <1>3, <2>5
  <2>7. /\ Counted(OneCase(f[i], e, ok), 0) /\ HasSubTests(OneCase(f[i], e, ok), e)
        /\ \A j : HasSubTests(f[i], j) => HasSubTests(OneCase(f[i], e, ok), j)
    BY <2>1, <2>3, <2>4, <2>6, CaseCounted
  <2> QED
    BY <2>2, <2>5, <2>7
<1>5. n \in T
  <2>1. T \in SUBSET Nat
    OBVIOUS
  <2> HIDE DEF T
  <2> QED
    BY <1>3, <1>4, <2>1, Inductive
<1>6. WithCases(r, e, n, bad) = f[n]
  BY <1>2 DEF Grows
<1> QED
  BY <1>3, <1>5, <1>6

(* A test is counted as its cases, or as one if it has none. *)
LEMMA TestCounted ==
  ASSUME NEW r, IsTree(r), NEW m \in 2 .. Len(r), NEW x \in {0, m}, Counted(r, x),
         m = x \/ HasSubTests(r, m), NEW n \in Nat, NEW bad \in Nat, NEW ok \in BOOLEAN, bad <= n
  PROVE  LET e == Newest(r) + 1
             w == Leave(WithCases(NewChild(r, m), e, n, bad), e, ok) IN
         Counted(w, 0) /\ HasSubTests(w, m)
<1> DEFINE e == Newest(r) + 1
           c == NewChild(r, m)
           a == WithCases(c, e, n, bad)
           w == Leave(a, e, ok)
<1>1. Len(r) \in Nat \ {0} /\ e = Len(r) + 1 /\ m \in 1 .. Len(r) /\ m # 1
  BY TreeElements DEF Newest
<1>2. IsTree(c) /\ Len(c) = e
  BY <1>1, NewChildTree
<1>3. Counted(c, e) /\ HasSubTests(c, m) /\ ~HasSubTests(c, e) /\ c[e].parent = m
  BY <1>1, NewChildCounted
<1>4. e \in 2 .. Len(c) /\ e \in 1 .. Len(c) /\ bad \in 0 .. n
  BY <1>1, <1>2
<1> HIDE DEF e, c
<1>5. IsTree(a) /\ Len(a) = Len(c) + n
  BY <1>2, <1>4, CasesAdded
<1>6. /\ HasSubTests(a, m)
      /\ n = 0 => a = c
      /\ n # 0 => Counted(a, 0) /\ HasSubTests(a, e)
  BY <1>2, <1>3, <1>4, CasesCounted
<1> HIDE DEF a
<1>7. e \in 2 .. Len(a)
  BY <1>1, <1>2, <1>5
<1>8. PICK y : /\ Counted(a, y)
               /\ \/ y = e /\ ~HasSubTests(a, e) /\ a[e].parent # 1
                  \/ y = 0 /\ HasSubTests(a, e)
  BY <1>1, <1>3, <1>6
<1>9. Counted(w, 0) /\ \A i : HasSubTests(w, i) <=> HasSubTests(a, i)
  BY <1>5, <1>7, <1>8, LeaveCounted
<1> QED
  BY <1>6, <1>9 DEF e, c, a, w

(* The leaves of each branch are counted, the root's sub tests have some of their
   own, and the root has the sum of theirs. *)
AddsUp(q) ==
  /\ \A e \in 1 .. Len(q) : q[e].tests = Cardinality(LeavesOf(q) \cap Branch(q, e))
  /\ \A e \in SubTests(q, 1) : e \in 2 .. Len(q) /\ HasSubTests(q, e)
  /\ q[1].tests = Total([e \in SubTests(q, 1) |-> q[e].tests], Len(q))
  /\ q[1].fails = Total([e \in SubTests(q, 1) |-> q[e].fails], Len(q))

(* What the report file is made of if every element was counted. *)
LEMMA CountedTotals ==
  ASSUME NEW r, IsTree(r), Counted(r, 0)
  PROVE  AddsUp(getTestResult(r))
<1> DEFINE q == getTestResult(r)
           N == Len(r)
           P == [c \in 2 .. N |-> r[c].parent]
<1>1. N \in Nat \ {0} /\ DOMAIN r = 1 .. N /\ 1 \in 1 .. N
      /\ \A c \in 2 .. N : c \in 1 .. N /\ r[c].parent \in 1 .. c - 1
  BY TreeElements DEF IsTree
<1>2. IsTree(q) /\ Len(q) = N
  BY Totals
<1>3. PICK f : /\ \A n \in 0 .. N - 1 : IsTree(f[n]) /\ Len(f[n]) = N
               /\ f[0] = r
               /\ \A n \in 1 .. N - 1 : f[n] = AddToParent(f[n - 1], N + 1 - n)
               /\ q = f[N - 1]
  BY Settled
<1> HIDE DEF q
<1>4. ASSUME NEW n \in 0 .. N - 1, NEW i \in 1 .. N
      PROVE  f[n][i].tests \in Nat /\ f[n][i].fails \in Nat
  <2>1. f[n][i] \in ReportElement
    BY <1>3, TreeElements
  <2> QED
    BY <2>1 DEF ReportElement
<1>5. ASSUME NEW n \in 1 .. N - 1, NEW c \in 2 .. N, c = N + 1 - n
      PROVE  LET p == f[n - 1][c].parent IN
             /\ f[n][p].tests = f[n - 1][p].tests + f[n - 1][c].tests
             /\ f[n][p].fails = f[n - 1][p].fails + f[n - 1][c].fails
             /\ \A i \in 1 .. N : f[n][i].parent = f[n - 1][i].parent
             /\ \A i \in 1 .. N : i # p => f[n][i] = f[n - 1][i]
  <2>1. n - 1 \in 0 .. N - 1
    BY <1>1
  <2>2. IsTree(f[n - 1]) /\ Len(f[n - 1]) = N /\ f[n] = AddToParent(f[n - 1], c)
    BY <1>3, <1>5, <2>1
  <2> DEFINE a == f[n]
             b == f[n - 1]
  <2>3. IsTree(b) /\ Len(b) = N /\ c \in 2 .. Len(b) /\ a = AddToParent(b, c)
    BY <2>2
  <2> HIDE DEF a, b
  <2>4. /\ a[b[c].parent].tests = b[b[c].parent].tests + b[c].tests
        /\ a[b[c].parent].fails = b[b[c].parent].fails + b[c].fails
        /\ \A i \in 1 .. Len(b) : a[i].parent = b[i].parent
        /\ \A i \in 1 .. Len(b) : i # b[c].parent => a[i] = b[i]
    BY <2>3, AddedTree
  <2> QED
    BY <2>3, <2>4 DEF a, b
<1>6. ASSUME NEW n \in 0 .. N - 1, NEW i \in 1 .. N PROVE f[n][i].parent = r[i].parent
  <2> DEFINE T == {m \in Nat : m <= N - 1 => f[m][i].parent = r[i].parent}
  <2>1. 0 \in T
    BY <1>3
  <2>2. ASSUME NEW m \in T PROVE m + 1 \in T
    <3> SUFFICES ASSUME m + 1 <= N - 1 PROVE f[m + 1][i].parent = r[i].parent
      OBVIOUS
    <3>1. /\ m + 1 \in 1 .. N - 1 /\ (m + 1) - 1 = m /\ N + 1 - (m + 1) \in 2 .. N
          /\ f[m][i].parent = r[i].parent
      BY <1>1
    <3>2. f[m + 1][i].parent = f[(m + 1) - 1][i].parent
      BY <1>5, <3>1
    <3> QED
      BY <3>1, <3>2
  <2>3. T \in SUBSET Nat
    OBVIOUS
  <2> HIDE DEF T
  <2>4. T = Nat
    BY <2>1, <2>2, <2>3, Inductive
  <2>5. n \in Nat /\ n <= N - 1
    BY <1>1
  <2> QED
    BY <2>4, <2>5 DEF T
<1>7. \A i \in 1 .. N : q[i].parent = r[i].parent
  <2>1. N - 1 \in 0 .. N - 1
    BY <1>1
  <2> QED
    BY <1>3, <1>6, <2>1
<1>8. ASSUME NEW n \in 1 .. N - 1, NEW c \in 2 .. N, c = N + 1 - n
      PROVE  /\ f[n][P[c]].tests = f[n - 1][P[c]].tests + f[n - 1][c].tests
             /\ f[n][P[c]].fails = f[n - 1][P[c]].fails + f[n - 1][c].fails
             /\ \A i \in 1 .. N : i # P[c] => f[n][i] = f[n - 1][i]
  <2>1. n - 1 \in 0 .. N - 1 /\ c \in 1 .. N
    BY <1>1
  <2>2. f[n - 1][c].parent = P[c]
    BY <1>6, <2>1
  <2> HIDE DEF P
  <2> QED
    BY <1>5, <1>8, <2>2
<1>9. \A c \in 2 .. N : P[c] = r[c].parent /\ P[c] \in 1 .. c - 1
  BY <1>1
<1>10. \A e \in 1 .. N : Flat(q, e) = Flat(r, e) /\ (HasSubTests(q, e) <=> HasSubTests(r, e))
  BY <1>2, <1>7, SameParents
<1>11. LeavesOf(q) = LeavesOf(r)
  BY <1>1, <1>2, <1>10 DEF LeavesOf
<1>12. SubTests(q, 1) = {i \in 2 .. N : P[i] = 1}
  <2>1. SubTests(q, 1) = SubTests(r, 1)
    BY <1>2, <1>7, SameParents
  <2>2. \A i \in 1 .. N : r[i].parent = 1 <=> i \in 2 .. N /\ P[i] = 1
    <3>1. \A i \in 1 .. N : i # 1 => i \in 2 .. N
      BY <1>1
    <3> QED
      BY <1>9, <3>1 DEF Counted
  <2>3. \A i \in 2 .. N : i \in 1 .. N
    BY <1>1
  <2> QED
    BY <1>1, <2>1, <2>2, <2>3 DEF SubTests
<1> HIDE DEF P
<1>13. \A e \in 1 .. N : q[e].tests = Cardinality(LeavesOf(q) \cap Branch(q, e))
  <2>1. \A e \in 1 .. N : r[e].tests = IF e \in LeavesOf(r) THEN 1 ELSE 0
    <3>1. \A e \in 1 .. N : e \in LeavesOf(r) <=> e # 1 /\ ~HasSubTests(r, e)
      BY <1>1 DEF LeavesOf
    <3>2. \A e \in 1 .. N : e # 0
      BY <1>1
    <3> QED
      BY <3>1, <3>2 DEF Counted
  <2>2. \A e \in 1 .. N : q[e].tests = Cardinality(LeavesOf(r) \cap Branch(r, e))
    BY <2>1, TestsCounted DEF q
  <2> QED
    BY <1>10, <1>11, <2>2 DEF Branch
<1>14. \A e \in SubTests(q, 1) : e \in 2 .. N /\ HasSubTests(q, e)
  BY <1>1, <1>9, <1>10, <1>12 DEF Counted
<1>15. q[1].tests = Total([e \in SubTests(q, 1) |-> q[e].tests], N)
  <2> DEFINE v == [n \in 0 .. N - 1 |-> [i \in 1 .. N |-> f[n][i].tests]]
  <2>1. \A n \in 0 .. N - 1, i \in 1 .. N : v[n][i] \in Nat /\ v[n][i] = f[n][i].tests
    BY <1>4
  <2>2. N - 1 \in 0 .. N - 1 /\ 0 \in 0 .. N - 1 /\ \A n \in 1 .. N - 1 : n \in 0 .. N - 1 /\ n - 1 \in 0 .. N - 1
    BY <1>1
  <2> HIDE DEF v
  <2>3. v[0][1] = 0
    <3>1. r[1].tests = 0
      BY <1>1 DEF Counted
    <3> QED
      BY <1>1, <1>3, <2>1, <2>2, <3>1
  <2>4. ASSUME NEW n \in 1 .. N - 1, NEW c \in 2 .. N, c = N + 1 - n
        PROVE  /\ v[n][P[c]] = v[n - 1][P[c]] + v[n - 1][c]
               /\ \A i \in 1 .. N : i # P[c] => v[n][i] = v[n - 1][i]
    <3>1. P[c] \in 1 .. N /\ c \in 1 .. N
      BY <1>1, <1>9
    <3>2. /\ n \in 0 .. N - 1 /\ n - 1 \in 0 .. N - 1
          /\ f[n][P[c]].tests = f[n - 1][P[c]].tests + f[n - 1][c].tests
          /\ \A i \in 1 .. N : i # P[c] => f[n][i] = f[n - 1][i]
      BY <1>8, <2>2, <2>4
    <3>3. v[n][P[c]] = v[n - 1][P[c]] + v[n - 1][c]
      BY <2>1, <3>1, <3>2
    <3>4. ASSUME NEW i \in 1 .. N, i # P[c] PROVE v[n][i] = v[n - 1][i]
      <4>1. f[n][i] = f[n - 1][i]
        BY <3>2, <3>4
      <4>2. n \in 0 .. N - 1 /\ n - 1 \in 0 .. N - 1
        BY <3>2
      <4> QED
        BY <2>1, <4>1, <4>2
    <3> QED
      BY <3>3, <3>4
  <2>5. PICK top : top = [e \in SubTests(q, 1) |-> q[e].tests]
    OBVIOUS
  <2>6. ASSUME NEW i \in 1 .. N
        PROVE  At(top, i) = IF i # 1 /\ P[i] = 1 THEN v[N - 1][i] ELSE 0
    <3>1. i \in SubTests(q, 1) <=> i # 1 /\ P[i] = 1
      <4>1. i # 1 <=> i \in 2 .. N
        BY <1>1
      <4> QED
        BY <1>12, <4>1
    <3>2. v[N - 1][i] = q[i].tests
      BY <1>3, <2>1, <2>2
    <3> QED
      BY <2>5, <3>1, <3>2 DEF At
  <2>7. v[N - 1][1] = Total(top, N)
    <3>1. \A n \in 0 .. N - 1, i \in 1 .. N : v[n][i] \in Nat
      BY <2>1
    <3>2. \A c \in 2 .. N : P[c] \in 1 .. c - 1
      BY <1>9
    <3>3. N \in Nat \ {0}
      BY <1>1
    <3> HIDE DEF N
    <3>4. Flows(v, P, N)
      BY <2>3, <2>4, <3>1, <3>2, <3>3 DEF Flows
    <3>5. IsTop(top, v, P, N)
      BY <2>6 DEF IsTop
    <3> QED
      BY <3>4, <3>5, TopsAdded
  <2> QED
    BY <1>1, <1>3, <2>1, <2>2, <2>5, <2>7
<1>16. q[1].fails = Total([e \in SubTests(q, 1) |-> q[e].fails], N)
  <2> DEFINE v == [n \in 0 .. N - 1 |-> [i \in 1 .. N |-> f[n][i].fails]]
  <2>1. \A n \in 0 .. N - 1, i \in 1 .. N : v[n][i] \in Nat /\ v[n][i] = f[n][i].fails
    BY <1>4
  <2>2. N - 1 \in 0 .. N - 1 /\ 0 \in 0 .. N - 1 /\ \A n \in 1 .. N - 1 : n \in 0 .. N - 1 /\ n - 1 \in 0 .. N - 1
    BY <1>1
  <2> HIDE DEF v
  <2>3. v[0][1] = 0
    <3>1. r[1].fails = 0
      BY DEF Counted
    <3> QED
      BY <1>1, <1>3, <2>1, <2>2, <3>1
  <2>4. ASSUME NEW n \in 1 .. N - 1, NEW c \in 2 .. N, c = N + 1 - n
        PROVE  /\ v[n][P[c]] = v[n - 1][P[c]] + v[n - 1][c]
               /\ \A i \in 1 .. N : i # P[c] => v[n][i] = v[n - 1][i]
    <3>1. P[c] \in 1 .. N /\ c \in 1 .. N
      BY <1>1, <1>9
    <3>2. /\ n \in 0 .. N - 1 /\ n - 1 \in 0 .. N - 1
          /\ f[n][P[c]].fails = f[n - 1][P[c]].fails + f[n - 1][c].fails
          /\ \A i \in 1 .. N : i # P[c] => f[n][i] = f[n - 1][i]
      BY <1>8, <2>2, <2>4
    <3>3. v[n][P[c]] = v[n - 1][P[c]] + v[n - 1][c]
      BY <2>1, <3>1, <3>2
    <3>4. ASSUME NEW i \in 1 .. N, i # P[c] PROVE v[n][i] = v[n - 1][i]
      <4>1. f[n][i] = f[n - 1][i]
        BY <3>2, <3>4
      <4>2. n \in 0 .. N - 1 /\ n - 1 \in 0 .. N - 1
        BY <3>2
      <4> QED
        BY <2>1, <4>1, <4>2
    <3> QED
      BY <3>3, <3>4
  <2>5. PICK top : top = [e \in SubTests(q, 1) |-> q[e].fails]
    OBVIOUS
  <2>6. ASSUME NEW i \in 1 .. N
        PROVE  At(top, i) = IF i # 1 /\ P[i] = 1 THEN v[N - 1][i] ELSE 0
    <3>1. i \in SubTests(q, 1) <=> i # 1 /\ P[i] = 1
      <4>1. i # 1 <=> i \in 2 .. N
        BY <1>1
      <4> QED
        BY <1>12, <4>1
    <3>2. v[N - 1][i] = q[i].fails
      BY <1>3, <2>1, <2>2
    <3> QED
      BY <2>5, <3>1, <3>2 DEF At
  <2>7. v[N - 1][1] = Total(top, N)
    <3>1. \A n \in 0 .. N - 1, i \in 1 .. N : v[n][i] \in Nat
      BY <2>1
    <3>2. \A c \in 2 .. N : P[c] \in 1 .. c - 1
      BY <1>9
    <3>3. N \in Nat \ {0}
      BY <1>1
    <3> HIDE DEF N
    <3>4. Flows(v, P, N)
      BY <2>3, <2>4, <3>1, <3>2, <3>3 DEF Flows
    <3>5. IsTop(top, v, P, N)
      BY <2>6 DEF IsTop
    <3> QED
      BY <3>4, <3>5, TopsAdded
  <2> QED
    BY <1>1, <1>3, <2>1, <2>2, <2>5, <2>7
<1>17. AddsUp(q)
  BY <1>2, <1>13, <1>14, <1>15, <1>16 DEF AddsUp
<1> QED
  BY <1>17 DEF q

(***************************************************************************)
(* The statistics                                                          *)
(***************************************************************************)

(* Among some of finitely many numbers there is a first highest. *)
LEMMA FirstHighest ==
  ASSUME NEW n \in Nat, NEW f \in [1 .. n -> Int], NEW S \in SUBSET (1 .. n), S # {}
  PROVE  \E m \in S : \A o \in S : f[o] < f[m] \/ (f[o] = f[m] /\ m <= o)
<1> DEFINE Best(m, i) == /\ m \in S /\ m <= i
                         /\ \A o \in S : o <= i => f[o] < f[m] \/ (f[o] = f[m] /\ m <= o)
           T == {i \in Nat : (\E o \in S : o <= i) => \E m \in S : Best(m, i)}
<1>1. 0 \in T
  OBVIOUS
<1>2. ASSUME NEW i \in T PROVE i + 1 \in T
  <2> SUFFICES ASSUME \E o \in S : o <= i + 1 PROVE \E m \in S : Best(m, i + 1)
    OBVIOUS
  <2>0. i \in Nat /\ \A o \in S : o \in 1 .. n /\ o \in Nat /\ f[o] \in Int
    OBVIOUS
  <2>1. CASE \E o \in S : o <= i
    <3>1. PICK m \in S : Best(m, i)
      BY <2>1
    <3>2. CASE i + 1 \in S /\ f[i + 1] > f[m]
      <4>1. ASSUME NEW o \in S, o <= i + 1
            PROVE  f[o] < f[i + 1] \/ (f[o] = f[i + 1] /\ i + 1 <= o)
        <5>1. CASE o = i + 1
          BY <2>0, <5>1
        <5>2. CASE o # i + 1
          <6>1. o <= i
            BY <2>0, <4>1, <5>2
          <6>2. f[o] <= f[m]
            BY <2>0, <3>1, <6>1
          <6> QED
            BY <2>0, <3>2, <6>2
        <5> QED
          BY <5>1, <5>2
      <4> QED
        BY <3>2, <4>1
    <3>3. CASE ~ (i + 1 \in S /\ f[i + 1] > f[m])
      <4>1. ASSUME NEW o \in S, o <= i + 1
            PROVE  f[o] < f[m] \/ (f[o] = f[m] /\ m <= o)
        <5>1. CASE o = i + 1
          BY <2>0, <3>1, <3>3, <5>1
        <5>2. CASE o # i + 1
          <6>1. o <= i
            BY <2>0, <4>1, <5>2
          <6> QED
            BY <3>1, <6>1
        <5> QED
          BY <5>1, <5>2
      <4>2. m <= i + 1
        BY <2>0, <3>1
      <4> QED
        BY <3>1, <4>1, <4>2
    <3> QED
      BY <3>2, <3>3
  <2>2. CASE ~ \E o \in S : o <= i
    <3>1. ASSUME NEW o \in S, o <= i + 1 PROVE o = i + 1
      <4>1. o \in Nat /\ ~ (o <= i)
        BY <2>0, <2>2
      <4> QED
        BY <2>0, <3>1, <4>1
    <3>2. i + 1 \in S
      BY <3>1
    <3>3. Best(i + 1, i + 1)
      <4>1. ASSUME NEW o \in S, o <= i + 1
            PROVE  f[o] = f[i + 1] /\ i + 1 <= o
        BY <2>0, <3>1, <4>1
      <4> QED
        BY <2>0, <3>2, <4>1
    <3> QED
      BY <3>2, <3>3
  <2> QED
    BY <2>1, <2>2
<1>3. T \in SUBSET Nat
  OBVIOUS
<1> HIDE DEF T
<1>4. n \in T
  BY <1>1, <1>2, <1>3, Inductive
<1>5. \A o \in S : o <= n
  OBVIOUS
<1>6. PICK m \in S : Best(m, n)
  <2>1. PICK o \in S : TRUE
    OBVIOUS
  <2> HIDE DEF Best
  <2> QED
    BY <1>4, <1>5, <2>1 DEF T
<1> QED
  BY <1>5, <1>6

(* The slowest of the manifests left is one of them, and none is slower. *)
LEMMA SlowestOfLeft ==
  ASSUME NEW n \in Nat, NEW times \in [1 .. n -> Nat],
         NEW left \in SUBSET (1 .. n), left # {}
  PROVE  /\ Slowest(times, left) \in left
         /\ \A o \in left : times[o] <= times[Slowest(times, left)]
<1> DEFINE First(m) == \A o \in left : times[o] < times[m] \/ (times[o] = times[m] /\ m <= o)
<1>1. \E m \in left : First(m)
  <2>1. times \in [1 .. n -> Int]
    OBVIOUS
  <2> QED
    BY <2>1, FirstHighest
<1>2. Slowest(times, left) = CHOOSE m \in left : First(m)
  BY DEF Slowest
<1> HIDE DEF First
<1>3. PICK m : m = Slowest(times, left) /\ m \in left /\ First(m)
  BY <1>1, <1>2
<1>4. \A o \in left : times[o] \in Nat
  OBVIOUS
<1>5. \A o \in left : times[o] <= times[m]
  BY <1>3, <1>4 DEF First
<1> QED
  BY <1>3, <1>5

(* With a group there is one that runs no longer than the others. *)
LEMMA LowestGroup ==
  ASSUME NEW n \in Nat \ {0}, NEW runtime \in [1 .. n -> Nat]
  PROVE  /\ getLowestRuntimeGroup(runtime) \in 1 .. n
         /\ \A h \in 1 .. n : runtime[getLowestRuntimeGroup(runtime)] <= runtime[h]
<1> DEFINE First(g) == \A h \in 1 .. n :
                         runtime[g] < runtime[h] \/ (runtime[g] = runtime[h] /\ g <= h)
           neg == [g \in 1 .. n |-> 0 - runtime[g]]
<1>1. \E g \in 1 .. n : First(g)
  <2>1. neg \in [1 .. n -> Int] /\ n \in Nat /\ 1 .. n # {} /\ 1 .. n \in SUBSET (1 .. n)
    <3>1. 1 \in 1 .. n
      OBVIOUS
    <3> QED
      BY <3>1
  <2>2. \A g \in 1 .. n : neg[g] = 0 - runtime[g] /\ runtime[g] \in Nat
    OBVIOUS
  <2> HIDE DEF neg
  <2>3. PICK g \in 1 .. n : \A h \in 1 .. n : neg[h] < neg[g] \/ (neg[h] = neg[g] /\ g <= h)
    BY <2>1, FirstHighest
  <2>4. First(g)
    BY <2>2, <2>3
  <2> QED
    BY <2>4
<1>2. getLowestRuntimeGroup(runtime) = CHOOSE g \in 1 .. n : First(g)
  BY DEF getLowestRuntimeGroup
<1> HIDE DEF First
<1>3. getLowestRuntimeGroup(runtime) \in 1 .. n /\ First(getLowestRuntimeGroup(runtime))
  BY <1>1, <1>2
<1>4. \A h \in 1 .. n : runtime[h] \in Nat
  OBVIOUS
<1> QED
  BY <1>3, <1>4 DEF First

(* The manifests of a group, and those in none. *)
Of(group, c, g) == {m \in 1 .. c : group[m] = g}

(* i of c manifests have been dealt out to n groups: the slowest ones, a group's
   runtime is that of its manifests, and no group runs longer than another by
   more than any manifest of its own. *)
Balanced(group, runtime, times, c, n, i) ==
  /\ group \in [1 .. c -> 0 .. n] /\ runtime \in [1 .. n -> Nat]
  /\ IsFiniteSet(Of(group, c, 0)) /\ Cardinality(Of(group, c, 0)) = c - i
  /\ \A g \in 1 .. n : runtime[g] = Total([m \in Of(group, c, g) |-> times[m]], c)
  /\ \A m, o \in 1 .. c : group[m] = 0 /\ group[o] # 0 => times[m] <= times[o]
  /\ \A m \in 1 .. c, h \in 1 .. n : group[m] # 0 => runtime[group[m]] - runtime[h] <= times[m]

(* Before the first. *)
LEMMA NothingDealt ==
  ASSUME NEW c \in Nat, NEW n \in Nat, NEW times \in [1 .. c -> Nat],
         NEW group \in [1 .. c -> 0 .. n], \A m \in 1 .. c : group[m] = 0,
         NEW runtime \in [1 .. n -> Nat], \A g \in 1 .. n : runtime[g] = 0
  PROVE  Balanced(group, runtime, times, c, n, 0)
<1>1. Of(group, c, 0) = 1 .. c
  BY DEF Of
<1>2. IsFiniteSet(1 .. c) /\ Cardinality(1 .. c) = c
  BY FS_Interval
<1>3. ASSUME NEW g \in 1 .. n PROVE runtime[g] = Total([m \in Of(group, c, g) |-> times[m]], c)
  <2>1. Of(group, c, g) = {}
    BY DEF Of
  <2> DEFINE f == [m \in Of(group, c, g) |-> times[m]]
  <2>2. \A i \in 1 .. c : At(f, i) = 0
    BY <2>1 DEF At
  <2> HIDE DEF f
  <2>3. Total(f, c) = 0
    BY <2>2, TotalOfNothing
  <2> QED
    BY <2>3 DEF f
<1>4. Cardinality(1 .. c) = c - 0
  BY <1>2
<1> QED
  BY <1>1, <1>2, <1>3, <1>4 DEF Balanced

(* The slowest of those left goes to the group that runs the shortest. *)
LEMMA OneDealt ==
  ASSUME NEW c \in Nat, NEW n \in Nat \ {0}, NEW times \in [1 .. c -> Nat],
         NEW i \in 0 .. c, i < c,
         NEW group, NEW runtime, Balanced(group, runtime, times, c, n, i),
         NEW m \in Of(group, c, 0), \A o \in Of(group, c, 0) : times[o] <= times[m],
         NEW g \in 1 .. n, \A h \in 1 .. n : runtime[g] <= runtime[h],
         NEW new, new = [group EXCEPT ![m] = g],
         NEW more, more = [runtime EXCEPT ![g] = @ + times[m]]
  PROVE  Balanced(new, more, times, c, n, i + 1)
<1> DEFINE left == Of(group, c, 0)
<1>1. /\ group \in [1 .. c -> 0 .. n] /\ runtime \in [1 .. n -> Nat]
      /\ IsFiniteSet(left) /\ Cardinality(left) = c - i
      /\ \A h \in 1 .. n : runtime[h] = Total([o \in Of(group, c, h) |-> times[o]], c)
      /\ \A d, o \in 1 .. c : group[d] = 0 /\ group[o] # 0 => times[d] <= times[o]
      /\ \A d \in 1 .. c, h \in 1 .. n : group[d] # 0 => runtime[group[d]] - runtime[h] <= times[d]
  BY DEF Balanced
<1>4. m \in 1 .. c /\ group[m] = 0 /\ times[m] \in Nat
  BY DEF Of
<1>5. g \in 1 .. n /\ runtime[g] \in Nat /\ \A h \in 1 .. n : runtime[g] <= runtime[h]
  BY <1>1
<1>6. /\ new \in [1 .. c -> 0 .. n] /\ more \in [1 .. n -> Nat]
      /\ \A o \in 1 .. c : new[o] = IF o = m THEN g ELSE group[o]
      /\ \A h \in 1 .. n : more[h] = IF h = g THEN runtime[h] + times[m] ELSE runtime[h]
  <2>1. g \in 0 .. n /\ runtime[g] + times[m] \in Nat
    BY <1>4, <1>5
  <2>2. new \in [1 .. c -> 0 .. n] /\ \A o \in 1 .. c : new[o] = IF o = m THEN g ELSE group[o]
    BY <1>1, <1>4, <2>1
  <2>3. /\ more \in [1 .. n -> Nat]
        /\ \A h \in 1 .. n : more[h] = IF h = g THEN runtime[h] + times[m] ELSE runtime[h]
    BY <1>1, <1>5, <2>1
  <2> QED
    BY <2>2, <2>3
<1>7. g # 0
  BY <1>5
<1>a. PICK d \in Nat : d = times[m]
  BY <1>4
<1>8. IsFiniteSet(Of(new, c, 0)) /\ Cardinality(Of(new, c, 0)) = c - (i + 1)
  <2>1. Of(new, c, 0) = left \ {m}
    BY <1>4, <1>6, <1>7 DEF Of
  <2>2. IsFiniteSet(left \ {m}) /\ Cardinality(left \ {m}) = Cardinality(left) - 1
    <3> HIDE DEF left
    <3> QED
      BY <1>1, FS_RemoveElement DEF left
  <2>3. (c - i) - 1 = c - (i + 1)
    OBVIOUS
  <2> HIDE DEF left
  <2> QED
    BY <1>1, <2>1, <2>2, <2>3
<1>9. ASSUME NEW h \in 1 .. n PROVE more[h] = Total([o \in Of(new, c, h) |-> times[o]], c)
  <2> DEFINE old == [o \in Of(group, c, h) |-> times[o]]
             f == [o \in Of(new, c, h) |-> times[o]]
  <2>1. runtime[h] = Total(old, c)
    BY <1>1
  <2>2. ASSUME NEW o \in 1 .. c
        PROVE  /\ At(old, o) = IF group[o] = h THEN times[o] ELSE 0
               /\ At(f, o) = IF new[o] = h THEN times[o] ELSE 0
    BY DEF At, Of
  <2>3. \A o \in 1 .. c : times[o] \in Nat
    OBVIOUS
  <2>4. h # 0
    OBVIOUS
  <2> HIDE DEF old, f
  <2>5. CASE h = g
    <3>1. /\ \A o \in 1 .. c : At(old, o) \in Nat
          /\ \A o \in 1 .. c : o # m => At(f, o) = At(old, o)
          /\ At(f, m) = At(old, m) + d
      <4>1. ASSUME NEW o \in 1 .. c PROVE At(old, o) \in Nat
        <5>1. At(old, o) = times[o] \/ At(old, o) = 0
          BY <2>2
        <5> QED
          BY <2>3, <5>1
      <4>2. \A o \in 1 .. c : o # m => At(f, o) = At(old, o)
        BY <1>6, <2>2
      <4>3. At(f, m) = d /\ At(old, m) = 0
        BY <1>4, <1>6, <1>a, <2>2, <2>4, <2>5
      <4> QED
        BY <4>1, <4>2, <4>3
    <3>2. m \in 1 .. c
      BY <1>4
    <3>3. Total(f, c) = Total(old, c) + d
      BY <3>1, <3>2, TotalAdds, SMTT(30)
    <3>4. more[h] = runtime[h] + d
      BY <1>6, <1>a, <2>5
    <3> QED
      BY <2>1, <3>3, <3>4 DEF f
  <2>6. CASE h # g
    <3>1. ASSUME NEW o \in 1 .. c PROVE At(old, o) \in Nat /\ At(f, o) = At(old, o)
      <4>1. new[o] = h <=> group[o] = h
        BY <1>4, <1>6, <2>4, <2>6
      <4>2. times[o] \in Nat
        BY <2>3
      <4> QED
        BY <2>2, <4>1, <4>2
    <3>2. Total(f, c) = Total(old, c)
      BY <3>1, TotalSame
    <3> QED
      BY <1>6, <2>1, <2>6, <3>2 DEF f
  <2> QED
    BY <2>5, <2>6
<1>10. ASSUME NEW e \in 1 .. c, NEW o \in 1 .. c, new[e] = 0, new[o] # 0
       PROVE  times[e] <= times[o]
  <2>1. e # m /\ group[e] = 0
    BY <1>6, <1>7, <1>10
  <2>2. CASE o = m
    BY <2>1, <2>2 DEF Of
  <2>3. CASE o # m
    BY <1>1, <1>6, <1>10, <2>1, <2>3
  <2> QED
    BY <2>2, <2>3
<1>11. ASSUME NEW e \in 1 .. c, NEW h \in 1 .. n, new[e] # 0
       PROVE  more[new[e]] - more[h] <= times[e]
  <2>1. /\ runtime[h] \in Nat /\ more[h] \in Nat /\ times[e] \in Nat
        /\ runtime[h] <= more[h] /\ new[e] \in 1 .. n
    <3>1. more[h] = IF h = g THEN runtime[h] + times[m] ELSE runtime[h]
      BY <1>6
    <3>2. runtime[h] \in Nat /\ more[h] \in Nat /\ times[e] \in Nat
      BY <1>1, <1>6
    <3>3. new[e] \in 1 .. n
      BY <1>6, <1>11
    <3> QED
      BY <1>4, <3>1, <3>2, <3>3
  <2>2. more[new[e]] = IF new[e] = g THEN runtime[new[e]] + times[m] ELSE runtime[new[e]]
    BY <1>6, <2>1
  <2>3. runtime[new[e]] \in Nat
    BY <1>1, <2>1
  <2>4. CASE new[e] = g
    <3>1. times[m] <= times[e]
      <4>1. CASE e = m
        BY <1>4, <4>1
      <4>2. CASE e # m
        BY <1>1, <1>4, <1>6, <1>11, <4>2
      <4> QED
        BY <4>1, <4>2
    <3>2. runtime[g] <= runtime[h]
      BY <1>5
    <3>3. more[new[e]] = runtime[g] + d
      BY <1>a, <2>2, <2>4
    <3>4. d <= times[e]
      BY <1>a, <3>1
    <3>5. \A x, y, z, w \in Nat : x <= y /\ y <= z /\ d <= w => (x + d) - z <= w
      OBVIOUS
    <3> QED
      BY <1>5, <2>1, <3>2, <3>3, <3>4, <3>5
  <2>5. CASE new[e] # g
    <3>1. e # m /\ new[e] = group[e]
      BY <1>6, <2>5
    <3>2. runtime[new[e]] - runtime[h] <= times[e]
      BY <1>1, <1>11, <3>1
    <3>3. more[new[e]] = runtime[new[e]]
      BY <2>2, <2>5
    <3>4. \A x, y, z, w \in Nat : x - y <= w /\ y <= z => x - z <= w
      OBVIOUS
    <3> QED
      BY <2>1, <2>3, <3>2, <3>3, <3>4
  <2> QED
    BY <2>4, <2>5
<1> QED
  BY <1>6, <1>8, <1>9, <1>10, <1>11 DEF Balanced

(* All manifests are dealt out when parseJSONStatsResult is done. *)
LEMMA AllDealt ==
  ASSUME NEW c \in Nat, NEW n \in Nat \ {0}, NEW times \in [1 .. c -> Nat]
  PROVE  LET s == parseJSONStatsResult(times, n) IN Balanced(s.group, s.runtime, times, c, n, c)
<1> DEFINE base == [group |-> [m \in 1 .. c |-> 0], runtime |-> [g \in 1 .. n |-> 0]]
           Choice(s) == Slowest(times, Of(s.group, c, 0))
           Group(s) == getLowestRuntimeGroup(s.runtime)
           Deal(s) == [group |-> [s.group EXCEPT ![Choice(s)] = Group(s)],
                       runtime |-> [s.runtime EXCEPT ![Group(s)] = @ + times[Choice(s)]]]
           Next1(d, i) == IF i = 0 THEN base ELSE Deal(d[i - 1])
           Is(d) == d = [i \in 0 .. c |-> Next1(d, i)]
           Well(s, i) == Balanced(s.group, s.runtime, times, c, n, i)
           S == [group: [1 .. c -> 0 .. n], runtime: [1 .. n -> Nat]]
           g == [x \in (1 .. c) \X S |-> IF Well(x[2], x[1] - 1) THEN Deal(x[2]) ELSE base]
<1>1. base \in S /\ Well(base, 0)
  <2>1. PICK group, runtime : group = [m \in 1 .. c |-> 0] /\ runtime = [h \in 1 .. n |-> 0]
    OBVIOUS
  <2>2. Balanced(group, runtime, times, c, n, 0)
    <3>1. /\ group \in [1 .. c -> 0 .. n] /\ \A m \in 1 .. c : group[m] = 0
          /\ runtime \in [1 .. n -> Nat] /\ \A h \in 1 .. n : runtime[h] = 0
      BY <2>1
    <3> QED
      BY <3>1, NothingDealt
  <2>3. base.group = group /\ base.runtime = runtime /\ base \in S
    BY <2>1
  <2> QED
    BY <2>2, <2>3
<1>2. ASSUME NEW i \in 1 .. c, NEW s, Well(s, i - 1)
      PROVE  Deal(s) \in S /\ Well(Deal(s), i)
  <2> DEFINE left == Of(s.group, c, 0)
  <2>1. /\ i - 1 \in 0 .. c /\ i - 1 < c /\ (i - 1) + 1 = i
        /\ Cardinality(left) = c - (i - 1) /\ IsFiniteSet(left) /\ left \in SUBSET (1 .. c)
        /\ s.runtime \in [1 .. n -> Nat]
    BY <1>2 DEF Balanced, Of
  <2>2. left # {}
    <3>1. Cardinality(left) # 0
      BY <2>1
    <3> HIDE DEF left
    <3> QED
      BY <2>1, <3>1, FS_EmptySet
  <2>3. PICK m : m = Choice(s) /\ m \in left /\ \A o \in left : times[o] <= times[m]
    BY <2>1, <2>2, SlowestOfLeft
  <2>4. PICK h : h = Group(s) /\ h \in 1 .. n /\ \A o \in 1 .. n : s.runtime[h] <= s.runtime[o]
    BY <2>1, LowestGroup
  <2> HIDE DEF Choice, Group
  <2>5. PICK new, more : /\ new = [s.group EXCEPT ![m] = h]
                         /\ more = [s.runtime EXCEPT ![h] = @ + times[m]]
    OBVIOUS
  <2>6. Well(Deal(s), i)
    <3>1. Deal(s).group = new /\ Deal(s).runtime = more
      BY <2>3, <2>4, <2>5
    <3> HIDE DEF Deal
    <3>2. Balanced(s.group, s.runtime, times, c, n, i - 1)
      BY <1>2
    <3>3. Balanced(new, more, times, c, n, (i - 1) + 1)
      BY <2>1, <2>3, <2>4, <2>5, <3>2, OneDealt
    <3> QED
      BY <2>1, <3>1, <3>3
  <2>7. Deal(s) \in S
    BY <2>6 DEF Balanced
  <2> QED
    BY <2>6, <2>7
<1> HIDE DEF base, Deal, Well, S
<1>3. g \in [(1 .. c) \X S -> S]
  <2>1. ASSUME NEW i \in 1 .. c, NEW s \in S
        PROVE (IF Well(s, i - 1) THEN Deal(s) ELSE base) \in S
    BY <1>1, <1>2
  <2> QED
    BY <2>1
<1>4. PICK f : Iterates(f, S, base, c, g)
  <2> HIDE DEF g
  <2> QED
    BY <1>1, <1>3, Iterated
<1>5. /\ f \in [0 .. c -> S] /\ f[0] = base
      /\ \A i \in 1 .. c : f[i] = IF Well(f[i - 1], i - 1) THEN Deal(f[i - 1]) ELSE base
  <2>1. f \in [0 .. c -> S] /\ f[0] = base /\ \A i \in 1 .. c : f[i] = g[<<i, f[i - 1]>>]
    BY <1>4 DEF Iterates
  <2>2. ASSUME NEW i \in 1 .. c PROVE <<i, f[i - 1]>> \in (1 .. c) \X S
    <3>1. i - 1 \in 0 .. c
      OBVIOUS
    <3> QED
      BY <2>1, <3>1
  <2> QED
    BY <2>1, <2>2
<1>6. ASSUME NEW i \in 0 .. c PROVE Well(f[i], i)
  <2> DEFINE T == {j \in Nat : j <= c => Well(f[j], j)}
  <2>1. 0 \in T
    BY <1>1, <1>5
  <2>2. ASSUME NEW j \in T PROVE j + 1 \in T
    <3> SUFFICES ASSUME j + 1 <= c PROVE Well(f[j + 1], j + 1)
      OBVIOUS
    <3>1. j + 1 \in 1 .. c /\ (j + 1) - 1 = j /\ Well(f[j], j)
      OBVIOUS
    <3>2. f[j + 1] = Deal(f[j])
      BY <1>5, <3>1
    <3>3. Well(Deal(f[j]), j + 1)
      BY <1>2, <3>1
    <3> QED
      BY <3>2, <3>3
  <2>3. T \in SUBSET Nat
    OBVIOUS
  <2> HIDE DEF T
  <2>4. T = Nat
    BY <2>1, <2>2, <2>3, Inductive
  <2> QED
    BY <2>4 DEF T
<1>7. Is(f)
  <2>1. ASSUME NEW i \in 0 .. c PROVE f[i] = Next1(f, i)
    <3>1. CASE i = 0
      BY <1>5, <3>1
    <3>2. CASE i # 0
      <4>1. i \in 1 .. c /\ i - 1 \in 0 .. c
        BY <3>2
      <4> QED
        BY <1>5, <1>6, <3>2, <4>1
    <3> QED
      BY <3>1, <3>2
  <2>2. f = [i \in 0 .. c |-> f[i]]
    BY <1>5
  <2> HIDE DEF Next1
  <2> QED
    BY <2>1, <2>2
<1>8. PICK h : Is(h) /\ parseJSONStatsResult(times, n) = h[c]
  <2>1. Len(times) = c /\ DOMAIN times = 1 .. c
    OBVIOUS
  <2>2. parseJSONStatsResult(times, n) = (CHOOSE h : Is(h))[c]
    BY <2>1 DEF parseJSONStatsResult, base, Deal, Of
  <2> HIDE DEF Is
  <2> QED
    BY <1>7, <2>2
<1>9. ASSUME NEW i \in Nat PROVE i <= c => Well(h[i], i)
  <2> DEFINE T == {j \in Nat : j <= c => Well(h[j], j)}
  <2>1. 0 \in T
    BY <1>1, <1>8
  <2>2. ASSUME NEW j \in T PROVE j + 1 \in T
    <3> SUFFICES ASSUME j + 1 <= c PROVE Well(h[j + 1], j + 1)
      OBVIOUS
    <3>1. j + 1 \in 1 .. c /\ j + 1 \in 0 .. c /\ j + 1 # 0 /\ (j + 1) - 1 = j /\ Well(h[j], j)
      OBVIOUS
    <3>2. h[j + 1] = Deal(h[j])
      BY <1>8, <3>1
    <3>3. Well(Deal(h[j]), j + 1)
      BY <1>2, <3>1
    <3> QED
      BY <3>2, <3>3
  <2>3. T \in SUBSET Nat
    OBVIOUS
  <2> HIDE DEF T
  <2>4. T = Nat
    BY <2>1, <2>2, <2>3, Inductive
  <2> QED
    BY <2>4 DEF T
<1> QED
  BY <1>8, <1>9 DEF Well

(***************************************************************************)
(* The process                                                             *)
(***************************************************************************)

(* Where the process stands: there is a current manifest while one is loaded,
   run or left, and no test has been run before it is loaded. *)
Placed ==
  /\ pc = "config" => k = 0
  /\ pc = "load" => t = 0
  /\ pc \in {"load", "suite", "leave"} => k \in 1 .. Len(todo)

(* The report shows that something failed exactly if it did, but for a
   manifest that is about to be left. *)
ReportTells ==
  /\ failed <=> SomeFailure(rep) \/ (pc = "leave" /\ ~success)
  /\ (pc = "suite" /\ ~success) => failed

ProcessInv == TypeOK /\ IsTree(rep) /\ Placed /\ ReportTells /\ ExitCodeExact

(* A report file that is written or not: the tree shows the same failures. *)
LEMMA WrittenToFile ==
  ASSUME IsTree(rep), file \in Seq(ReportElement), WriteToFile
  PROVE  /\ IsTree(rep') /\ Len(rep') = Len(rep)
         /\ SomeFailure(rep') <=> SomeFailure(rep)
         /\ file' \in Seq(ReportElement)
<1>1. CASE conf.reportFile
  <2>1. rep' = getTestResult(rep) /\ file' = rep'
    BY <1>1 DEF WriteToFile
  <2>2. IsTree(rep') /\ Len(rep') = Len(rep) /\ (SomeFailure(rep') <=> SomeFailure(rep))
    BY <2>1, Totals
  <2> QED
    BY <2>1, <2>2 DEF IsTree
<1>2. CASE ~conf.reportFile
  BY <1>2 DEF WriteToFile
<1> QED
  BY <1>1, <1>2

(* What a test does to the report. *)
LEMMA Tested ==
  ASSUME NEW r, IsTree(r), NEW m \in 1 .. Len(r), NEW n \in Nat, NEW bad \in 0 .. n,
         NEW ok \in BOOLEAN
  PROVE  LET e == Newest(r) + 1
             w == Leave(WithCases(NewChild(r, m), e, n, bad), e, ok) IN
         /\ IsTree(w) /\ Len(w) = Len(r) + 1 + n /\ e = Len(r) + 1
         /\ SomeFailure(w) <=> SomeFailure(r) \/ bad > 0 \/ ~ok
<1> DEFINE e == Newest(r) + 1
           c == NewChild(r, m)
           a == WithCases(c, e, n, bad)
           w == Leave(a, e, ok)
<1>1. Len(r) \in Nat /\ e = Len(r) + 1
  BY TreeElements DEF Newest
<1>2. IsTree(c) /\ Len(c) = Len(r) + 1 /\ (SomeFailure(c) <=> SomeFailure(r))
  BY NewChildTree
<1>3. e \in 1 .. Len(c)
  BY <1>1, <1>2
<1> HIDE DEF e, c
<1>4. IsTree(a) /\ Len(a) = Len(c) + n /\ (SomeFailure(a) <=> SomeFailure(c) \/ bad > 0)
  BY <1>2, <1>3, CasesAdded
<1> HIDE DEF a
<1>5. e \in 1 .. Len(a)
  BY <1>1, <1>2, <1>3, <1>4
<1>6. IsTree(w) /\ Len(w) = Len(a) /\ (SomeFailure(w) <=> SomeFailure(a) \/ ~ok)
  BY <1>4, <1>5, LeaveTree
<1> HIDE DEF w
<1>7. Len(w) = Len(r) + 1 + n
  BY <1>1, <1>2, <1>4, <1>6
<1>8. SomeFailure(w) <=> SomeFailure(r) \/ bad > 0 \/ ~ok
  BY <1>2, <1>4, <1>6
<1> QED
  BY <1>1, <1>6, <1>7, <1>8 DEF e, c, a, w

(* The process starts with an empty report and no failure. *)
LEMMA ProcessInit == Init => ProcessInv
<1> SUFFICES ASSUME Init PROVE ProcessInv
  OBVIOUS
<1>1. NewElement(0) \in ReportElement /\ NewElement(0).fails = 0
  BY DEF NewElement, ReportElement
<1>2. rep \in Seq(ReportElement) /\ Len(rep) = 1 /\ rep[1].fails = 0 /\ DOMAIN rep = {1}
  BY <1>1 DEF Init, NewReport
<1>3. IsTree(rep)
  BY <1>2, EmptySeq DEF IsTree
<1>4. ~SomeFailure(rep)
  BY <1>2 DEF SomeFailure
<1>5. TypeOK
  <2>1. todo \in Seq(Manifest) /\ file \in Seq(ReportElement) /\ Len(todo) = 0
    BY EmptySeq DEF Init
  <2>2. cur \in DOMAIN rep /\ logged \subseteq DOMAIN rep
    BY <1>2 DEF Init, Root
  <2>3. k \in 0 .. Len(todo) /\ t \in Nat
    BY <2>1 DEF Init
  <2> QED
    BY <1>2, <2>1, <2>2, <2>3 DEF Init, TypeOK
<1> QED
  BY <1>3, <1>4, <1>5 DEF Init, ProcessInv, Placed, ReportTells, ExitCodeExact

(* Every step keeps the invariant. *)
LEMMA ProcessNext == ProcessInv /\ [Next]_vars => ProcessInv'
<1> SUFFICES ASSUME ProcessInv, [Next]_vars PROVE ProcessInv'
  OBVIOUS
<1>1. TypeOK /\ IsTree(rep) /\ Placed /\ ReportTells /\ ExitCodeExact
  BY DEF ProcessInv
<1>2. Len(rep) \in Nat \ {0} /\ DOMAIN rep = 1 .. Len(rep) /\ cur \in 1 .. Len(rep)
      /\ logged \subseteq 1 .. Len(rep)
  BY <1>1, TreeElements DEF TypeOK
<1>3. conf.manifests \in Seq(Manifest)
  BY <1>1, ConfigAssumption DEF TypeOK, Config
<1>4. CASE Configure
  BY <1>1, <1>3, <1>4, LenProperties
     DEF Configure, TypeOK, ProcessInv, Placed, ReportTells, ExitCodeExact, Current
<1>5. CASE ConfigError
  <2>1. /\ IsTree(rep') /\ Len(rep') = Len(rep) /\ file' \in Seq(ReportElement)
        /\ SomeFailure(rep') <=> SomeFailure(rep)
    BY <1>1, <1>5, WrittenToFile DEF ConfigError, TypeOK
  <2>2. todo' \in Seq(Manifest)
    <3>1. todo' \in {<< >>, conf.manifests}
      BY <1>5 DEF ConfigError
    <3> QED
      BY <1>3, <3>1, EmptySeq
  <2>3. TypeOK'
    <3>1. DOMAIN rep' = 1 .. Len(rep')
      BY <2>1, TreeElements
    <3>2. cur' \in DOMAIN rep' /\ logged' \subseteq DOMAIN rep' /\ rep' \in Seq(ReportElement)
      BY <1>2, <1>5, <2>1, <3>1 DEF ConfigError, IsTree
    <3>3. k' \in 0 .. Len(todo')
      BY <1>1, <1>5, <2>2, LenProperties DEF ConfigError, Placed
    <3> QED
      BY <1>1, <1>5, <2>1, <2>2, <3>2, <3>3 DEF ConfigError, TypeOK
  <2> QED
    BY <1>1, <1>5, <2>1, <2>3
       DEF ConfigError, ProcessInv, Placed, ReportTells, ExitCodeExact
<1>6. CASE NextManifest
  <2>1. /\ IsTree(rep') /\ Len(rep') = Len(rep) + 1 /\ cur' = Len(rep')
        /\ SomeFailure(rep') <=> SomeFailure(rep)
    BY <1>1, <1>2, <1>6, NewChildTree DEF NextManifest, Root, Newest
  <2>2. TypeOK'
    <3>1. DOMAIN rep' = 1 .. Len(rep')
      BY <2>1, TreeElements
    <3>2. cur' \in DOMAIN rep' /\ logged' \subseteq DOMAIN rep' /\ rep' \in Seq(ReportElement)
      BY <1>2, <1>6, <2>1, <3>1 DEF NextManifest, IsTree
    <3> QED
      BY <1>1, <1>6, <3>2, LenProperties DEF NextManifest, TypeOK
  <2>3. Placed'
    BY <1>1, <1>6, LenProperties DEF NextManifest, TypeOK, Placed
  <2> QED
    BY <1>1, <1>6, <2>1, <2>2, <2>3
       DEF NextManifest, ProcessInv, ReportTells, ExitCodeExact
<1>7. CASE LoadError
  <2>1. /\ IsTree(rep') /\ Len(rep') = Len(rep) /\ file' \in Seq(ReportElement)
        /\ SomeFailure(rep') <=> SomeFailure(rep)
    BY <1>1, <1>7, WrittenToFile DEF LoadError, TypeOK
  <2>2. TypeOK'
    <3>1. DOMAIN rep' = 1 .. Len(rep')
      BY <2>1, TreeElements
    <3>2. cur' \in DOMAIN rep' /\ logged' \subseteq DOMAIN rep' /\ rep' \in Seq(ReportElement)
      BY <1>2, <1>7, <2>1, <3>1 DEF LoadError, IsTree
    <3> QED
      BY <1>1, <1>7, <2>1, <3>2 DEF LoadError, TypeOK
  <2> QED
    BY <1>1, <1>7, <2>1, <2>2 DEF LoadError, ProcessInv, Placed, ReportTells, ExitCodeExact
<1>8. CASE Load
  <2>1. Current.tests \in Nat /\ Current' = Current
    <3>1. todo[k] \in Manifest
      BY <1>1, <1>8, ElementOfSeq DEF Load, TypeOK, Placed
    <3> QED
      BY <1>8, <3>1 DEF Load, Current, Manifest
  <2>2. TypeOK'
    BY <1>1, <1>8, <2>1 DEF Load, TypeOK, Placed
  <2> QED
    BY <1>1, <1>8, <2>2 DEF Load, ProcessInv, Placed, ReportTells, ExitCodeExact
<1>9. ASSUME NEW n \in 0 .. MaxCases, NEW ok \in BOOLEAN, NEW bad \in 0 .. n,
             NEW lines \in SUBSET (0 .. n), RunTest(n, bad, ok, lines)
      PROVE  ProcessInv'
  <2> DEFINE e == Newest(rep) + 1
  <2>1. n \in Nat /\ bad \in 0 .. n
    BY <1>9, BoundsAssumption
  <2>2. rep' = Leave(WithCases(NewChild(rep, cur), e, n, bad), e, ok)
    BY <1>9 DEF RunTest
  <2>3. /\ IsTree(rep') /\ Len(rep') = Len(rep) + 1 + n /\ e = Len(rep) + 1
        /\ SomeFailure(rep') <=> SomeFailure(rep) \/ bad > 0 \/ ~ok
    BY <1>1, <1>2, <2>1, <2>2, Tested
  <2>4. logged' \subseteq 1 .. Len(rep')
    <3>1. logged' = logged \cup {e + i : i \in lines}
      BY <1>9 DEF RunTest
    <3> HIDE DEF e
    <3>2. logged \subseteq 1 .. Len(rep') /\ \A i \in lines : e + i \in 1 .. Len(rep')
      BY <1>2, <2>1, <2>3
    <3> QED
      BY <3>1, <3>2
  <2>5. Current' = Current /\ Current.tests \in Nat
    <3>1. todo[k] \in Manifest
      BY <1>1, <1>9, ElementOfSeq DEF RunTest, TypeOK, Placed
    <3> QED
      BY <1>9, <3>1 DEF RunTest, Current, Manifest
  <2>6. TypeOK'
    <3>1. DOMAIN rep' = 1 .. Len(rep') /\ rep' \in Seq(ReportElement)
      BY <2>3, TreeElements DEF IsTree
    <3>2. cur' \in DOMAIN rep' /\ logged' \subseteq DOMAIN rep'
      <4>1. cur' = cur
        BY <1>9 DEF RunTest
      <4> HIDE DEF e
      <4> QED
        BY <1>2, <2>1, <2>3, <2>4, <3>1, <4>1
    <3>3. t' \in Nat /\ t' <= Current'.tests
      BY <1>1, <1>9, <2>5 DEF RunTest, TypeOK
    <3>4. success' \in BOOLEAN /\ failed' \in BOOLEAN
      BY <1>1, <1>9 DEF RunTest, TypeOK
    <3> QED
      BY <1>1, <1>9, <3>1, <3>2, <3>3, <3>4 DEF RunTest, TypeOK
  <2>7. ReportTells'
    <3>1. pc = "suite" /\ pc' = pc /\ success' = ok /\ failed' = (failed \/ ~ok \/ bad > 0)
      BY <1>9 DEF RunTest
    <3> QED
      BY <1>1, <2>3, <3>1 DEF ReportTells
  <2> QED
    BY <1>1, <1>9, <2>3, <2>6, <2>7 DEF RunTest, ProcessInv, Placed, ExitCodeExact
<1>10. CASE LeaveSuite
  <2>1. /\ IsTree(rep') /\ Len(rep') = Len(rep)
        /\ SomeFailure(rep') <=> SomeFailure(rep) \/ ~success
    BY <1>1, <1>2, <1>10, LeaveTree DEF LeaveSuite, TypeOK
  <2>2. TypeOK'
    <3>1. DOMAIN rep' = 1 .. Len(rep') /\ rep' \in Seq(ReportElement)
      BY <2>1, TreeElements DEF IsTree
    <3>2. cur' \in DOMAIN rep' /\ logged' \subseteq DOMAIN rep'
      BY <1>2, <1>10, <2>1, <3>1 DEF LeaveSuite
    <3> QED
      BY <1>1, <1>10, <3>1, <3>2 DEF LeaveSuite, TypeOK
  <2>3. ReportTells'
    <3>1. pc = "suite" /\ pc' = "leave" /\ success' = success /\ failed' = failed
      BY <1>10 DEF LeaveSuite
    <3> QED
      BY <1>1, <2>1, <3>1 DEF ReportTells
  <2> QED
    BY <1>1, <1>10, <2>1, <2>2, <2>3 DEF LeaveSuite, ProcessInv, Placed, ExitCodeExact
<1>11. CASE LeaveManifest
  <2>1. /\ IsTree(rep') /\ Len(rep') = Len(rep)
        /\ SomeFailure(rep') <=> SomeFailure(rep) \/ ~success
    BY <1>1, <1>2, <1>11, LeaveTree DEF LeaveManifest, TypeOK
  <2>2. TypeOK'
    <3>1. DOMAIN rep' = 1 .. Len(rep') /\ rep' \in Seq(ReportElement)
      BY <2>1, TreeElements DEF IsTree
    <3>2. cur' \in DOMAIN rep' /\ logged' \subseteq DOMAIN rep'
      BY <1>2, <1>11, <2>1, <3>1 DEF LeaveManifest
    <3> QED
      BY <1>1, <1>11, <3>1, <3>2 DEF LeaveManifest, TypeOK
  <2>3. ReportTells'
    <3>1. pc = "leave" /\ pc' \in {"report", "next"} /\ success' = success /\ failed' = failed
      BY <1>11 DEF LeaveManifest
    <3> QED
      BY <1>1, <2>1, <3>1 DEF ReportTells
  <2> QED
    BY <1>1, <1>11, <2>1, <2>2, <2>3 DEF LeaveManifest, ProcessInv, Placed, ExitCodeExact
<1>12. CASE LastManifest
  BY <1>1, <1>12 DEF LastManifest, TypeOK, ProcessInv, Placed, ReportTells, ExitCodeExact
<1>13. CASE WriteReport
  <2>1. /\ IsTree(rep') /\ Len(rep') = Len(rep) /\ file' \in Seq(ReportElement)
        /\ SomeFailure(rep') <=> SomeFailure(rep)
    BY <1>1, <1>13, WrittenToFile DEF WriteReport, TypeOK
  <2>2. TypeOK'
    <3>1. DOMAIN rep' = 1 .. Len(rep') /\ rep' \in Seq(ReportElement)
      BY <2>1, TreeElements DEF IsTree
    <3>2. cur' \in DOMAIN rep' /\ logged' \subseteq DOMAIN rep'
      BY <1>2, <1>13, <2>1, <3>1 DEF WriteReport
    <3> QED
      BY <1>1, <1>13, <2>1, <3>1, <3>2 DEF WriteReport, TypeOK
  <2> QED
    BY <1>1, <1>13, <2>1, <2>2 DEF WriteReport, ProcessInv, Placed, ReportTells, ExitCodeExact
<1>14. CASE Exit
  <2>1. /\ IsTree(rep') /\ Len(rep') = Len(rep)
        /\ SomeFailure(rep') <=> SomeFailure(rep)
        /\ DidFail(rep) <=> SomeFailure(rep)
    BY <1>1, <1>14, Totals DEF Exit
  <2>2. TypeOK'
    <3>1. DOMAIN rep' = 1 .. Len(rep') /\ rep' \in Seq(ReportElement)
      BY <2>1, TreeElements DEF IsTree
    <3>2. cur' \in DOMAIN rep' /\ logged' \subseteq DOMAIN rep'
      BY <1>2, <1>14, <2>1, <3>1 DEF Exit
    <3> QED
      BY <1>1, <1>14, <3>1, <3>2 DEF Exit, TypeOK
  <2>3. ReportTells'
    BY <1>1, <1>14, <2>1 DEF Exit, ReportTells
  <2>4. ExitCodeExact'
    BY <1>1, <1>14, <2>1 DEF Exit, ReportTells, ExitCodeExact
  <2> QED
    BY <1>14, <2>1, <2>2, <2>3, <2>4 DEF Exit, ProcessInv, Placed
<1>15. CASE Fatal
  BY <1>1, <1>15 DEF Fatal, TypeOK, ProcessInv, Placed, ReportTells, ExitCodeExact
<1>16. CASE UNCHANGED vars
  BY <1>1, <1>16
     DEF vars, TypeOK, ProcessInv, Placed, ReportTells, ExitCodeExact, Current, SomeFailure
<1>17. CASE Ended
  BY <1>16, <1>17 DEF Ended
<1> QED
  BY <1>4, <1>5, <1>6, <1>7, <1>8, <1>9, <1>10, <1>11, <1>12, <1>13, <1>14, <1>15, <1>16, <1>17
     DEF Next

(* The invariant holds of every state of every run of the process. *)
THEOREM ProcessIsInvariant == Spec => []ProcessInv
  BY ProcessInit, ProcessNext, PTL DEF Spec

(* runApiTests: every variable of the process keeps its type, and the current
   element is one of the report. *)
THEOREM Apitest_TypeCorrect == Spec => []TypeOK
<1>1. ProcessInv => TypeOK
  BY DEF ProcessInv
<1> QED
  BY <1>1, ProcessIsInvariant, PTL

(* main.go:282: whatever the manifests, however often the tree is added up,
   the process that ends exits with 1 exactly if something failed. *)
THEOREM Apitest_ExitCodeExact == Spec => []ExitCodeExact
<1>1. ProcessInv => ExitCodeExact
  BY DEF ProcessInv
<1> QED
  BY <1>1, ProcessIsInvariant, PTL

(* parsing_functions.go:71, :130: however many manifests there are and whatever
   time each took, they are all dealt out to the groups, and no group runs longer
   than another by more than its own shortest manifest. *)
THEOREM Apitest_GroupsBalanced == Spec => []GroupsBalanced
<1>1. ASSUME TypeOK PROVE GroupsBalanced
  <2> SUFFICES ASSUME NEW times \in [1 .. k -> Times]
      PROVE LET stats == parseJSONStatsResult(times, Groups)
                of(g) == {m \in 1 .. k : stats.group[m] = g} IN
            /\ \A m \in 1 .. k : stats.group[m] \in 1 .. Groups
            /\ \A g \in 1 .. Groups :
                 /\ stats.runtime[g] = Total([m \in of(g) |-> times[m]], k)
                 /\ \A h \in 1 .. Groups, m \in of(g) :
                      stats.runtime[g] - stats.runtime[h] <= times[m]
    BY DEF GroupsBalanced
  <2>1. k \in Nat /\ Groups \in Nat \ {0} /\ times \in [1 .. k -> Nat]
    <3>1. Len(todo) \in Nat
      BY <1>1, LenProperties DEF TypeOK
    <3>2. k \in Nat
      BY <1>1, <3>1 DEF TypeOK
    <3>3. Groups \in Nat \ {0} /\ Times \subseteq Nat
      BY BoundsAssumption
    <3> QED
      BY <3>2, <3>3
  <2>2. PICK stats : stats = parseJSONStatsResult(times, Groups)
    OBVIOUS
  <2>3. Balanced(stats.group, stats.runtime, times, k, Groups, k)
    BY <2>1, <2>2, AllDealt
  <2>4. ASSUME NEW m \in 1 .. k PROVE stats.group[m] \in 1 .. Groups
    <3>1. IsFiniteSet(Of(stats.group, k, 0)) /\ Cardinality(Of(stats.group, k, 0)) = k - k
      BY <2>3 DEF Balanced
    <3>2. Of(stats.group, k, 0) = {}
      BY <2>1, <3>1, FS_EmptySet
    <3>3. stats.group[m] # 0
      BY <3>2 DEF Of
    <3>4. stats.group[m] \in 0 .. Groups
      BY <2>3 DEF Balanced
    <3> QED
      BY <2>1, <3>3, <3>4
  <2>5. ASSUME NEW g \in 1 .. Groups
        PROVE  /\ stats.runtime[g] = Total([m \in Of(stats.group, k, g) |-> times[m]], k)
               /\ \A h \in 1 .. Groups, m \in Of(stats.group, k, g) :
                    stats.runtime[g] - stats.runtime[h] <= times[m]
    <3>1. stats.runtime[g] = Total([m \in Of(stats.group, k, g) |-> times[m]], k)
      BY <2>3 DEF Balanced
    <3>2. ASSUME NEW h \in 1 .. Groups, NEW m \in Of(stats.group, k, g)
          PROVE  stats.runtime[g] - stats.runtime[h] <= times[m]
      <4>1. m \in 1 .. k /\ stats.group[m] = g /\ g # 0
        BY <2>1 DEF Of
      <4> QED
        BY <2>3, <4>1 DEF Balanced
    <3> QED
      BY <3>1, <3>2
  <2> QED
    BY <2>2, <2>4, <2>5 DEF Of
<1> QED
  BY <1>1, Apitest_TypeCorrect, PTL

(* The manifest that was begun and has run no test yet. *)
Begun == IF pc = "load" \/ (pc = "suite" /\ t = 0) THEN cur ELSE 0

(* What the report file is made of has a failure at its root if something failed.
   If everything can be loaded and no suite is empty, every element of the report
   was counted but the manifest just begun, and a manifest that has run a test has
   sub tests; what the report file is made of adds up. *)
ReportCounted ==
  /\ pc = "config" => rep = NewReport
  /\ pc = "exit" /\ conf.reportFile => file = rep /\ (rep[Root].fails > 0 <=> failed)
  /\ pc # "config" /\ Loaded =>
       /\ pc \in {"next", "load", "suite", "leave", "report"} => Counted(rep, Begun)
       /\ pc \in {"load", "suite", "leave"} => cur \in 2 .. Len(rep)
       /\ pc = "leave" \/ (pc = "suite" /\ t > 0) => HasSubTests(rep, cur)
       /\ pc = "suite" /\ t = 0 => success
       /\ pc = "exit" /\ conf.reportFile => AddsUp(rep)

(* The empty report is counted, and adding it up changes nothing. *)
LEMMA NewReportCounted == Counted(NewReport, 0) /\ getTestResult(NewReport) = NewReport
<1>1. /\ NewElement(0) \in ReportElement /\ NewElement(0).parent = 0
      /\ NewElement(0).tests = 0 /\ NewElement(0).fails = 0
  BY DEF NewElement, ReportElement
<1>2. /\ NewReport \in Seq(ReportElement) /\ Len(NewReport) = 1 /\ NewReport # << >>
      /\ NewReport[1] = NewElement(0)
  BY <1>1, EmptySeq DEF NewReport
<1>3. IsTree(NewReport)
  BY <1>2 DEF IsTree
<1>4. Counted(NewReport, 0)
  BY <1>1, <1>2 DEF Counted
<1>5. PICK f : f[0] = NewReport /\ getTestResult(NewReport) = f[Len(NewReport) - 1]
  BY <1>3, Settled
<1> QED
  BY <1>2, <1>4, <1>5

(* The report is counted as the process goes on. *)
LEMMA ReportCountedNext == ProcessInv /\ ReportCounted /\ [Next]_vars => ReportCounted'
<1> SUFFICES ASSUME ProcessInv, ReportCounted, [Next]_vars PROVE ReportCounted'
  OBVIOUS
<1>1. TypeOK /\ IsTree(rep) /\ Placed
  BY DEF ProcessInv
<1>2. Len(rep) \in Nat \ {0} /\ 1 \in 1 .. Len(rep)
  BY <1>1, TreeElements
<1>3. Loaded /\ pc \in {"load", "suite", "leave"} =>
        Current.loads /\ Current.tests > 0 /\ Current.tests \in Nat
  <2> SUFFICES ASSUME Loaded, pc \in {"load", "suite", "leave"}
               PROVE  Current.loads /\ Current.tests > 0 /\ Current.tests \in Nat
    OBVIOUS
  <2>1. k \in 1 .. Len(todo) /\ todo \in Seq(Manifest)
    BY <1>1 DEF Placed, TypeOK
  <2>2. k \in DOMAIN todo /\ todo[k] \in Manifest
    BY <2>1, LenProperties, ElementOfSeq
  <2> QED
    BY <2>2 DEF Loaded, Current, Manifest
<1>4. CASE Configure
  BY <1>4, NewReportCounted DEF Configure, ReportCounted, Begun
<1>5. CASE ConfigError
  <2>1. rep = NewReport /\ pc' = "next"
    BY <1>5 DEF ConfigError, ReportCounted
  <2>2. rep' = NewReport
    BY <1>5, <2>1, NewReportCounted DEF ConfigError, WriteToFile
  <2> QED
    BY <2>1, <2>2, NewReportCounted DEF ReportCounted, Begun
<1>6. CASE NextManifest
  <2> SUFFICES ASSUME Loaded' PROVE Counted(rep', cur') /\ cur' \in 2 .. Len(rep')
    BY <1>6 DEF NextManifest, ReportCounted, Begun
  <2>1. Loaded /\ Counted(rep, 0)
    BY <1>6 DEF NextManifest, ReportCounted, Begun, Loaded
  <2>2. rep' = NewChild(rep, 1) /\ cur' = Len(rep')
    BY <1>6 DEF NextManifest, Root, Newest
  <2>3. Len(rep') = Len(rep) + 1
    BY <1>1, <1>2, <2>2, NewChildTree
  <2>4. Counted(rep', Len(rep) + 1)
    BY <1>1, <1>2, <2>1, <2>2, NewChildCounted
  <2> QED
    BY <1>2, <2>2, <2>3, <2>4
<1>7. CASE LoadError
  <2>1. ~Loaded /\ Loaded' = Loaded /\ pc' = "leave"
    BY <1>3, <1>7 DEF LoadError, Loaded
  <2> QED
    BY <2>1 DEF ReportCounted
<1>8. CASE Load
  BY <1>1, <1>8 DEF Load, ReportCounted, Begun, Loaded, Placed
<1>9. ASSUME NEW n \in 0 .. MaxCases, NEW ok \in BOOLEAN, NEW bad \in 0 .. n,
             NEW lines \in SUBSET (0 .. n), RunTest(n, bad, ok, lines)
      PROVE  ReportCounted'
  <2> DEFINE e == Newest(rep) + 1
  <2>0. /\ pc = "suite" /\ pc' = "suite" /\ cur' = cur /\ t \in Nat /\ t' = t + 1
        /\ Loaded' = Loaded
        /\ rep' = Leave(WithCases(NewChild(rep, cur), e, n, bad), e, ok)
    BY <1>1, <1>9 DEF RunTest, TypeOK, Loaded
  <2> SUFFICES ASSUME Loaded
               PROVE  Counted(rep', 0) /\ cur \in 2 .. Len(rep') /\ HasSubTests(rep', cur)
    BY <2>0 DEF ReportCounted, Begun
  <2>1. n \in Nat /\ bad \in Nat /\ bad \in 0 .. n
    BY <1>9, BoundsAssumption
  <2>2. PICK x \in {0, cur} : Counted(rep, x) /\ (cur = x \/ HasSubTests(rep, cur))
    <3>1. CASE t = 0
      BY <2>0, <3>1 DEF ReportCounted, Begun
    <3>2. CASE t > 0
      BY <2>0, <3>2 DEF ReportCounted, Begun
    <3> QED
      BY <2>0, <3>1, <3>2
  <2>3. cur \in 2 .. Len(rep)
    BY <2>0 DEF ReportCounted
  <2>4. Counted(rep', 0) /\ HasSubTests(rep', cur)
    BY <1>1, <1>9, <2>0, <2>1, <2>2, <2>3, TestCounted
  <2>5. Len(rep') = Len(rep) + 1 + n
    BY <1>1, <1>2, <2>0, <2>1, <2>3, Tested
  <2> QED
    BY <1>2, <2>1, <2>3, <2>4, <2>5
<1>10. CASE LeaveSuite
  <2>0. /\ pc = "suite" /\ pc' = "leave" /\ cur' = cur /\ t \in Nat /\ success \in BOOLEAN
        /\ Loaded' = Loaded /\ rep' = Leave(rep, cur, success)
        /\ t = Current.tests \/ ~success
    BY <1>1, <1>10 DEF LeaveSuite, TypeOK, Loaded
  <2> SUFFICES ASSUME Loaded
               PROVE  Counted(rep', 0) /\ cur \in 2 .. Len(rep') /\ HasSubTests(rep', cur)
    BY <2>0 DEF ReportCounted, Begun
  <2>1. t > 0
    BY <1>3, <2>0 DEF ReportCounted
  <2>2. Counted(rep, 0) /\ HasSubTests(rep, cur) /\ cur \in 2 .. Len(rep)
    BY <2>0, <2>1 DEF ReportCounted, Begun
  <2>3. Counted(rep', 0) /\ HasSubTests(rep', cur)
    BY <1>1, <2>0, <2>2, LeaveCounted
  <2>4. Len(rep') = Len(rep)
    BY <1>1, <1>2, <2>0, <2>2, LeaveTree
  <2> QED
    BY <2>2, <2>3, <2>4
<1>11. CASE LeaveManifest
  <2>0. /\ pc = "leave" /\ pc' \in {"report", "next"} /\ success \in BOOLEAN
        /\ Loaded' = Loaded /\ rep' = Leave(rep, cur, success)
    BY <1>1, <1>11 DEF LeaveManifest, TypeOK, Loaded
  <2> SUFFICES ASSUME Loaded PROVE Counted(rep', 0)
    BY <2>0 DEF ReportCounted, Begun
  <2>1. Counted(rep, 0) /\ HasSubTests(rep, cur) /\ cur \in 2 .. Len(rep)
    BY <2>0 DEF ReportCounted, Begun
  <2> QED
    BY <1>1, <2>0, <2>1, LeaveCounted
<1>12. CASE LastManifest
  BY <1>12 DEF LastManifest, ReportCounted, Begun, Loaded
<1>13. CASE WriteReport
  <2> SUFFICES ASSUME conf.reportFile
               PROVE  /\ file' = rep' /\ (rep'[Root].fails > 0 <=> failed)
                      /\ Loaded => AddsUp(rep')
    BY <1>13 DEF WriteReport, ReportCounted, Begun, Loaded
  <2>1. Loaded => Counted(rep, 0)
    BY <1>13 DEF WriteReport, ReportCounted, Begun
  <2>2. rep' = getTestResult(rep) /\ file' = rep'
    BY <1>13 DEF WriteReport, WriteToFile
  <2>3. rep'[Root].fails > 0 <=> failed
    <3>1. DidFail(rep) <=> SomeFailure(rep)
      BY <1>1, Totals
    <3>2. SomeFailure(rep) <=> failed
      BY <1>13 DEF ProcessInv, ReportTells, WriteReport
    <3> QED
      BY <2>2, <3>1, <3>2 DEF DidFail
  <2> QED
    BY <1>1, <2>1, <2>2, <2>3, CountedTotals
<1>14. CASE Exit
  BY <1>14 DEF Exit, ReportCounted
<1>15. CASE Fatal
  BY <1>15 DEF Fatal, ReportCounted
<1>16. CASE UNCHANGED vars
  BY <1>16 DEF vars, ReportCounted, Begun, Loaded
<1>17. CASE Ended
  BY <1>16, <1>17 DEF Ended
<1> QED
  BY <1>4, <1>5, <1>6, <1>7, <1>8, <1>9, <1>10, <1>11, <1>12, <1>13, <1>14, <1>15, <1>16, <1>17
     DEF Next

(* What adds up is what the JUnit report says. *)
LEMMA CountedReport ==
  ASSUME ProcessInv, ReportCounted PROVE JUnitAgrees
<1>0. ASSUME pc = "exit", conf.reportFile
      PROVE  parseJUnitResult(file, logged).failures > 0 <=> failed
  BY <1>0 DEF ReportCounted, parseJUnitResult
<1> SUFFICES ASSUME pc = "exit", conf.reportFile, Loaded PROVE JUnitAgrees
  BY <1>0 DEF JUnitAgrees
<1> DEFINE junit == parseJUnitResult(file, logged)
           Single(e) == {i \in Flat(rep, e) : ~HasSubTests(rep, i)}
<1>1. IsTree(rep) /\ file = rep /\ AddsUp(rep)
  BY DEF ProcessInv, ReportCounted
<1>2. Len(rep) \in Nat \ {0} /\ DOMAIN rep = 1 .. Len(rep) /\ 1 \in 1 .. Len(rep)
      /\ \A i \in 2 .. Len(rep) : i \in 1 .. Len(rep)
  BY <1>1, TreeElements
<1>3. Leaves = LeavesOf(rep)
  BY <1>2 DEF Leaves, LeavesOf, Root
<1>4. ASSUME NEW e \in SubTests(rep, 1)
      PROVE  Single(e) = LeavesOf(rep) \cap Branch(rep, e) /\ e \in 1 .. Len(rep)
  <2>1. e \in 2 .. Len(rep) /\ HasSubTests(rep, e) /\ e \in 1 .. Len(rep)
    BY <1>1, <1>2 DEF AddsUp
  <2>2. Flat(rep, e) \subseteq 2 .. Len(rep)
    BY <1>1, <2>1, FlatBranch
  <2> QED
    BY <2>1, <2>2 DEF LeavesOf, Branch
<1>5. ASSUME NEW i \in 2 .. Len(rep), ~HasSubTests(rep, i)
      PROVE  HasLog(rep, logged, i) <=> i \in logged
  <2>1. \A j \in 1 .. Len(rep) : ~ (j \in Flat(rep, i))
    BY <1>1, <1>2, <1>5, FlatOfBranches DEF HasSubTests
  <2>2. Flat(rep, i) \subseteq 1 .. Len(rep)
    BY <1>1, <1>2, FlatElements
  <2> QED
    BY <2>1, <2>2 DEF HasLog
<1>6. /\ junit.tests = rep[1].tests /\ junit.failures = rep[1].fails
      /\ DOMAIN junit.suites = SubTests(rep, 1)
      /\ \A e \in SubTests(rep, 1) :
           /\ junit.suites[e].tests = rep[e].tests /\ junit.suites[e].failures = rep[e].fails
           /\ junit.suites[e].testcases
                = [i \in Flat(rep, e) |-> rep[i].fails > 0 /\ HasLog(rep, logged, i)]
  BY <1>1 DEF parseJUnitResult, Root
<1> HIDE DEF junit
<1>7. junit.tests = Cardinality(Leaves)
  <2>1. Branch(rep, 1) = {1} \cup 2 .. Len(rep)
    BY <1>1, FlatOfRoot DEF Branch
  <2>2. LeavesOf(rep) \cap Branch(rep, 1) = LeavesOf(rep)
    BY <2>1 DEF LeavesOf
  <2> QED
    BY <1>1, <1>2, <1>3, <1>6, <2>2 DEF AddsUp
<1>8. junit.tests = Total([e \in DOMAIN junit.suites |-> junit.suites[e].tests], Len(file))
  <2>1. [e \in DOMAIN junit.suites |-> junit.suites[e].tests] = [e \in SubTests(rep, 1) |-> rep[e].tests]
    BY <1>6
  <2> QED
    BY <1>1, <1>6, <2>1 DEF AddsUp
<1>9. junit.failures = Total([e \in DOMAIN junit.suites |-> junit.suites[e].failures], Len(file))
  <2>1. [e \in DOMAIN junit.suites |-> junit.suites[e].failures] = [e \in SubTests(rep, 1) |-> rep[e].fails]
    BY <1>6
  <2> QED
    BY <1>1, <1>6, <2>1 DEF AddsUp
<1>10. ASSUME NEW e \in DOMAIN junit.suites
       PROVE  /\ DOMAIN junit.suites[e].testcases = Flat(rep, e)
              /\ junit.suites[e].tests = Cardinality(Single(e))
              /\ \A i \in Single(e) :
                   junit.suites[e].testcases[i] <=> rep[i].fails > 0 /\ i \in logged
  <2>1. e \in SubTests(rep, 1)
    BY <1>6
  <2>2. junit.suites[e].tests = Cardinality(Single(e))
    BY <1>1, <1>4, <1>6, <2>1 DEF AddsUp
  <2>3. junit.suites[e].testcases = [i \in Flat(rep, e) |-> rep[i].fails > 0 /\ HasLog(rep, logged, i)]
    BY <1>6, <2>1
  <2>4. ASSUME NEW i \in Single(e)
        PROVE  junit.suites[e].testcases[i] <=> rep[i].fails > 0 /\ i \in logged
    <3>1. i \in 2 .. Len(rep)
      BY <1>1, <1>4, <2>1, FlatBranch
    <3>2. HasLog(rep, logged, i) <=> i \in logged
      BY <1>5, <3>1
    <3> QED
      BY <2>3, <3>2
  <2>5. DOMAIN junit.suites[e].testcases = Flat(rep, e)
    BY <2>3
  <2> QED
    BY <2>2, <2>4, <2>5
<1> QED
  BY <1>0, <1>7, <1>8, <1>9, <1>10 DEF JUnitAgrees, junit

(* main.go:270, parsing_functions.go:153: for any manifests, the root of the JUnit
   report has a failure exactly if something failed, also if the tree was added up
   before the end.  For manifests that can all be loaded and have tests, it counts
   every case of a test once, in the total and in the suite it belongs to. *)
THEOREM Apitest_JUnitAgrees == Spec => []JUnitAgrees
<1>1. Init => ReportCounted
  BY DEF Init, ReportCounted
<1>2. Spec => [](ProcessInv /\ ReportCounted)
  <2>1. Init => ProcessInv /\ ReportCounted
    BY <1>1, ProcessInit
  <2>2. (ProcessInv /\ ReportCounted) /\ [Next]_vars => (ProcessInv /\ ReportCounted)'
    BY ProcessNext, ReportCountedNext
  <2> QED
    BY <2>1, <2>2, PTL DEF Spec
<1>3. ProcessInv /\ ReportCounted => JUnitAgrees
  BY CountedReport
<1> QED
  BY <1>2, <1>3, PTL

=============================================================================
