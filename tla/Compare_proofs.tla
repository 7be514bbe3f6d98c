--------------------------- MODULE Compare_proofs ---------------------------
(***************************************************************************)
(* Proofs about the comparison of values and of responses, for values of   *)
(* any depth and width and for any responses.                              *)
(*                                                                         *)
(* The array comparison: the loop invariant says which marks belong to the *)
(* partners that were found so far.  That the first fit loses nothing is   *)
(* an exchange argument if the order matters (the partner found is never   *)
(* behind the partner in any other solution) and a counting argument if    *)
(* not (the partners of an element cannot all be taken by elements that    *)
(* match nothing else).                                                    *)
(*                                                                         *)
(* JsonEqual: a recursive function whose recursion goes down to the parts  *)
(* of its argument has a value (Recursion), so JsonEqual is the verdict on *)
(* its parts (JsonEqualIs), and what holds of a value if it holds of its   *)
(* parts holds of all values (OverParts).                                  *)
(*                                                                         *)
(* Responses and tables: what the objects that are compared are made of,   *)
(* and what it means for one to pass for the other, key by key.            *)
(***************************************************************************)
EXTENDS Response, FiniteSetTheorems, SequenceTheorems, NaturalsInduction, WellFoundedInduction, TLAPS

Shape ==
  /\ at = [i \in DOMAIN at |-> at[i]]
  /\ DOMAIN at \subseteq 0 .. lk - 1
  /\ pc = "begin" => lk = 0 /\ equal
  /\ pc \in {"loop", "extra"} => prob.left <= prob.right
  /\ pc = "extra" => lk = prob.left
  /\ failed => pc = "done" /\ ~equal
  /\ equal => DOMAIN at = 0 .. lk - 1
  /\ pc = "done" /\ equal => lk = prob.left /\ prob.left <= prob.right
  /\ pc = "done" /\ equal /\ prob.noExtra => Right \subseteq takenInRight

Partnered == \A i \in DOMAIN at : <<i, at[i]>> \in prob.match

InOrder ==
  prob.orderMatters =>
    /\ \A i, j \in DOMAIN at : i < j => at[i] < at[j]
    /\ \A i \in DOMAIN at : at[i] <= last
    /\ last = -1 \/ \E i \in DOMAIN at : at[i] = last
    /\ takenInRight = DOMAIN at

AnyOrder ==
  ~prob.orderMatters =>
    /\ \A i, j \in DOMAIN at : i # j => at[i] # at[j]
    /\ takenInRight = {at[i] : i \in DOMAIN at}

(* The inductive invariant of the marks and partners. *)
LoopInvariant == TypeOK /\ Shape /\ Partnered /\ InOrder /\ AnyOrder

(* Type correctness of the initial state and the loop invariant in it. *)
LEMMA InitInvariant == Init => LoopInvariant
<1> SUFFICES ASSUME Init PROVE LoopInvariant
  OBVIOUS
<1>1. prob.left \in Nat /\ prob.right \in Nat
  BY DEF Init, Problem
<1>2. DOMAIN at = {} /\ at = [i \in DOMAIN at |-> at[i]]
  BY DEF Init
<1>3. TypeOK
  <2>1. lk \in 0 .. prob.left /\ last \in -1 .. prob.right - 1
    BY <1>1 DEF Init
  <2>2. takenInRight \in SUBSET Nat /\ equal \in BOOLEAN /\ failed \in BOOLEAN
    BY DEF Init
  <2>3. prob \in Problem /\ pc \in {"begin", "loop", "extra", "done"}
    BY DEF Init
  <2> QED
    BY <1>2, <2>1, <2>2, <2>3 DEF TypeOK
<1>4. Shape
  <2>1. 0 .. lk - 1 = {}
    BY DEF Init
  <2>2. /\ pc = "begin" /\ pc \notin {"loop", "extra"} /\ pc # "extra" /\ pc # "done"
        /\ lk = 0 /\ equal /\ ~failed
    BY DEF Init
  <2> QED
    BY <1>2, <2>1, <2>2 DEF Shape
<1>5. Partnered /\ InOrder /\ AnyOrder
  BY <1>2 DEF Init, Partnered, InOrder, AnyOrder
<1> QED
  BY <1>3, <1>4, <1>5 DEF LoopInvariant

(* Each step of the comparison preserves the loop invariant. *)
LEMMA StepInvariant == LoopInvariant /\ [Next]_vars => LoopInvariant'
<1> SUFFICES ASSUME LoopInvariant, [Next]_vars PROVE LoopInvariant'
  OBVIOUS
<1> USE DEF LoopInvariant
<1>0. prob.left \in Nat /\ prob.right \in Nat /\ prob.orderMatters \in BOOLEAN
  BY DEF TypeOK, Problem
<1>1. CASE TooLong
  <2>1. TypeOK'
    BY <1>0, <1>1 DEF TooLong, TypeOK, Left, Right
  <2>2. Shape'
    BY <1>0, <1>1 DEF TooLong, TypeOK, Shape
  <2>3. Partnered' /\ InOrder' /\ AnyOrder'
    BY <1>1 DEF TooLong, Partnered, InOrder, AnyOrder
  <2> QED
    BY <2>1, <2>2, <2>3
<1>2. CASE Begin
  BY <1>0, <1>2 DEF Begin, TypeOK, Shape, Partnered, InOrder, AnyOrder, Left, Right
<1>3. CASE Found
  <2>1. PICK rk \in Right :
          /\ FirstHit(rk) /\ <<lk, rk>> \in prob.match /\ Take(rk)
          /\ at' = [i \in DOMAIN at \cup {lk} |-> IF i = lk THEN rk ELSE at[i]]
    BY <1>3 DEF Found
  <2>2. /\ pc = "loop" /\ lk \in 0 .. prob.left - 1 /\ lk' = lk + 1
        /\ UNCHANGED <<prob, pc, equal, failed>>
    BY <1>0, <1>3 DEF Found, TypeOK
  <2>3. /\ rk \in 0 .. prob.right - 1
        /\ rk \in Candidates
    BY <2>1 DEF FirstHit, Hits, Right
  <2>4. /\ DOMAIN at' = DOMAIN at \cup {lk}
        /\ at'[lk] = rk
        /\ lk \notin DOMAIN at
        /\ \A i \in DOMAIN at : i < lk /\ i \in Nat /\ at'[i] = at[i]
        /\ \A i \in DOMAIN at : at[i] \in 0 .. prob.right - 1
    BY <1>0, <2>1, <2>2 DEF TypeOK, Shape, Left, Right
  <2>5. TypeOK'
    <3>1. lk' \in 0 .. prob'.left
      BY <1>0, <2>2
    <3>2. last' \in -1 .. prob'.right - 1
      <4>1. last \in -1 .. prob.right - 1 /\ rk \in -1 .. prob.right - 1
        BY <1>0, <2>3 DEF TypeOK
      <4>2. last' \in {rk, last} /\ prob' = prob
        BY <2>1, <2>2 DEF Take
      <4> QED
        BY <4>1, <4>2
    <3>4. takenInRight' \in SUBSET Nat
      <4>1. lk \in Nat /\ rk \in Nat /\ takenInRight \in SUBSET Nat
        BY <1>0, <2>2, <2>3 DEF TypeOK
      <4>2. takenInRight' = takenInRight \cup {lk} \/ takenInRight' = takenInRight \cup {rk}
        BY <2>1 DEF Take
      <4> QED
        BY <4>1, <4>2
    <3>3. DOMAIN at' \subseteq Left' /\ \A i \in DOMAIN at' : at'[i] \in Right'
      BY <1>0, <2>2, <2>3, <2>4 DEF TypeOK, Left, Right
    <3> QED
      BY <2>2, <3>1, <3>2, <3>3, <3>4 DEF TypeOK
  <2>6. Shape'
    <3>1. at' = [i \in DOMAIN at' |-> at'[i]]
      BY <2>1, <2>4
    <3>2. DOMAIN at' \subseteq 0 .. lk' - 1
      BY <1>0, <2>2, <2>4
    <3>3. equal' => DOMAIN at' = 0 .. lk' - 1
      BY <1>0, <2>2, <2>4 DEF Shape
    <3> QED
      BY <2>2, <3>1, <3>2, <3>3 DEF Shape
  <2>7. Partnered'
    BY <2>1, <2>2, <2>4 DEF Partnered
  <2>8. InOrder'
    <3> SUFFICES ASSUME prob.orderMatters PROVE InOrder'
      BY <2>2 DEF InOrder
    <3>1. last' = rk /\ takenInRight' = takenInRight \cup {lk}
      BY <2>1 DEF Take
    <3>2. rk > last /\ last \in Int /\ rk \in Int
      BY <1>0, <2>3 DEF Candidates, TypeOK
    <3>3. \A i \in DOMAIN at : at[i] < rk /\ at[i] \in Int
      BY <2>4, <3>2 DEF InOrder
    <3>4. \A i, j \in DOMAIN at' : i < j => at'[i] < at'[j]
      <4> SUFFICES ASSUME NEW i \in DOMAIN at', NEW j \in DOMAIN at', i < j
                   PROVE at'[i] < at'[j]
        OBVIOUS
      <4>1. i \in DOMAIN at
        BY <2>2, <2>4
      <4>2. CASE j = lk
        BY <2>4, <3>3, <4>1, <4>2
      <4>3. CASE j # lk
        BY <2>4, <4>1, <4>3 DEF InOrder
      <4> QED BY <4>2, <4>3
    <3>5. \A i \in DOMAIN at' : at'[i] <= last'
      BY <2>4, <3>1, <3>2, <3>3
    <3> QED
      BY <2>4, <3>1, <3>4, <3>5 DEF InOrder
  <2>9. AnyOrder'
    <3> SUFFICES ASSUME ~prob.orderMatters PROVE AnyOrder'
      BY <2>2 DEF AnyOrder
    <3>1. takenInRight' = takenInRight \cup {rk} /\ rk \notin takenInRight
      BY <2>1, <2>3 DEF Take, Candidates
    <3>2. takenInRight = {at[i] : i \in DOMAIN at}
      BY DEF AnyOrder
    <3>3. \A i, j \in DOMAIN at' : i # j => at'[i] # at'[j]
      BY <2>4, <3>1, <3>2 DEF AnyOrder
    <3>4. takenInRight' = {at'[i] : i \in DOMAIN at'}
      BY <2>4, <3>1, <3>2
    <3> QED
      BY <3>3, <3>4 DEF AnyOrder
  <2> QED
    BY <2>5, <2>6, <2>7, <2>8, <2>9
<1>4. CASE NotFound
  <2>1. TypeOK'
    <3>1. lk' \in 0 .. prob'.left
      BY <1>0, <1>4 DEF NotFound, TypeOK
    <3> QED
      BY <1>4, <3>1 DEF NotFound, TypeOK, Left, Right
  <2>2. Shape'
    BY <1>0, <1>4 DEF NotFound, TypeOK, Shape
  <2>3. Partnered' /\ InOrder' /\ AnyOrder'
    BY <1>4 DEF NotFound, Partnered, InOrder, AnyOrder
  <2> QED
    BY <2>1, <2>2, <2>3
<1>5. CASE Error
  <2>1. TypeOK'
    BY <1>0, <1>5 DEF Error, TypeOK, Left, Right
  <2>2. Shape'
    BY <1>0, <1>5 DEF Error, TypeOK, Shape
  <2>3. Partnered' /\ InOrder' /\ AnyOrder'
    BY <1>5 DEF Error, Partnered, InOrder, AnyOrder
  <2> QED
    BY <2>1, <2>2, <2>3
<1>6. CASE EndLoop
  BY <1>0, <1>6 DEF EndLoop, TypeOK, Shape, Partnered, InOrder, AnyOrder, Left, Right
<1>7. CASE Extra
  BY <1>0, <1>7 DEF Extra, TypeOK, Shape, Partnered, InOrder, AnyOrder, Left, Right
<1>8. CASE Done
  BY <1>8 DEF Done, vars, TypeOK, Shape, Partnered, InOrder, AnyOrder, Left, Right
<1>9. CASE UNCHANGED vars
  BY <1>9 DEF vars, TypeOK, Shape, Partnered, InOrder, AnyOrder, Left, Right
<1> QED
  BY <1>1, <1>2, <1>3, <1>4, <1>5, <1>6, <1>7, <1>8, <1>9 DEF Next

(* The marks and the partners agree throughout a comparison. *)
THEOREM Invariant == Spec => []LoopInvariant
  BY InitInvariant, StepInvariant, PTL DEF Spec

(* Every variable of the comparison keeps its type. *)
THEOREM ArrayCompare_TypeCorrect == Spec => []TypeOK
<1>1. LoopInvariant => TypeOK
  BY DEF LoopInvariant
<1> QED
  BY <1>1, Invariant, PTL

(* The indexes of an array of n elements: n of them. *)
LEMMA Indexes ==
  ASSUME NEW n \in Nat
  PROVE  IsFiniteSet(0 .. n - 1) /\ Cardinality(0 .. n - 1) = n
  BY FS_Interval, n - 1 \in Int

(* Partners of their own for all elements need an actual array that is long
   enough. *)
LEMMA MatchedIsNotLonger ==
  ASSUME prob.left \in Nat, prob.right \in Nat,
         NEW g \in [Left -> Right], Matches(g)
  PROVE  prob.left <= prob.right
<1>1. g \in Injection(Left, Right)
  BY DEF Matches, Injection, IsInjective
<1>2. IsFiniteSet(Right) /\ Cardinality(Left) = prob.left /\ Cardinality(Right) = prob.right
  BY Indexes DEF Left, Right
<1>3. Cardinality(Left) <= Cardinality(Right)
  BY <1>1, <1>2, FS_Injection
<1> QED
  BY <1>2, <1>3

(* Partners of their own for all elements of an array that is as long as the
   actual one leave nothing over. *)
LEMMA MatchedIsOnto ==
  ASSUME prob.left \in Nat, prob.right = prob.left,
         NEW g \in [Left -> Right], Matches(g)
  PROVE  \A rk \in Right : \E i \in Left : g[i] = rk
<1>1. g \in Injection(Left, Right)
  BY DEF Matches, Injection, IsInjective
<1>2. IsFiniteSet(Right) /\ Cardinality(Left) = Cardinality(Right)
  BY Indexes DEF Left, Right
<1>3. g \in Surjection(Left, Right)
  BY <1>1, <1>2, FS_Injection
<1> QED
  BY <1>3 DEF Surjection

(* When a partner has been found for every element. *)
LEMMA EndMatched ==
  ASSUME LoopInvariant, DOMAIN at = Left
  PROVE  /\ at \in [Left -> Right] /\ Matches(at)
         /\ prob.orderMatters => Ascending(at)
<1>0. prob.left \in Nat /\ prob.right \in Nat
  BY DEF LoopInvariant, TypeOK, Problem
<1>1. DOMAIN at = Left /\ at = [i \in Left |-> at[i]]
  BY DEF LoopInvariant, Shape
<1>2. \A i \in Left : at[i] \in Right /\ <<i, at[i]>> \in prob.match
  BY <1>1 DEF LoopInvariant, TypeOK, Partnered
<1>3. at \in [Left -> Right]
  BY <1>1, <1>2
<1>4. ASSUME prob.orderMatters PROVE Ascending(at)
  BY <1>1, <1>4 DEF LoopInvariant, InOrder, Ascending
<1>5. ASSUME NEW i \in Left, NEW j \in Left, i # j PROVE at[i] # at[j]
  <2>1. CASE prob.orderMatters
    <3>1. i \in Int /\ j \in Int /\ at[i] \in Int /\ at[j] \in Int
      <4>1. i \in Int /\ j \in Int
        BY <1>0 DEF Left
      <4>2. at[i] \in Right /\ at[j] \in Right
        BY <1>2
      <4>3. Right \subseteq Int
        BY <1>0 DEF Right
      <4> QED
        BY <4>1, <4>2, <4>3
    <3>2. (i < j => at[i] < at[j]) /\ (j < i => at[j] < at[i])
      BY <1>4, <2>1 DEF Ascending
    <3> QED
      BY <1>5, <3>1, <3>2
  <2>2. CASE ~prob.orderMatters
    BY <1>1, <1>5, <2>2 DEF LoopInvariant, AnyOrder
  <2> QED
    BY <2>1, <2>2
<1> QED
  BY <1>2, <1>3, <1>4, <1>5 DEF Matches

(* The marks are then as many as the elements, whichever array they are
   positions in. *)
LEMMA AllMarked ==
  ASSUME LoopInvariant, DOMAIN at = Left, prob.left <= prob.right
  PROVE  Right \subseteq takenInRight <=> prob.left = prob.right
<1>1. prob.left \in Nat /\ prob.right \in Nat
  BY DEF LoopInvariant, TypeOK, Problem
<1>2. at \in [Left -> Right] /\ Matches(at)
  BY EndMatched
<1>3. CASE prob.orderMatters
  <2>1. takenInRight = Left
    BY <1>3 DEF LoopInvariant, InOrder
  <2>2. ASSUME Right \subseteq Left PROVE prob.left = prob.right
    <3>1. Cardinality(Right) <= Cardinality(Left)
      BY <1>1, <2>2, FS_Subset, Indexes DEF Left
    <3> QED
      BY <1>1, <3>1, Indexes DEF Left, Right
  <2>3. ASSUME prob.left = prob.right PROVE Right \subseteq Left
    BY <2>3 DEF Left, Right
  <2> QED
    BY <2>1, <2>2, <2>3
<1>4. CASE ~prob.orderMatters
  <2>1. takenInRight = {at[i] : i \in Left}
    BY <1>4 DEF LoopInvariant, AnyOrder
  <2>2. ASSUME Right \subseteq takenInRight PROVE prob.left = prob.right
    <3>1. \A rk \in Right : \E i \in Left : at[i] = rk
      BY <2>1, <2>2
    <3>2. at \in Surjection(Left, Right)
      BY <1>2, <3>1 DEF Surjection
    <3>3. Cardinality(Right) <= Cardinality(Left)
      BY <1>1, <3>2, FS_Surjection, Indexes DEF Left
    <3> QED
      BY <1>1, <3>3, Indexes DEF Left, Right
  <2>3. ASSUME prob.left = prob.right PROVE Right \subseteq takenInRight
    <3>1. \A rk \in Right : \E i \in Left : at[i] = rk
      BY <1>1, <1>2, <2>3, MatchedIsOnto
    <3> QED
      BY <2>1, <3>1
  <2> QED
    BY <2>2, <2>3
<1> QED
  BY <1>3, <1>4

(* Arrays pass as equal only if every expected element has a partner of its
   own, in order with order_matters, and with no_extra nothing is left over
   (comparison_functions.go:383-458). *)
THEOREM ArrayCompare_EqualMeansMatched == Spec => []EqualMeansMatched
<1>1. LoopInvariant => EqualMeansMatched
  <2> SUFFICES ASSUME LoopInvariant, pc = "done", equal
               PROVE  /\ at \in [Left -> Right] /\ Matches(at)
                      /\ prob.orderMatters => Ascending(at)
                      /\ prob.noExtra =>
                           /\ prob.left = prob.right
                           /\ \A rk \in Right : \E i \in Left : at[i] = rk
    BY DEF EqualMeansMatched
  <2>1. prob.left \in Nat /\ prob.right \in Nat /\ prob.left <= prob.right /\ lk = prob.left
    BY DEF LoopInvariant, TypeOK, Problem, Shape
  <2>2. DOMAIN at = Left
    BY <2>1 DEF LoopInvariant, Shape, Left
  <2>5. /\ at \in [Left -> Right] /\ Matches(at)
        /\ prob.orderMatters => Ascending(at)
    BY <2>2, EndMatched
  <2>3. ASSUME prob.noExtra PROVE prob.left = prob.right
    BY <2>1, <2>2, <2>3, AllMarked DEF LoopInvariant, Shape
  <2>4. ASSUME prob.noExtra PROVE \A rk \in Right : \E i \in Left : at[i] = rk
    BY <2>1, <2>3, <2>4, <2>5, MatchedIsOnto
  <2> QED
    BY <2>3, <2>4, <2>5
<1> QED
  BY <1>1, Invariant, PTL

(***************************************************************************)
(* Taking the first fit                                                    *)
(***************************************************************************)

(* Another choice of partners that the comparison might have made. *)
Solves(g) == Matches(g) /\ (prob.orderMatters => Ascending(g))

(* If there is one, then nothing has gone wrong so far, and with order_matters
   no partner lies behind that of the other choice. *)
NotBehind ==
  (prob.orderMatters \/ Uniform) =>
    \A g \in [Left -> Right] : Solves(g) =>
      /\ ~failed /\ (pc # "done" \/ (prob.noExtra => prob.left = prob.right)) => equal
      /\ prob.orderMatters => \A i \in DOMAIN at : at[i] <= g[i]

(* The partner in the other choice is a candidate when its turn comes: with
   order_matters by the exchange argument. *)
LEMMA OrderedCandidate ==
  ASSUME LoopInvariant, NotBehind, prob.orderMatters, lk \in Left,
         NEW g \in [Left -> Right], Solves(g)
  PROVE  g[lk] \in Hits
<1>0. prob.left \in Nat /\ prob.right \in Nat
  BY DEF LoopInvariant, TypeOK, Problem
<1>1. g[lk] \in Right /\ <<lk, g[lk]>> \in prob.match
  BY DEF Solves, Matches
<1>2. last < g[lk]
  <2>1. g[lk] \in Int /\ g[lk] >= 0
    BY <1>0, <1>1 DEF Right
  <2>2. CASE last = -1
    BY <2>1, <2>2
  <2>3. CASE \E i \in DOMAIN at : at[i] = last
    <3>1. PICK i \in DOMAIN at : at[i] = last
      BY <2>3
    <3>2. i \in Left /\ i < lk
      <4>1. i \in Left /\ i \in 0 .. lk - 1 /\ lk \in Int
        BY <1>0 DEF LoopInvariant, TypeOK, Shape
      <4> QED
        BY <4>1
    <3>3. at[i] <= g[i] /\ g[i] < g[lk]
      BY <3>2 DEF NotBehind, Solves, Ascending
    <3>4. at[i] \in Int /\ g[i] \in Int
      <4>1. at[i] \in Right /\ g[i] \in Right
        BY <3>2 DEF LoopInvariant, TypeOK
      <4>2. Right \subseteq Int
        BY <1>0 DEF Right
      <4> QED
        BY <4>1, <4>2
    <3> QED
      BY <2>1, <3>1, <3>3, <3>4
  <2> QED
    BY <2>2, <2>3 DEF LoopInvariant, InOrder
<1> QED
  BY <1>1, <1>2 DEF Hits, Candidates

(* Without order_matters, by counting: were all partners of the element lk
   taken, then by elements that match nothing but these partners, and the
   other choice would have to place one element more among them. *)
LEMMA UnorderedCandidate ==
  ASSUME LoopInvariant, ~prob.orderMatters, Uniform, equal, lk \in Left,
         NEW g \in [Left -> Right], Solves(g)
  PROVE  Hits # {}
<1> SUFFICES ASSUME Hits = {} PROVE FALSE
  OBVIOUS
<1>0. prob.left \in Nat /\ prob.right \in Nat
  BY DEF LoopInvariant, TypeOK, Problem
<1> DEFINE C == {rk \in Right : <<lk, rk>> \in prob.match}
           A == {i \in DOMAIN at : at[i] \in C}
<1>1. /\ DOMAIN at \subseteq Left /\ lk \notin DOMAIN at
      /\ A \subseteq Left /\ lk \notin A
  BY <1>0 DEF LoopInvariant, TypeOK, Shape, Left
<1>2. IsFiniteSet(C)
  BY <1>0, Indexes, FS_Subset DEF Right
<1>3. IsFiniteSet(A)
  BY <1>0, <1>1, Indexes, FS_Subset DEF Left
<1>4. [i \in A |-> at[i]] \in Surjection(A, C)
  <2>1. \A rk \in C : \E i \in A : at[i] = rk
    <3> SUFFICES ASSUME NEW rk \in C PROVE \E i \in A : at[i] = rk
      OBVIOUS
    <3>1. rk \in takenInRight
      BY DEF Hits, Candidates
    <3> QED
      BY <3>1 DEF LoopInvariant, AnyOrder
  <2> QED
    BY <2>1 DEF Surjection
<1>5. Cardinality(C) <= Cardinality(A)
  BY <1>3, <1>4, FS_Surjection
<1>6. \A i \in A \cup {lk} : g[i] \in C
  <2> SUFFICES ASSUME NEW i \in A PROVE g[i] \in C
    BY DEF Solves, Matches
  <2>1. i \in Left /\ at[i] \in Right /\ g[i] \in Right
    BY <1>1 DEF LoopInvariant, TypeOK
  <2>2. <<i, at[i]>> \in prob.match /\ <<lk, at[i]>> \in prob.match /\ <<i, g[i]>> \in prob.match
    BY <2>1 DEF LoopInvariant, Partnered, Solves, Matches
  <2>3. <<lk, g[i]>> \in prob.match
    BY <2>1, <2>2 DEF Uniform
  <2> QED
    BY <2>1, <2>3
<1>7. [i \in A \cup {lk} |-> g[i]] \in Injection(A \cup {lk}, C)
  BY <1>1, <1>6 DEF Injection, IsInjective, Solves, Matches
<1>8. Cardinality(A \cup {lk}) <= Cardinality(C)
  BY <1>2, <1>7, FS_Injection
<1>9. Cardinality(A \cup {lk}) = Cardinality(A) + 1
  BY <1>1, <1>3, FS_AddElement
<1>10. Cardinality(A) \in Nat /\ Cardinality(C) \in Nat
  BY <1>2, <1>3, FS_CardinalityType
<1> QED
  BY <1>5, <1>8, <1>9, <1>10

(* Each step of the comparison keeps the first fit harmless. *)
LEMMA StepNotBehind == LoopInvariant /\ NotBehind /\ [Next]_vars => NotBehind'
<1> SUFFICES ASSUME LoopInvariant, NotBehind, [Next]_vars,
                    (prob.orderMatters \/ Uniform)',
                    NEW g \in [Left -> Right]', Solves(g)'
             PROVE  /\ (~failed /\ (pc # "done" \/ (prob.noExtra => prob.left = prob.right)) => equal)'
                    /\ (prob.orderMatters => \A i \in DOMAIN at : at[i] <= g[i])'
  BY DEF NotBehind
<1>0. prob.left \in Nat /\ prob.right \in Nat
  BY DEF LoopInvariant, TypeOK, Problem
<1>1. prob' = prob
  BY DEF Next, TooLong, Begin, Found, NotFound, Error, EndLoop, Extra, Done, vars
<1>2. /\ prob.orderMatters \/ Uniform
      /\ g \in [Left -> Right] /\ Solves(g) /\ Matches(g)
  BY <1>1 DEF Uniform, Left, Right, Solves, Matches, Ascending
<1>3. /\ ~failed /\ pc # "done" => equal
      /\ prob.orderMatters => \A i \in DOMAIN at : at[i] <= g[i]
  BY <1>2 DEF NotBehind
<1>4. CASE TooLong
  BY <1>0, <1>2, <1>4, MatchedIsNotLonger DEF TooLong
<1>5. CASE Begin
  BY <1>3, <1>5 DEF Begin
<1>6. CASE Found
  <2>1. PICK rk \in Right :
          /\ FirstHit(rk)
          /\ at' = [i \in DOMAIN at \cup {lk} |-> IF i = lk THEN rk ELSE at[i]]
    BY <1>6 DEF Found
  <2>2. pc = "loop" /\ lk \in Left /\ pc' = pc /\ equal' = equal /\ failed' = failed
    BY <1>0, <1>6 DEF Found, LoopInvariant, TypeOK, Left
  <2>3. prob.orderMatters => rk <= g[lk]
    BY <1>2, <2>1, <2>2, OrderedCandidate DEF FirstHit
  <2>4. prob.orderMatters => \A i \in DOMAIN at' : at'[i] <= g[i]
    BY <1>3, <2>1, <2>3
  <2> QED
    BY <1>1, <1>3, <2>2, <2>4
<1>7. CASE NotFound
  <2>1. pc = "loop" /\ lk \in Left /\ Hits = {}
    BY <1>0, <1>7 DEF NotFound, LoopInvariant, TypeOK, Left
  <2>2. ~failed
    BY <2>1 DEF LoopInvariant, Shape
  <2>3. equal
    BY <1>3, <2>1, <2>2
  <2>4. Hits # {}
    BY <1>2, <2>1, <2>3, OrderedCandidate, UnorderedCandidate
  <2> QED
    BY <2>1, <2>4
<1>8. CASE Error
  BY <1>3, <1>1, <1>8 DEF Error
<1>9. CASE EndLoop
  BY <1>3, <1>1, <1>9 DEF EndLoop
<1>10. CASE Extra
  <2>1. pc = "extra" /\ pc' = "done" /\ failed' = failed /\ at' = at
    BY <1>10 DEF Extra
  <2>2. equal /\ lk = prob.left
    BY <1>3, <2>1 DEF LoopInvariant, Shape
  <2>3. DOMAIN at = Left /\ prob.left <= prob.right
    BY <2>1, <2>2 DEF LoopInvariant, Shape, Left
  <2>4. prob.left = prob.right => Right \subseteq takenInRight
    BY <2>3, AllMarked
  <2>5. (prob.noExtra => prob.left = prob.right) => equal'
    BY <1>10, <2>2, <2>4 DEF Extra
  <2> QED
    BY <1>1, <1>3, <2>1, <2>5
<1>11. CASE Done
  BY <1>2, <1>11 DEF Done, vars, NotBehind
<1>12. CASE UNCHANGED vars
  BY <1>2, <1>12 DEF vars, NotBehind
<1> QED
  BY <1>4, <1>5, <1>6, <1>7, <1>8, <1>9, <1>10, <1>11, <1>12 DEF Next

(* Taking the first fit never costs a match if the order matters, and without
   it only where elements match a common partner but not the same partners
   (comparison_functions.go:383-446). *)
THEOREM ArrayCompare_FirstFitComplete == Spec => []FirstFitComplete
<1>1. Init => NotBehind
  BY DEF Init, NotBehind
<1>2. Spec => [](LoopInvariant /\ NotBehind)
  BY <1>1, InitInvariant, StepInvariant, StepNotBehind, PTL DEF Spec
<1>3. LoopInvariant /\ NotBehind => FirstFitComplete
  BY DEF NotBehind, FirstFitComplete, OrderedComplete, UnorderedComplete, Solves
<1> QED
  BY <1>2, <1>3, PTL

(***************************************************************************)
(* The loops and the comparison in one go                                  *)
(***************************************************************************)

(* What is true of 0, and of each number if it is of the one before, is true
   of all. *)
LEMMA Inductive ==
  ASSUME NEW T \in SUBSET Nat, 0 \in T, \A n \in T : n + 1 \in T
  PROVE  T = Nat
<1> SUFFICES ASSUME T # Nat PROVE FALSE
  OBVIOUS
<1> DEFINE R == OpToRel(<, Nat)
           U == Nat \ T
<1>1. IsWellFoundedOn(R, Nat)
  BY NatLessThanWellFounded
<1>2. \A m, n \in Nat : m < n => <<m, n>> \in R
  BY DEF OpToRel
<1> HIDE DEF R
<1>3. U \in SUBSET Nat /\ U # {}
  OBVIOUS
<1>4. PICK n \in U : \A m \in U : ~ (<<m, n>> \in R)
  BY <1>1, <1>3, WFMin
<1>5. n # 0 /\ n \in Nat /\ n - 1 \in Nat /\ n - 1 < n /\ (n - 1) + 1 = n
  BY <1>4
<1>6. n - 1 \in T
  BY <1>2, <1>4, <1>5
<1> QED
  BY <1>4, <1>5, <1>6

(* A set of natural numbers that is not empty has a least element. *)
LEMMA Least ==
  ASSUME NEW H \in SUBSET Nat, H # {}
  PROVE  \E n \in H : \A m \in H : n <= m
<1> DEFINE R == OpToRel(<, Nat)
<1>1. IsWellFoundedOn(R, Nat)
  BY NatLessThanWellFounded
<1>2. \A m, n \in Nat : m < n => <<m, n>> \in R
  BY DEF OpToRel
<1> HIDE DEF R
<1>3. PICK n \in H : \A m \in H : ~ (<<m, n>> \in R)
  BY <1>1, WFMin
<1>4. ASSUME NEW m \in H PROVE n <= m
  <2>1. m \in Nat /\ n \in Nat
    OBVIOUS
  <2>2. ~ (m < n)
    BY <1>2, <1>3, <2>1
  <2> QED
    BY <2>1, <2>2
<1> QED
  BY <1>4

(* f gives each of the first n elements its partner. *)
Fits(f, p, n) == f = [i \in 0 .. n - 1 |-> FirstFit(p, [j \in 0 .. i - 1 |-> f[j]], i)]

(* The partners of all elements are defined by those before them. *)
LEMMA PartnersFit ==
  ASSUME NEW p, p.left \in Nat
  PROVE  Fits(Partners(p), p, p.left)
<1> DEFINE T == {n \in Nat : \E f : Fits(f, p, n)}
<1>1. 0 \in T
  <2> DEFINE none == [i \in 0 .. 0 - 1 |-> 0]
  <2>1. Fits(none, p, 0)
    BY DEF Fits
  <2> QED
    BY <2>1
<1>2. ASSUME NEW n \in T PROVE n + 1 \in T
  <2>1. PICK f : Fits(f, p, n)
    OBVIOUS
  <2> DEFINE fit == FirstFit(p, [j \in 0 .. n - 1 |-> f[j]], n)
             new == [i \in 0 .. (n + 1) - 1 |-> IF i = n THEN fit ELSE f[i]]
  <2>2. ASSUME NEW i \in 0 .. (n + 1) - 1
        PROVE  new[i] = FirstFit(p, [j \in 0 .. i - 1 |-> new[j]], i)
    <3>1. [j \in 0 .. i - 1 |-> new[j]] = [j \in 0 .. i - 1 |-> f[j]]
      <4>1. \A j \in 0 .. i - 1 : j \in 0 .. (n + 1) - 1 /\ j # n
        OBVIOUS
      <4>2. \A j \in 0 .. i - 1 : new[j] = f[j]
        BY <4>1
      <4> HIDE DEF new
      <4> QED
        BY <4>2
    <3>2. CASE i = n
      <4>1. new[i] = fit
        BY <3>2
      <4> HIDE DEF new
      <4> QED
        BY <3>1, <3>2, <4>1
    <3>3. CASE i # n
      <4>1. i \in 0 .. n - 1 /\ new[i] = f[i]
        BY <3>3
      <4>2. f[i] = FirstFit(p, [j \in 0 .. i - 1 |-> f[j]], i)
        BY <2>1, <4>1 DEF Fits
      <4> HIDE DEF new
      <4> QED
        BY <3>1, <4>1, <4>2
    <3> QED
      BY <3>2, <3>3
  <2>3. new = [i \in 0 .. (n + 1) - 1 |-> new[i]]
    OBVIOUS
  <2> HIDE DEF new
  <2>4. Fits(new, p, n + 1)
    BY <2>2, <2>3 DEF Fits
  <2> QED
    BY <2>4
<1>3. p.left \in T
  <2>1. T \in SUBSET Nat
    OBVIOUS
  <2> HIDE DEF T
  <2> QED
    BY <1>1, <1>2, <2>1, Inductive
<1>4. \E f : Fits(f, p, p.left)
  BY <1>3
<1>5. Partners(p) = CHOOSE f : Fits(f, p, p.left)
  BY DEF Partners, Fits
<1> QED
  BY <1>4, <1>5

(* Where element i finds something, partner or error, if those before it have
   theirs. *)
HitsAfter(p, before, i) ==
  {rk \in 0 .. p.right - 1 :
     /\ <<i, rk>> \in p.match \cup p.bad
     /\ \A j \in DOMAIN before : IF p.orderMatters THEN rk > before[j] ELSE rk # before[j]}

(* FirstFit is the first hit, and -1 if there is none. *)
LEMMA FirstFitIsFirst ==
  ASSUME NEW p, p.right \in Nat, NEW before, NEW i
  PROVE  LET hits == HitsAfter(p, before, i) IN
         /\ hits = {} => FirstFit(p, before, i) = -1
         /\ hits # {} => /\ FirstFit(p, before, i) \in hits
                         /\ \A other \in hits : FirstFit(p, before, i) <= other
<1> DEFINE hits == HitsAfter(p, before, i)
           Of(S) == CHOOSE rk \in S : \A other \in S : rk <= other
<1>1. hits \in SUBSET Nat
  BY DEF HitsAfter
<1>2. FirstFit(p, before, i) = IF hits = {} THEN -1 ELSE Of(hits)
  BY Zenon DEF FirstFit, HitsAfter
<1> HIDE DEF hits
<1>3. hits # {} => Of(hits) \in hits /\ \A other \in hits : Of(hits) <= other
  BY <1>1, Least
<1> DEFINE fit == FirstFit(p, before, i)
           first == Of(hits)
<1> HIDE DEF Of
<1>a. fit = IF hits = {} THEN -1 ELSE first
  BY <1>2
<1>b. hits # {} => first \in hits /\ \A other \in hits : first <= other
  BY <1>3
<1> HIDE DEF fit, first
<1>4. /\ hits = {} => fit = -1
      /\ hits # {} => fit \in hits /\ \A other \in hits : fit <= other
  BY <1>a, <1>b
<1> QED
  BY <1>4 DEF hits, fit

(* The partners that the loop has found are those of the comparison in one go,
   and so is the error that ends it. *)
Agree ==
  LET partner == Partners(prob) IN
  /\ \A i \in DOMAIN at : at[i] = partner[i]
  /\ \A i \in 0 .. lk - 1 : i \notin DOMAIN at => partner[i] = -1
  /\ pc \in {"begin", "loop", "extra"} => (equal <=> DOMAIN at = 0 .. lk - 1)
  /\ failed => lk < prob.left /\ prob.left <= prob.right /\ <<lk, partner[lk]>> \in prob.bad
  /\ pc = "done" /\ ~failed /\ prob.left <= prob.right =>
       /\ lk = prob.left
       /\ equal <=> DOMAIN at = Left /\ (prob.noExtra => Right \subseteq takenInRight)

(* What the partners of the elements before lk are. *)
Before == [j \in 0 .. lk - 1 |-> Partners(prob)[j]]

(* The next element has the partner that FirstFit gives it. *)
LEMMA NextPartner ==
  ASSUME LoopInvariant, lk < prob.left
  PROVE  Partners(prob)[lk] = FirstFit(prob, Before, lk)
<1>1. prob.left \in Nat /\ lk \in 0 .. prob.left - 1
  BY DEF LoopInvariant, TypeOK, Problem
<1>2. Fits(Partners(prob), prob, prob.left)
  BY <1>1, PartnersFit
<1> QED
  BY <1>1, <1>2 DEF Fits, Before

(* The marks leave the same candidates as the partners before. *)
LEMMA SameHits ==
  ASSUME LoopInvariant, Agree, lk < prob.left
  PROVE  Hits = HitsAfter(prob, Before, lk)
<1>1. /\ prob.right \in Nat /\ lk \in Nat /\ last \in -1 .. prob.right - 1
      /\ DOMAIN at \subseteq 0 .. lk - 1 /\ \A i \in DOMAIN at : at[i] \in 0 .. prob.right - 1
  BY DEF LoopInvariant, TypeOK, Problem, Shape, Right
<1>2. \A j \in 0 .. lk - 1 : Before[j] = IF j \in DOMAIN at THEN at[j] ELSE -1
  BY DEF Agree, Before
<1>3. DOMAIN Before = 0 .. lk - 1
  BY DEF Before
<1>4. ASSUME NEW rk \in 0 .. prob.right - 1, prob.orderMatters
      PROVE  rk > last <=> \A j \in DOMAIN Before : rk > Before[j]
  <2>1. ASSUME rk > last, NEW j \in 0 .. lk - 1 PROVE rk > Before[j]
    <3>1. CASE j \in DOMAIN at
      <4>1. at[j] <= last /\ Before[j] = at[j] /\ at[j] \in Int
        BY <1>1, <1>2, <1>4, <3>1 DEF LoopInvariant, InOrder
      <4> QED
        BY <1>1, <2>1, <4>1
    <3>2. CASE j \notin DOMAIN at
      BY <1>1, <1>2, <3>2
    <3> QED
      BY <3>1, <3>2
  <2>2. ASSUME \A j \in 0 .. lk - 1 : rk > Before[j] PROVE rk > last
    <3>1. CASE last = -1
      BY <1>1, <3>1
    <3>2. CASE last # -1
      <4>1. PICK i \in DOMAIN at : at[i] = last
        BY <1>4, <3>2 DEF LoopInvariant, InOrder
      <4>2. i \in 0 .. lk - 1 /\ Before[i] = last
        BY <1>1, <1>2, <4>1
      <4> QED
        BY <2>2, <4>2
    <3> QED
      BY <3>1, <3>2
  <2> QED
    BY <1>3, <2>1, <2>2
<1>5. ASSUME NEW rk \in 0 .. prob.right - 1, ~prob.orderMatters
      PROVE  rk \notin takenInRight <=> \A j \in DOMAIN Before : rk # Before[j]
  <2>1. takenInRight = {at[i] : i \in DOMAIN at}
    BY <1>5 DEF LoopInvariant, AnyOrder
  <2>2. rk # -1
    BY <1>1
  <2> QED
    BY <1>1, <1>2, <1>3, <2>1, <2>2
<1>6. \A rk \in 0 .. prob.right - 1 :
        (IF prob.orderMatters THEN rk > last ELSE rk \notin takenInRight)
          <=> \A j \in DOMAIN Before :
                IF prob.orderMatters THEN rk > Before[j] ELSE rk # Before[j]
  BY <1>4, <1>5
<1> QED
  BY <1>6 DEF Hits, Candidates, HitsAfter, Right

(* The first hit is the next partner, and there is none if there are no hits. *)
LEMMA FirstHitIsPartner ==
  ASSUME LoopInvariant, Agree, lk < prob.left
  PROVE  /\ Hits = {} => Partners(prob)[lk] = -1
         /\ \A rk : FirstHit(rk) => Partners(prob)[lk] = rk
<1> DEFINE fit == FirstFit(prob, Before, lk)
<1>1. prob.right \in Nat /\ Hits \subseteq 0 .. prob.right - 1
  BY DEF LoopInvariant, TypeOK, Problem, Hits, Candidates, Right
<1>2. /\ Hits = {} => fit = -1
      /\ Hits # {} => fit \in Hits /\ \A other \in Hits : fit <= other
  BY <1>1, SameHits, FirstFitIsFirst
<1>3. Partners(prob)[lk] = fit
  BY NextPartner
<1> HIDE DEF fit
<1>4. ASSUME NEW rk, FirstHit(rk) PROVE fit = rk
  <2>1. rk \in Hits /\ fit \in Hits /\ rk <= fit /\ fit <= rk
    BY <1>2, <1>4 DEF FirstHit
  <2>2. rk \in Int /\ fit \in Int
    BY <1>1, <2>1
  <2> QED
    BY <2>1, <2>2
<1> QED
  BY <1>2, <1>3, <1>4

(* At first nothing is found, and nothing looked for. *)
LEMMA InitAgree == Init => Agree
<1> SUFFICES ASSUME Init PROVE Agree
  OBVIOUS
<1>1. DOMAIN at = {} /\ 0 .. lk - 1 = {} /\ pc = "begin" /\ equal = TRUE /\ failed = FALSE
  BY DEF Init
<1> QED
  BY <1>1 DEF Agree

(* Every step finds the same partner, or none, or the same error. *)
LEMMA StepAgree == LoopInvariant /\ LoopInvariant' /\ Agree /\ [Next]_vars => Agree'
<1> SUFFICES ASSUME LoopInvariant, LoopInvariant', Agree, [Next]_vars PROVE Agree'
  OBVIOUS
<1> DEFINE partner == Partners(prob)
<1>0. /\ prob.left \in Nat /\ prob.right \in Nat /\ lk \in 0 .. prob.left
      /\ DOMAIN at \subseteq 0 .. lk - 1
      /\ equal \in BOOLEAN /\ failed \in BOOLEAN
  BY DEF LoopInvariant, TypeOK, Problem, Shape
<1>1. CASE TooLong
  BY <1>0, <1>1 DEF TooLong, Agree, LoopInvariant, Shape
<1>2. CASE Begin
  BY <1>0, <1>2 DEF Begin, Agree, LoopInvariant, Shape
<1>3. CASE Found
  <2>1. PICK rk \in Right :
          /\ FirstHit(rk)
          /\ at' = [i \in DOMAIN at \cup {lk} |-> IF i = lk THEN rk ELSE at[i]]
    BY <1>3 DEF Found
  <2>2. /\ pc = "loop" /\ lk < prob.left /\ lk' = lk + 1 /\ ~failed
        /\ UNCHANGED <<prob, pc, equal, failed>>
    BY <1>3 DEF Found, LoopInvariant, Shape
  <2>3. partner[lk] = rk
    BY <2>1, <2>2, FirstHitIsPartner
  <2>4. /\ DOMAIN at' = DOMAIN at \cup {lk} /\ lk \notin DOMAIN at
        /\ \A i \in DOMAIN at' : at'[i] = partner[i]
    BY <1>0, <2>1, <2>3 DEF Agree
  <2>5. 0 .. lk' - 1 = (0 .. lk - 1) \cup {lk}
    BY <1>0, <2>2
  <2>6. equal <=> DOMAIN at' = 0 .. lk' - 1
    <3>1. equal <=> DOMAIN at = 0 .. lk - 1
      BY <2>2 DEF Agree
    <3>2. lk \notin 0 .. lk - 1
      BY <1>0
    <3> QED
      BY <1>0, <2>4, <2>5, <3>1, <3>2
  <2>7. \A i \in 0 .. lk' - 1 : i \notin DOMAIN at' => partner[i] = -1
    BY <2>4, <2>5 DEF Agree
  <2> HIDE DEF partner
  <2>8. partner' = partner
    BY <2>2 DEF partner
  <2> QED
    BY <2>2, <2>4, <2>6, <2>7, <2>8 DEF Agree, partner
<1>4. CASE NotFound
  <2>1. /\ pc = "loop" /\ lk < prob.left /\ lk' = lk + 1 /\ ~failed /\ equal' = FALSE
        /\ UNCHANGED <<prob, pc, failed, at>>
    BY <1>4 DEF NotFound, LoopInvariant, Shape
  <2>2. partner[lk] = -1
    BY <1>4, <2>1, FirstHitIsPartner DEF NotFound
  <2>3. 0 .. lk' - 1 = (0 .. lk - 1) \cup {lk} /\ lk \notin DOMAIN at
    BY <1>0, <2>1
  <2>4. \A i \in 0 .. lk' - 1 : i \notin DOMAIN at => partner[i] = -1
    BY <2>2, <2>3 DEF Agree
  <2> QED
    BY <2>1, <2>3, <2>4 DEF Agree
<1>5. CASE Error
  <2>1. PICK rk \in Right : FirstHit(rk) /\ <<lk, rk>> \in prob.bad
    BY <1>5 DEF Error
  <2>2. /\ pc = "loop" /\ lk < prob.left /\ pc' = "done" /\ equal' = FALSE /\ failed' = TRUE
        /\ UNCHANGED <<prob, lk, at>>
    BY <1>5 DEF Error
  <2>3. partner[lk] = rk /\ prob.left <= prob.right
    BY <2>1, <2>2, FirstHitIsPartner DEF LoopInvariant, Shape
  <2> QED
    BY <2>1, <2>2, <2>3 DEF Agree
<1>6. CASE EndLoop
  BY <1>0, <1>6 DEF EndLoop, Agree, LoopInvariant, Shape
<1>7. CASE Extra
  <2>1. /\ pc = "extra" /\ pc' = "done" /\ lk = prob.left /\ ~failed
        /\ equal' = (equal /\ (prob.noExtra => Right \subseteq takenInRight))
        /\ UNCHANGED <<prob, lk, takenInRight, failed, at>>
    BY <1>7 DEF Extra, LoopInvariant, Shape
  <2>2. equal <=> DOMAIN at = Left
    BY <2>1 DEF Agree, Left
  <2>3. Left' = Left /\ Right' = Right
    BY <2>1 DEF Left, Right
  <2> QED
    BY <2>1, <2>2, <2>3 DEF Agree
<1>8. CASE UNCHANGED vars
  BY <1>8 DEF vars, Agree, Left, Right
<1>9. CASE Done
  BY <1>8, <1>9 DEF Done
<1> QED
  BY <1>1, <1>2, <1>3, <1>4, <1>5, <1>6, <1>7, <1>8, <1>9 DEF Next

(* The partners that the loops have found give the verdict of the comparison
   in one go. *)
LEMMA VerdictsAgree == LoopInvariant /\ Agree => LoopsAgree
<1> SUFFICES ASSUME LoopInvariant, Agree, pc = "done"
             PROVE  LET v == arrayComparison(prob)
                    IN  equal = (v = "equal") /\ failed = (v = "error")
  BY DEF LoopsAgree
<1> DEFINE partner == Partners(prob)
           v == arrayComparison(prob)
           bad == \E i \in DOMAIN partner : <<i, partner[i]>> \in prob.bad
           none == \E i \in DOMAIN partner : partner[i] = -1
<1>1. /\ prob.left \in Nat /\ prob.right \in Nat /\ equal \in BOOLEAN /\ failed \in BOOLEAN
      /\ prob.match \cap prob.bad = {} /\ prob.bad \subseteq Nat \X Nat
  BY DEF LoopInvariant, TypeOK, Problem
<1>2. DOMAIN partner = Left
  <2>1. Fits(partner, prob, prob.left)
    BY <1>1, PartnersFit
  <2> QED
    BY <2>1 DEF Fits, Left
<1>3. /\ prob.left > prob.right => v = "unequal"
      /\ prob.left <= prob.right /\ bad => v = "error"
      /\ prob.left <= prob.right /\ ~bad =>
           (v = "equal" <=> ~none /\ (prob.noExtra => prob.left = prob.right)) /\ v # "error"
  BY <1>1 DEF arrayComparison
<1>4. CASE prob.left > prob.right
  <2>1. ~equal /\ ~failed
    BY <1>1, <1>4 DEF LoopInvariant, Shape, Agree
  <2> QED
    BY <1>1, <1>3, <1>4, <2>1
<1>5. CASE prob.left <= prob.right /\ failed
  <2>1. ~equal /\ lk \in Left /\ <<lk, partner[lk]>> \in prob.bad
    BY <1>1, <1>5 DEF LoopInvariant, Shape, Agree, TypeOK, Left
  <2>2. bad
    BY <1>2, <2>1
  <2> QED
    BY <1>1, <1>3, <1>5, <2>1, <2>2
<1>6. CASE prob.left <= prob.right /\ ~failed
  <2>1. /\ lk = prob.left
        /\ equal <=> DOMAIN at = Left /\ (prob.noExtra => Right \subseteq takenInRight)
    BY <1>6 DEF Agree
  <2>2. DOMAIN at \subseteq Left
    BY DEF LoopInvariant, TypeOK
  <2>3. \A i \in Left : partner[i] = IF i \in DOMAIN at THEN at[i] ELSE -1
    BY <2>1 DEF Agree, Left
  <2>4. \A i \in DOMAIN at : at[i] \in Nat /\ <<i, at[i]>> \in prob.match
    BY <1>1 DEF LoopInvariant, TypeOK, Partnered, Right
  <2>5. ~bad
    <3>1. \A i : <<i, -1>> \notin prob.bad
      BY <1>1
    <3> QED
      BY <1>1, <1>2, <2>3, <2>4, <3>1
  <2>6. none <=> DOMAIN at # Left
    <3>1. ASSUME NEW i \in DOMAIN at PROVE at[i] # -1
      <4>1. at[i] \in Nat
        BY <2>4
      <4> QED
        BY <4>1
    <3> QED
      BY <1>2, <2>2, <2>3, <3>1
  <2>7. DOMAIN at = Left => (Right \subseteq takenInRight <=> prob.left = prob.right)
    BY <1>6, AllMarked
  <2>8. v = "equal" <=> ~none /\ (prob.noExtra => prob.left = prob.right)
    BY <1>3, <1>6, <2>5
  <2>9. v # "error"
    BY <1>3, <1>6, <2>5
  <2> HIDE DEF v, none, bad
  <2>10. equal <=> v = "equal"
    BY <2>1, <2>6, <2>7, <2>8
  <2> QED
    BY <1>1, <1>6, <2>9, <2>10 DEF v
<1> QED
  BY <1>1, <1>4, <1>5, <1>6

(* The loops, with their marks and the last position that they carry along,
   come to the verdict that nested arrays are given, for arrays of any length
   (comparison_functions.go:379-458). *)
THEOREM ArrayCompare_LoopsAgree == Spec => []LoopsAgree
<1>1. Init => LoopInvariant /\ Agree
  BY InitInvariant, InitAgree
<1>2. (LoopInvariant /\ Agree) /\ [Next]_vars => (LoopInvariant /\ Agree)'
  BY StepInvariant, StepAgree
<1> QED
  BY <1>1, <1>2, VerdictsAgree, PTL DEF Spec

(* f fulfils a recursive definition, B, for everything of D below n in H. *)
Fulfils(f, n, D, V, H, B) == f \in [D -> V] /\ \A x \in D : H[x] < n => f[x] = B[f][x]

(* B looks only at what is lower. *)
LooksDown(D, V, H, B) ==
  \A f, g \in [D -> V], x \in D : (\A y \in D : H[y] < H[x] => f[y] = g[y]) => B[f][x] = B[g][x]

(* Two solutions of a recursion agree wherever both are defined, by induction
   over the rank. *)
LEMMA SolutionsAgree ==
  ASSUME NEW D, NEW V, NEW H \in [D -> Nat], NEW B, LooksDown(D, V, H, B),
         NEW n \in Nat, NEW f, NEW g, Fulfils(f, n, D, V, H, B), Fulfils(g, n, D, V, H, B)
  PROVE  \A x \in D : H[x] < n => f[x] = g[x]
<1> DEFINE T == {m \in Nat : \A x \in D : H[x] < m /\ H[x] < n => f[x] = g[x]}
<1>1. 0 \in T
  <2>1. \A x \in D : ~ (H[x] < 0)
    <3> TAKE x \in D
    <3>1. H[x] \in Nat
      OBVIOUS
    <3> QED
      BY <3>1
  <2> QED
    BY <2>1
<1>2. ASSUME NEW m \in T PROVE m + 1 \in T
  <2>1. \A x \in D : H[x] < m /\ H[x] < n => f[x] = g[x]
    OBVIOUS
  <2>2. ASSUME NEW x \in D, H[x] < m + 1, H[x] < n PROVE f[x] = g[x]
    <3>1. H[x] \in Nat /\ m \in Nat
      OBVIOUS
    <3>2. ASSUME NEW y \in D, H[y] < H[x] PROVE f[y] = g[y]
      <4>1. H[y] \in Nat
        OBVIOUS
      <4>2. H[y] < m /\ H[y] < n
        BY <2>2, <3>1, <3>2, <4>1
      <4> QED
        BY <2>1, <4>2
    <3>3. f \in [D -> V] /\ g \in [D -> V] /\ f[x] = B[f][x] /\ g[x] = B[g][x]
      BY <2>2 DEF Fulfils
    <3>4. B[f][x] = B[g][x]
      BY <3>2, <3>3 DEF LooksDown
    <3> QED
      BY <3>3, <3>4
  <2>3. m + 1 \in Nat
    OBVIOUS
  <2> QED
    BY <2>2, <2>3
<1>3. T = Nat
  <2>1. T \in SUBSET Nat
    OBVIOUS
  <2> HIDE DEF T
  <2>2. \A k \in Nat : k \in T
    BY <1>1, <1>2, <2>1, Inductive
  <2> QED
    BY <2>1, <2>2
<1>4. ASSUME NEW x \in D, H[x] < n PROVE f[x] = g[x]
  <2>1. H[x] + 1 \in T /\ H[x] < H[x] + 1
    <3>1. H[x] \in Nat
      OBVIOUS
    <3> HIDE DEF T
    <3> QED
      BY <1>3, <3>1
  <2> QED
    BY <1>4, <2>1
<1> QED
  BY <1>4

(* Up to every rank there is a solution. *)
LEMMA SolvedUpTo ==
  ASSUME NEW D, NEW V, NEW some \in V, NEW H \in [D -> Nat], NEW B \in [[D -> V] -> [D -> V]],
         LooksDown(D, V, H, B), NEW n \in Nat
  PROVE  \E f : Fulfils(f, n, D, V, H, B)
<1> DEFINE T == {m \in Nat : \E f : Fulfils(f, m, D, V, H, B)}
<1>1. 0 \in T
  <2> DEFINE f0 == [x \in D |-> some]
  <2>1. f0 \in [D -> V] /\ \A x \in D : ~ (H[x] < 0)
    <3>1. \A x \in D : H[x] \in Nat
      OBVIOUS
    <3> QED
      BY <3>1
  <2>2. Fulfils(f0, 0, D, V, H, B)
    BY <2>1 DEF Fulfils
  <2> QED
    BY <2>2
<1>2. ASSUME NEW m \in T PROVE m + 1 \in T
  <2>1. PICK f : Fulfils(f, m, D, V, H, B)
    OBVIOUS
  <2>2. f \in [D -> V] /\ B[f] \in [D -> V] /\ m \in Nat
    BY <2>1 DEF Fulfils
  <2>3. B[f] = [x \in D |-> B[f][x]] /\ \A x \in D : B[f][x] \in V
    BY <2>2
  <2> DEFINE g == B[f]
  <2>4. ASSUME NEW x \in D, H[x] < m + 1 PROVE g[x] = B[g][x]
    <3>1. ASSUME NEW y \in D, H[y] < H[x] PROVE f[y] = g[y]
      <4>1. H[y] \in Nat /\ H[x] \in Nat
        OBVIOUS
      <4>2. H[y] < m
        BY <2>2, <2>4, <3>1, <4>1
      <4> QED
        BY <2>1, <4>2 DEF Fulfils
    <3>2. g \in [D -> V]
      BY <2>2
    <3> HIDE DEF g
    <3>3. B[f][x] = B[g][x]
      BY <2>2, <3>1, <3>2 DEF LooksDown
    <3> QED
      BY <3>3 DEF g
  <2>5. Fulfils(g, m + 1, D, V, H, B)
    BY <2>2, <2>4 DEF Fulfils
  <2> QED
    BY <2>2, <2>5
<1>3. n \in T
  <2>1. T \in SUBSET Nat
    OBVIOUS
  <2> HIDE DEF T
  <2> QED
    BY <1>1, <1>2, <2>1, Inductive
<1> QED
  BY <1>3

(* B is the body of a definition by recursion that goes down in H. *)
Recursive(D, V, H, B) ==
  V # {} /\ H \in [D -> Nat] /\ B \in [[D -> V] -> [D -> V]] /\ LooksDown(D, V, H, B)

Solution(h, D, V, B) == h \in [D -> V] /\ h = B[h]

(* A recursion that goes down in rank has a solution. *)
LEMMA Recursion ==
  ASSUME NEW D, NEW V, NEW H, NEW B, Recursive(D, V, H, B)
  PROVE  \E h : Solution(h, D, V, B)
<1>0. /\ H \in [D -> Nat] /\ B \in [[D -> V] -> [D -> V]] /\ LooksDown(D, V, H, B)
      /\ \E some : some \in V
  BY DEF Recursive
<1>a. PICK some : some \in V
  BY <1>0
<1> DEFINE Upto(n) == CHOOSE f : Fulfils(f, n, D, V, H, B)
<1>1. ASSUME NEW n \in Nat PROVE Fulfils(Upto(n), n, D, V, H, B)
  <2>1. \E f : Fulfils(f, n, D, V, H, B)
    BY <1>0, <1>a, SolvedUpTo
  <2> QED
    BY <2>1
<1> DEFINE h == [x \in D |-> Upto(H[x] + 1)[x]]
<1> HIDE DEF Upto
<1>2. ASSUME NEW x \in D
      PROVE  /\ H[x] \in Nat /\ H[x] + 1 \in Nat /\ H[x] < H[x] + 1
             /\ Upto(H[x] + 1) \in [D -> V]
             /\ Upto(H[x] + 1)[x] = B[Upto(H[x] + 1)][x]
  <2>1. H[x] \in Nat
    BY <1>0
  <2>2. H[x] + 1 \in Nat /\ H[x] < H[x] + 1
    BY <2>1
  <2>3. Fulfils(Upto(H[x] + 1), H[x] + 1, D, V, H, B)
    BY <1>1, <2>2
  <2> QED
    BY <2>1, <2>2, <2>3 DEF Fulfils
<1>3. h \in [D -> V]
  BY <1>2
<1>4. ASSUME NEW x \in D PROVE h[x] = B[h][x]
  <2> DEFINE n == H[x] + 1
             f == Upto(n)
  <2>1. ASSUME NEW y \in D, H[y] < H[x] PROVE f[y] = h[y]
    <3>1. H[x] \in Nat /\ H[y] \in Nat /\ n \in Nat
      BY <1>2
    <3> DEFINE m == H[y] + 1
               g == Upto(m)
    <3>2. m \in Nat /\ H[y] < m
      BY <3>1
    <3>3. Fulfils(g, m, D, V, H, B) /\ Fulfils(f, n, D, V, H, B)
      BY <1>1, <3>1, <3>2
    <3>4. m <= n
      BY <2>1, <3>1
    <3>5. h[y] = g[y]
      OBVIOUS
    <3> HIDE DEF h, f, g, n, m
    <3>6. Fulfils(f, m, D, V, H, B)
      <4>1. \A z \in D : H[z] < m => H[z] < n
        <5>1. \A z \in D : H[z] \in Nat
          BY <1>0
        <5> QED
          BY <3>1, <3>2, <3>4, <5>1
      <4> QED
        BY <3>3, <4>1 DEF Fulfils
    <3>7. f[y] = g[y]
      BY <1>0, <3>2, <3>3, <3>6, SolutionsAgree
    <3> QED
      BY <3>5, <3>7
  <2>2. f \in [D -> V] /\ f[x] = B[f][x] /\ h[x] = f[x]
    BY <1>2
  <2> HIDE DEF h, f
  <2>3. B[f][x] = B[h][x]
    BY <1>0, <1>3, <2>1, <2>2 DEF LooksDown
  <2> QED
    BY <2>2, <2>3
<1>5. B[h] \in [D -> V]
  BY <1>0, <1>3
<1>6. h = B[h]
  <2> HIDE DEF h
  <2> QED
    BY <1>3, <1>4, <1>5
<1> HIDE DEF h
<1> QED
  BY <1>3, <1>6 DEF Solution

(***************************************************************************)
(* What JsonEqual says                                                     *)
(***************************************************************************)

Comparisons == Values \X Values \X ComparisonContext
Verdicts == {"equal", "unequal", "error"}

(* The parts of an object or an array are values that are nested less deep. *)
LEMMA LowerParts ==
  ASSUME NEW v \in Values
  PROVE  /\ v[1] = "object" =>
              \A k \in DOMAIN v[2] : v[2][k] \in Values /\ Height[v[2][k]] < Height[v]
         /\ v[1] = "array" =>
              /\ v = <<"array", v[2]>> /\ v[2] \in Seq(Values)
              /\ \A i \in 1 .. Len(v[2]) : v[2][i] \in Values /\ Height[v[2][i]] < Height[v]
<1>1. v[1] \in {"array", "object"} =>
        \A k \in DOMAIN v[2] : v[2][k] \in Values /\ Height[v[2][k]] < Height[v]
  <2> SUFFICES ASSUME v[1] \in {"array", "object"}, NEW k \in DOMAIN v[2]
               PROVE  v[2][k] \in Values /\ Height[v[2][k]] < Height[v]
    OBVIOUS
  <2>1. v[2][k] \in Parts(v)
    BY DEF Parts, Range
  <2> QED
    BY <2>1, ValuesAssumption
<1>2. v[1] = "array" => v = <<"array", v[2]>> /\ v[2] \in Seq(Values)
  BY ValuesAssumption
<1>3. v[1] = "array" => DOMAIN v[2] = 1 .. Len(v[2])
  BY <1>2
<1> QED
  BY <1>1, <1>2, <1>3

(* The controls that are looked at when the parts are compared. *)
LEMMA Contexts ==
  /\ \A c : Depth(c) \in Int => fillComparisonContext(c) \in ComparisonContext
  /\ \A c \in ComparisonContext : nextControl(c) \in ComparisonContext
<1>1. ASSUME NEW c, Depth(c) \in Int PROVE fillComparisonContext(c) \in ComparisonContext
  <2>1. \A name : On(c, name) \in BOOLEAN
    BY DEF On
  <2> QED
    BY <1>1, <2>1 DEF fillComparisonContext, ComparisonContext
<1>2. ASSUME NEW c \in ComparisonContext PROVE nextControl(c) \in ComparisonContext
  <2>1. nextDepth(c.depth) \in Int
    BY DEF ComparisonContext, nextDepth, NoDepth
  <2> QED
    BY <2>1 DEF ComparisonContext, nextControl
<1> QED
  BY <1>1, <1>2

(* A verdict is one of the three words, whatever is said of the parts. *)
LEMMA VerdictType ==
  ASSUME NEW says, NEW l, NEW r, NEW c
  PROVE  Verdict(says, l, r, c) \in Verdicts
<1>1. objectComparison(says, l, r, c.noExtra) \in Verdicts
  BY DEF objectComparison, Verdicts
<1>2. \A p : arrayComparison(p) \in Verdicts
  BY DEF arrayComparison, Verdicts
<1> QED
  BY <1>1, <1>2 DEF Verdict, Verdicts

(* f and g say the same of the parts of l. *)
SameOfParts(f, g, l) ==
  \A p, q \in Values, d \in ComparisonContext :
    Height[p] < Height[l] => f[<<p, q, d>>] = g[<<p, q, d>>]

(* What is said of a key depends on what is said of its value only. *)
LEMMA SameKeyVerdict ==
  ASSUME NEW l \in Values, NEW r \in Values, l[1] = "object", r[1] = "object",
         NEW f, NEW g,
         SameOfParts(f, g, l),
         NEW k
  PROVE  KeyVerdict(f, l, r, k) = KeyVerdict(g, l, r, k)
<1> DEFINE c  == IF k \in DOMAIN l[3] THEN l[3][k] ELSE << >>
           rv == IF k \in DOMAIN r[2] THEN r[2][k] ELSE Null
<1>1. rv \in Values
  BY LowerParts, ValuesAssumption
<1>2. Malformed(c) \/ Depth(c) \in Int
  <2>1. CASE k \in DOMAIN l[3]
    BY <2>1, ValuesAssumption
  <2>2. CASE k \notin DOMAIN l[3]
    BY <2>2 DEF Depth, Has
  <2> QED
    BY <2>1, <2>2
<1> DEFINE d == fillComparisonContext(c)
<1>3. ASSUME ~Malformed(c), k \in DOMAIN l[2] PROVE f[<<l[2][k], rv, d>>] = g[<<l[2][k], rv, d>>]
  <2>1. d \in ComparisonContext
    BY <1>2, <1>3, Contexts
  <2>2. l[2][k] \in Values /\ Height[l[2][k]] < Height[l]
    BY <1>3, LowerParts
  <2> HIDE DEF d, rv, c
  <2> QED
    BY <1>1, <2>1, <2>2 DEF SameOfParts
<1> QED
  BY <1>3 DEF KeyVerdict

(* A verdict depends on what is said of the parts alone. *)
LEMMA SameVerdict ==
  ASSUME NEW l \in Values, NEW r \in Values, NEW c \in ComparisonContext,
         NEW f, NEW g,
         SameOfParts(f, g, l)
  PROVE  Verdict(f, l, r, c) = Verdict(g, l, r, c)
<1>1. CASE l[1] # r[1]
  BY <1>1 DEF Verdict
<1>2. CASE l[1] = r[1] /\ l[1] = "object"
  <2>0. l[1] = "object" /\ r[1] = "object"
    BY <1>2
  <2>1. ASSUME NEW k PROVE KeyVerdict(f, l, r, k) = KeyVerdict(g, l, r, k)
    BY <2>0, SameKeyVerdict
  <2>2. {KeyVerdict(f, l, r, k) : k \in DOMAIN l[2] \cup DOMAIN l[3]}
          = {KeyVerdict(g, l, r, k) : k \in DOMAIN l[2] \cup DOMAIN l[3]}
    BY <2>1
  <2>3. objectComparison(f, l, r, c.noExtra) = objectComparison(g, l, r, c.noExtra)
    BY <2>2 DEF objectComparison
  <2> QED
    BY <1>2, <2>3 DEF Verdict
<1>3. CASE l[1] = r[1] /\ l[1] = "array"
  <2> DEFINE pairs == (0 .. Len(l[2]) - 1) \X (0 .. Len(r[2]) - 1)
  <2>1. Len(l[2]) \in Nat /\ Len(r[2]) \in Nat
    BY <1>3, LowerParts
  <2>2. ASSUME NEW x \in pairs
        PROVE  f[<<l[2][x[1] + 1], r[2][x[2] + 1], nextControl(c)>>]
                 = g[<<l[2][x[1] + 1], r[2][x[2] + 1], nextControl(c)>>]
    <3>1. x[1] + 1 \in 1 .. Len(l[2]) /\ x[2] + 1 \in 1 .. Len(r[2])
      BY <2>1
    <3>2. l[2][x[1] + 1] \in Values /\ Height[l[2][x[1] + 1]] < Height[l] /\ r[2][x[2] + 1] \in Values
      BY <1>3, <3>1, LowerParts
    <3>3. nextControl(c) \in ComparisonContext
      BY Contexts
    <3> QED
      BY <3>2, <3>3 DEF SameOfParts
  <2>3. ASSUME NEW v
        PROVE  {x \in pairs : f[<<l[2][x[1] + 1], r[2][x[2] + 1], nextControl(c)>>] = v}
                 = {x \in pairs : g[<<l[2][x[1] + 1], r[2][x[2] + 1], nextControl(c)>>] = v}
    <3> HIDE DEF pairs
    <3> QED
      BY <2>2
  <2>4. ProblemOf(f, l[2], r[2], c) = ProblemOf(g, l[2], r[2], c)
    BY <2>3 DEF ProblemOf
  <2> QED
    BY <1>3, <2>4 DEF Verdict
<1>4. CASE l[1] = r[1] /\ l[1] \notin {"object", "array"}
  BY <1>4 DEF Verdict
<1> QED
  BY <1>1, <1>2, <1>3, <1>4

(* JsonEqual is what its definition says, as values are nested finitely deep. *)
LEMMA JsonEqualIs ==
  \A l, r \in Values, c \in ComparisonContext :
    JsonEqual[<<l, r, c>>] = Verdict(JsonEqual, l, r, c) /\ JsonEqual[<<l, r, c>>] \in Verdicts
<1> DEFINE D == Comparisons
           V == Verdicts
           H == [x \in D |-> Height[x[1]]]
           B == [f \in [D -> V] |-> [x \in D |-> Verdict(f, x[1], x[2], x[3])]]
           IsIt(f) == f = [x \in D |-> Verdict(f, x[1], x[2], x[3])]
<1>1. "equal" \in V
  BY DEF Verdicts
<1>2. H \in [D -> Nat]
  BY ValuesAssumption DEF Comparisons
<1>3. B \in [[D -> V] -> [D -> V]]
  <2>1. \A f \in [D -> V] : [x \in D |-> Verdict(f, x[1], x[2], x[3])] \in [D -> V]
    BY VerdictType
  <2> QED
    BY <2>1
<1>4. LooksDown(D, V, H, B)
  <2> SUFFICES ASSUME NEW f \in [D -> V], NEW g \in [D -> V], NEW x \in D,
                      \A y \in D : H[y] < H[x] => f[y] = g[y]
               PROVE  B[f][x] = B[g][x]
    BY DEF LooksDown
  <2>1. x[1] \in Values /\ x[2] \in Values /\ x[3] \in ComparisonContext
    BY DEF Comparisons
  <2>2. ASSUME NEW p \in Values, NEW q \in Values, NEW d \in ComparisonContext,
               Height[p] < Height[x[1]]
        PROVE  f[<<p, q, d>>] = g[<<p, q, d>>]
    <3>1. <<p, q, d>> \in D /\ H[<<p, q, d>>] = Height[p] /\ H[x] = Height[x[1]]
      BY DEF Comparisons
    <3> HIDE DEF D, H
    <3> QED
      BY <2>2, <3>1
  <2>3. SameOfParts(f, g, x[1])
    BY <2>2 DEF SameOfParts
  <2>4. Verdict(f, x[1], x[2], x[3]) = Verdict(g, x[1], x[2], x[3])
    BY <2>1, <2>3, SameVerdict
  <2> QED
    BY <2>4
<1>5. PICK h : Solution(h, D, V, B)
  <2>1. V # {}
    BY <1>1
  <2> HIDE DEF D, V, H, B
  <2>2. Recursive(D, V, H, B)
    BY <1>2, <1>3, <1>4, <2>1 DEF Recursive
  <2> QED
    BY <2>2, Recursion
<1>6. IsIt(h)
  BY <1>5 DEF Solution
<1>7. JsonEqual = CHOOSE f : IsIt(f)
  BY DEF JsonEqual, Comparisons
<1>8. IsIt(JsonEqual)
  <2> HIDE DEF IsIt
  <2> QED
    BY <1>6, <1>7
<1>9. ASSUME NEW l \in Values, NEW r \in Values, NEW c \in ComparisonContext
      PROVE  JsonEqual[<<l, r, c>>] = Verdict(JsonEqual, l, r, c)
  <2>1. <<l, r, c>> \in D
    BY DEF Comparisons
  <2> DEFINE j == JsonEqual
             value(x) == Verdict(j, x[1], x[2], x[3])
  <2>2. j = [x \in D |-> value(x)]
    BY <1>8
  <2>3. value(<<l, r, c>>) = Verdict(j, l, r, c)
    OBVIOUS
  <2> HIDE DEF j, D, value
  <2>4. j[<<l, r, c>>] = value(<<l, r, c>>)
    BY <2>1, <2>2
  <2> QED
    BY <2>3, <2>4 DEF j
<1>10. \A l \in Values, r \in Values, c \in ComparisonContext :
          Verdict(JsonEqual, l, r, c) \in Verdicts
  BY VerdictType
<1> HIDE DEF IsIt, D, V, H, B
<1> QED
  BY <1>9, <1>10

(***************************************************************************)
(* The verdict on two arrays                                               *)
(***************************************************************************)

(* What arrays that pass as equal are like. *)
Paired(p, g) ==
  \A i \in 0 .. p.left - 1 :
    /\ g[i] \in 0 .. p.right - 1
    /\ <<i, g[i]>> \in p.match
    /\ \A j \in 0 .. i - 1 : IF p.orderMatters THEN g[i] > g[j] ELSE g[i] # g[j]

(* What the partner of an element is: something that it matches or that leads
   to an error, behind those before or not one of them. *)
LEMMA PartnerIs ==
  ASSUME NEW p, p.left \in Nat, p.right \in Nat, NEW i \in 0 .. p.left - 1
  PROVE  LET g == Partners(p)
             open(rk) == /\ rk \in 0 .. p.right - 1
                         /\ <<i, rk>> \in p.match \cup p.bad
                         /\ \A j \in 0 .. i - 1 : IF p.orderMatters THEN rk > g[j] ELSE rk # g[j]
         IN  /\ g[i] = -1 \/ open(g[i])
             /\ \A rk : open(rk) => open(g[i]) /\ g[i] <= rk
<1> DEFINE g == Partners(p)
           open(rk) == /\ rk \in 0 .. p.right - 1
                       /\ <<i, rk>> \in p.match \cup p.bad
                       /\ \A j \in 0 .. i - 1 : IF p.orderMatters THEN rk > g[j] ELSE rk # g[j]
           before == [j \in 0 .. i - 1 |-> g[j]]
           hits == HitsAfter(p, before, i)
           fit == FirstFit(p, before, i)
<1>1. Fits(g, p, p.left)
  BY PartnersFit
<1>2. g[i] = fit
  BY <1>1 DEF Fits
<1>3. /\ hits = {} => fit = -1
      /\ hits # {} => fit \in hits /\ \A other \in hits : fit <= other
  BY FirstFitIsFirst
<1>4. \A rk : rk \in hits <=> open(rk)
  BY DEF HitsAfter
<1> HIDE DEF hits, fit, open, g
<1>5. /\ g[i] = -1 \/ open(g[i])
      /\ \A rk : open(rk) => open(g[i]) /\ g[i] <= rk
  BY <1>2, <1>3, <1>4
<1> QED
  BY <1>5 DEF open, g

(* Arrays that pass as equal have a partner for each expected element. *)
LEMMA EqualArrays ==
  ASSUME NEW p, p.left \in Nat, p.right \in Nat, arrayComparison(p) = "equal"
  PROVE  /\ p.left <= p.right
         /\ p.noExtra => p.left = p.right
         /\ Paired(p, Partners(p))
<1> DEFINE g == Partners(p)
<1>1. Fits(g, p, p.left)
  BY PartnersFit
<1>2. DOMAIN g = 0 .. p.left - 1
  BY <1>1 DEF Fits
<1>3. /\ ~ (p.left > p.right)
      /\ \A i \in DOMAIN g : <<i, g[i]>> \notin p.bad /\ g[i] # -1
      /\ ~ (p.noExtra /\ p.left # p.right)
  BY DEF arrayComparison
<1>4. ASSUME NEW i \in 0 .. p.left - 1
      PROVE  /\ g[i] \in 0 .. p.right - 1
             /\ <<i, g[i]>> \in p.match
             /\ \A j \in 0 .. i - 1 : IF p.orderMatters THEN g[i] > g[j] ELSE g[i] # g[j]
  <2>1. <<i, g[i]>> \notin p.bad /\ g[i] # -1
    BY <1>2, <1>3
  <2> QED
    BY <2>1, PartnerIs
<1> QED
  BY <1>3, <1>4 DEF Paired

(* Partners that ascend in an array of the same length are the elements of the
   same index. *)
LEMMA AscendingIsSame ==
  ASSUME NEW n \in Nat, NEW g,
         \A i \in 0 .. n - 1 : g[i] \in 0 .. n - 1,
         \A i \in 0 .. n - 1 : \A j \in 0 .. i - 1 : g[i] > g[j]
  PROVE  \A i \in 0 .. n - 1 : g[i] = i
<1> DEFINE T == {m \in Nat : \A i, j \in 0 .. n - 1 : j = i + m => g[j] >= g[i] + m}
<1>1. 0 \in T
  OBVIOUS
<1>2. ASSUME NEW m \in T PROVE m + 1 \in T
  <2>1. ASSUME NEW i \in 0 .. n - 1, NEW j \in 0 .. n - 1, j = i + (m + 1)
        PROVE  g[j] >= g[i] + (m + 1)
    <3>1. m \in Nat /\ j - 1 \in 0 .. n - 1 /\ j - 1 = i + m /\ j - 1 \in 0 .. j - 1
      BY <2>1
    <3>2. g[j - 1] >= g[i] + m
      BY <3>1
    <3>3. g[j] > g[j - 1]
      BY <3>1
    <3>4. g[j] \in Int /\ g[j - 1] \in Int /\ g[i] \in Int
      BY <3>1
    <3> HIDE DEF T
    <3> QED
      BY <3>1, <3>2, <3>3, <3>4
  <2> QED
    BY <2>1
<1>3. T = Nat
  <2>1. T \in SUBSET Nat
    OBVIOUS
  <2> HIDE DEF T
  <2> QED
    BY <1>1, <1>2, <2>1, Inductive
<1>4. ASSUME NEW i \in 0 .. n - 1 PROVE g[i] = i
  <2>1. i \in T /\ (n - 1) - i \in T /\ 0 \in 0 .. n - 1 /\ n - 1 \in 0 .. n - 1
    <3> HIDE DEF T
    <3> QED
      BY <1>3
  <2>2. g[i] >= g[0] + i /\ g[n - 1] >= g[i] + ((n - 1) - i)
    BY <2>1
  <2>3. g[0] \in 0 .. n - 1 /\ g[n - 1] \in 0 .. n - 1 /\ g[i] \in 0 .. n - 1
    BY <2>1
  <2> HIDE DEF T
  <2> QED
    BY <2>2, <2>3
<1> QED
  BY <1>4

(* Arrays pass if each element matches the one of the same index: the partner
   of an element is never behind it, so that it is still there. *)
LEMMA SameArraysPass ==
  ASSUME NEW p, p.left \in Nat, p.right = p.left, p.bad = {},
         \A i \in 0 .. p.left - 1 : <<i, i>> \in p.match
  PROVE  arrayComparison(p) = "equal"
<1> DEFINE g == Partners(p)
           T == {m \in Nat : \A i \in 0 .. p.left - 1 : i < m => g[i] \in 0 .. i}
<1>1. 0 \in T
  <2>1. \A i \in 0 .. p.left - 1 : ~ (i < 0)
    OBVIOUS
  <2> QED
    BY <2>1
<1>2. ASSUME NEW m \in T PROVE m + 1 \in T
  <2>1. m \in Nat /\ \A i \in 0 .. p.left - 1 : i < m => g[i] \in 0 .. i
    OBVIOUS
  <2>2. ASSUME NEW i \in 0 .. p.left - 1, i < m + 1 PROVE g[i] \in 0 .. i
    <3>1. ASSUME NEW j \in 0 .. i - 1 PROVE i > g[j] /\ i # g[j]
      <4>1. j \in 0 .. p.left - 1 /\ j < m /\ j < i
        BY <2>1, <2>2
      <4>2. g[j] \in 0 .. j
        BY <2>1, <4>1
      <4> HIDE DEF g
      <4> QED
        BY <4>1, <4>2
    <3> DEFINE open(rk) == /\ rk \in 0 .. p.right - 1
                           /\ <<i, rk>> \in p.match \cup p.bad
                           /\ \A j \in 0 .. i - 1 : IF p.orderMatters THEN rk > g[j] ELSE rk # g[j]
    <3>2. open(i)
      BY <3>1
    <3>3. \A rk : open(rk) => open(g[i]) /\ g[i] <= rk
      BY PartnerIs
    <3>4. g[i] \in 0 .. p.right - 1 /\ g[i] <= i
      BY <3>2, <3>3
    <3> HIDE DEF g, T
    <3> QED
      BY <3>4
  <2> QED
    BY <2>1, <2>2
<1>3. T = Nat
  <2>1. T \in SUBSET Nat
    OBVIOUS
  <2> HIDE DEF T
  <2> QED
    BY <1>1, <1>2, <2>1, Inductive
<1>4. ASSUME NEW i \in 0 .. p.left - 1 PROVE g[i] # -1
  <2>1. i + 1 \in T /\ i < i + 1
    <3> HIDE DEF T
    <3> QED
      BY <1>3
  <2>2. g[i] \in 0 .. i
    BY <2>1
  <2> HIDE DEF g, T
  <2> QED
    BY <2>2
<1>5. DOMAIN g = 0 .. p.left - 1
  <2>1. Fits(g, p, p.left)
    BY PartnersFit
  <2> QED
    BY <2>1 DEF Fits
<1> HIDE DEF g, T
<1> QED
  BY <1>4, <1>5 DEF arrayComparison, g

(* There is no error if JsonEqual fails for no pair of elements. *)
LEMMA NoErrorInArrays ==
  ASSUME NEW p, p.bad = {}
  PROVE  arrayComparison(p) # "error"
  BY DEF arrayComparison

(***************************************************************************)
(* Values without controls                                                 *)
(***************************************************************************)

(* A property of values by recursion over their parts exists. *)
LEMMA OfAllParts ==
  ASSUME NEW S
  PROVE  \E h \in [Values -> BOOLEAN] :
           h = [v \in Values |-> v \in S /\ \A part \in Parts(v) : h[part]]
<1> DEFINE V == BOOLEAN
           B == [f \in [Values -> V] |-> [v \in Values |-> v \in S /\ \A part \in Parts(v) : f[part]]]
<1>1. B \in [[Values -> V] -> [Values -> V]]
  OBVIOUS
<1>2. LooksDown(Values, V, Height, B)
  <2> SUFFICES ASSUME NEW f \in [Values -> V], NEW g \in [Values -> V], NEW v \in Values,
                      \A w \in Values : Height[w] < Height[v] => f[w] = g[w]
               PROVE  B[f][v] = B[g][v]
    BY DEF LooksDown
  <2>1. \A part \in Parts(v) : f[part] = g[part]
    BY ValuesAssumption
  <2> QED
    BY <2>1
<1>3. PICK h : Solution(h, Values, V, B)
  <2>1. V # {} /\ Height \in [Values -> Nat]
    BY ValuesAssumption
  <2> HIDE DEF V, B
  <2>2. Recursive(Values, V, Height, B)
    BY <1>1, <1>2, <2>1 DEF Recursive
  <2> QED
    BY <2>2, Recursion
<1> QED
  BY <1>3 DEF Solution

(* Plain is what its definition says. *)
LEMMA PlainIs ==
  \A v \in Values :
    Plain[v] <=> (v[1] = "object" => v[3] = << >>) /\ \A part \in Parts(v) : Plain[part]
<1> DEFINE S == {v \in Values : v[1] = "object" => v[3] = << >>}
           IsIt(f) == f = [v \in Values |-> (v[1] = "object" => v[3] = << >>)
                                              /\ \A part \in Parts(v) : f[part]]
<1>1. PICK h \in [Values -> BOOLEAN] : h = [v \in Values |-> v \in S /\ \A part \in Parts(v) : h[part]]
  BY OfAllParts
<1>2. IsIt(h)
  BY <1>1
<1>3. Plain = CHOOSE f : IsIt(f)
  BY DEF Plain
<1>4. IsIt(Plain)
  <2> HIDE DEF IsIt
  <2> QED
    BY <1>2, <1>3
<1> DEFINE f == Plain
<1>5. f = [v \in Values |-> (v[1] = "object" => v[3] = << >>) /\ \A part \in Parts(v) : f[part]]
  BY <1>4
<1> HIDE DEF f
<1>6. \A v \in Values : f[v] <=> (v[1] = "object" => v[3] = << >>) /\ \A part \in Parts(v) : f[part]
  BY <1>5
<1> QED
  BY <1>6 DEF f

(* OnlyArrays is what its definition says. *)
LEMMA OnlyArraysIs ==
  \A v \in Values :
    OnlyArrays[v] <=> v[1] # "object" /\ \A part \in Parts(v) : OnlyArrays[part]
<1> DEFINE S == {v \in Values : v[1] # "object"}
           IsIt(f) == f = [v \in Values |-> v[1] # "object" /\ \A part \in Parts(v) : f[part]]
<1>1. PICK h \in [Values -> BOOLEAN] : h = [v \in Values |-> v \in S /\ \A part \in Parts(v) : h[part]]
  BY OfAllParts
<1>2. IsIt(h)
  BY <1>1
<1>3. OnlyArrays = CHOOSE f : IsIt(f)
  BY DEF OnlyArrays
<1>4. IsIt(OnlyArrays)
  <2> HIDE DEF IsIt
  <2> QED
    BY <1>2, <1>3
<1> DEFINE f == OnlyArrays
<1>5. f = [v \in Values |-> v[1] # "object" /\ \A part \in Parts(v) : f[part]]
  BY <1>4
<1> HIDE DEF f
<1>6. \A v \in Values : f[v] <=> v[1] # "object" /\ \A part \in Parts(v) : f[part]
  BY <1>5
<1> QED
  BY <1>6 DEF f

(* What is true of a value if it is of its parts is true of all values. *)
LEMMA OverParts ==
  ASSUME NEW S, \A v \in Values : (\A part \in Parts(v) : part \in S) => v \in S
  PROVE  Values \subseteq S
<1> DEFINE T == {n \in Nat : \A v \in Values : Height[v] < n => v \in S}
<1>1. 0 \in T
  <2>1. \A v \in Values : ~ (Height[v] < 0)
    <3>1. \A v \in Values : Height[v] \in Nat
      BY ValuesAssumption
    <3> QED
      BY <3>1
  <2> QED
    BY <2>1
<1>2. ASSUME NEW n \in T PROVE n + 1 \in T
  <2>1. ASSUME NEW v \in Values, Height[v] < n + 1 PROVE v \in S
    <3>1. ASSUME NEW part \in Parts(v) PROVE part \in S
      <4>1. part \in Values /\ Height[part] < Height[v]
        BY ValuesAssumption
      <4>2. Height[part] \in Nat /\ Height[v] \in Nat /\ n \in Nat
        BY <4>1, ValuesAssumption
      <4>3. Height[part] < n
        BY <2>1, <4>1, <4>2
      <4> QED
        BY <4>1, <4>3
    <3> QED
      BY <3>1
  <2> QED
    BY <2>1
<1>3. T = Nat
  <2>1. T \in SUBSET Nat
    OBVIOUS
  <2> HIDE DEF T
  <2> QED
    BY <1>1, <1>2, <2>1, Inductive
<1>4. ASSUME NEW v \in Values PROVE v \in S
  <2>1. Height[v] \in Nat
    BY ValuesAssumption
  <2>2. Height[v] + 1 \in T /\ Height[v] < Height[v] + 1
    <3> HIDE DEF T
    <3> QED
      BY <1>3, <2>1
  <2> QED
    BY <2>2
<1> QED
  BY <1>4

(* Values of arrays and scalars alone have no controls. *)
LEMMA OnlyArraysIsPlain == \A v \in Values : OnlyArrays[v] => Plain[v]
<1> DEFINE S == {v \in Values : OnlyArrays[v] => Plain[v]}
<1>1. ASSUME NEW v \in Values, \A part \in Parts(v) : part \in S PROVE v \in S
  BY <1>1, OnlyArraysIs, PlainIs
<1>2. Values \subseteq S
  <2> HIDE DEF S
  <2> QED
    BY <1>1, OverParts
<1> QED
  BY <1>2

(* ContainedIn as its definition says. *)
Containment(within) ==
  /\ within \in [Values \X Values -> BOOLEAN]
  /\ \A l, r \in Values : within[<<l, r>>] <=> Covers(within, l, r)
  /\ \A l, r \in Values : ContainedIn(l, r) <=> within[<<l, r>>]

(* Covers is a truth value. *)
LEMMA CoversType ==
  ASSUME NEW within, NEW l, NEW r
  PROVE  Covers(within, l, r) \in BOOLEAN
  BY DEF Covers

(* Covers depends on what it is told of the parts alone. *)
LEMMA SameCovers ==
  ASSUME NEW l \in Values, NEW r \in Values, NEW f, NEW g,
         \A p, q \in Values : Height[p] < Height[l] => f[<<p, q>>] = g[<<p, q>>]
  PROVE  Covers(f, l, r) = Covers(g, l, r)
<1>1. CASE l[1] = "object" /\ r[1] = "object"
  <2>1. \A k \in DOMAIN l[2] : k \in DOMAIN r[2] => f[<<l[2][k], r[2][k]>>] = g[<<l[2][k], r[2][k]>>]
    BY <1>1, LowerParts
  <2> QED
    BY <1>1, <2>1 DEF Covers
<1>2. CASE l[1] = "array" /\ r[1] = "array"
  <2>1. /\ DOMAIN l[2] = 1 .. Len(l[2]) /\ DOMAIN r[2] = 1 .. Len(r[2])
        /\ \A i \in DOMAIN l[2] : l[2][i] \in Values /\ Height[l[2][i]] < Height[l]
        /\ \A i \in DOMAIN r[2] : r[2][i] \in Values
    BY <1>2, LowerParts
  <2>2. \A i \in DOMAIN l[2], j \in DOMAIN r[2] : f[<<l[2][i], r[2][j]>>] = g[<<l[2][i], r[2][j]>>]
    BY <2>1
  <2>3. ASSUME NEW h \in [DOMAIN l[2] -> DOMAIN r[2]]
        PROVE  (\A i \in DOMAIN h : f[<<l[2][i], r[2][h[i]]>>])
                 <=> \A i \in DOMAIN h : g[<<l[2][i], r[2][h[i]]>>]
    <3>1. \A i \in DOMAIN h : i \in DOMAIN l[2] /\ h[i] \in DOMAIN r[2]
      OBVIOUS
    <3> QED
      BY <2>2, <3>1
  <2> QED
    BY <1>2, <2>3 DEF Covers
<1>3. CASE ~ (l[1] = "object" /\ r[1] = "object") /\ ~ (l[1] = "array" /\ r[1] = "array")
  BY <1>3 DEF Covers
<1> QED
  BY <1>1, <1>2, <1>3

(* ContainedIn is what its definition says. *)
LEMMA ContainedInIs == \E within : Containment(within)
<1> DEFINE D == Values \X Values
           V == BOOLEAN
           H == [x \in D |-> Height[x[1]]]
           B == [f \in [D -> V] |-> [x \in D |-> Covers(f, x[1], x[2])]]
           IsIt(f) == f = [x \in D |-> Covers(f, x[1], x[2])]
<1>1. V # {}
  OBVIOUS
<1>2. H \in [D -> Nat]
  BY ValuesAssumption
<1>3. B \in [[D -> V] -> [D -> V]]
  <2>1. \A f \in [D -> V] : [x \in D |-> Covers(f, x[1], x[2])] \in [D -> V]
    BY CoversType
  <2> QED
    BY <2>1
<1>4. LooksDown(D, V, H, B)
  <2> SUFFICES ASSUME NEW f \in [D -> V], NEW g \in [D -> V], NEW x \in D,
                      \A y \in D : H[y] < H[x] => f[y] = g[y]
               PROVE  B[f][x] = B[g][x]
    BY DEF LooksDown
  <2>1. x[1] \in Values /\ x[2] \in Values
    OBVIOUS
  <2>2. ASSUME NEW p \in Values, NEW q \in Values, Height[p] < Height[x[1]]
        PROVE  f[<<p, q>>] = g[<<p, q>>]
    <3>1. <<p, q>> \in D /\ H[<<p, q>>] = Height[p] /\ H[x] = Height[x[1]]
      OBVIOUS
    <3> HIDE DEF D, H
    <3> QED
      BY <2>2, <3>1
  <2>3. Covers(f, x[1], x[2]) = Covers(g, x[1], x[2])
    BY <2>1, <2>2, SameCovers
  <2> QED
    BY <2>3
<1>5. PICK h : Solution(h, D, V, B)
  <2> HIDE DEF D, V, H, B
  <2>1. Recursive(D, V, H, B)
    BY <1>1, <1>2, <1>3, <1>4 DEF Recursive
  <2> QED
    BY <2>1, Recursion
<1>6. IsIt(h)
  BY <1>5 DEF Solution
<1> DEFINE w == CHOOSE f : IsIt(f)
<1>7. IsIt(w)
  <2> HIDE DEF IsIt
  <2> QED
    BY <1>6
<1>8. \A l, r : ContainedIn(l, r) = w[<<l, r>>]
  BY DEF ContainedIn
<1>9. w = [x \in D |-> Covers(w, x[1], x[2])]
  <2> HIDE DEF w
  <2> QED
    BY <1>7
<1> HIDE DEF w
<1>10. w \in [D -> V]
  BY <1>9, CoversType
<1>11. ASSUME NEW l \in Values, NEW r \in Values PROVE w[<<l, r>>] = Covers(w, l, r)
  <2> DEFINE value(x) == Covers(w, x[1], x[2])
  <2>1. w = [x \in D |-> value(x)] /\ <<l, r>> \in D
    BY <1>9
  <2>2. value(<<l, r>>) = Covers(w, l, r)
    OBVIOUS
  <2> HIDE DEF value, D
  <2>3. w[<<l, r>>] = value(<<l, r>>)
    BY <2>1
  <2> QED
    BY <2>2, <2>3
<1>12. Containment(w)
  BY <1>8, <1>10, <1>11 DEF Containment
<1> QED
  BY <1>12

(* What a problem, p, of two arrays says of their elements. *)
Elements(p, l, r, c) ==
  /\ p.left = Len(l[2]) /\ p.left \in Nat /\ p.right = Len(r[2]) /\ p.right \in Nat
  /\ p.orderMatters = c.orderMatters /\ p.noExtra = c.noExtra
  /\ \A i \in 0 .. p.left - 1 : l[2][i + 1] \in Parts(l) /\ l[2][i + 1] \in Values
  /\ \A i \in 0 .. p.right - 1 : r[2][i + 1] \in Parts(r) /\ r[2][i + 1] \in Values
  /\ \A i, j : <<i, j>> \in p.match <=>
       /\ i \in 0 .. p.left - 1 /\ j \in 0 .. p.right - 1
       /\ JsonEqual[<<l[2][i + 1], r[2][j + 1], nextControl(c)>>] = "equal"
  /\ \A x \in p.bad : \E i \in 0 .. p.left - 1, j \in 0 .. p.right - 1 :
       JsonEqual[<<l[2][i + 1], r[2][j + 1], nextControl(c)>>] = "error"

(* The problem of ArrayCompare has the elements of the two arrays. *)
LEMMA ProblemIs ==
  ASSUME NEW l \in Values, NEW r \in Values, l[1] = "array", r[1] = "array",
         NEW c \in ComparisonContext
  PROVE  Elements(ProblemOf(JsonEqual, l[2], r[2], c), l, r, c)
<1> DEFINE p == ProblemOf(JsonEqual, l[2], r[2], c)
           pairs == (0 .. Len(l[2]) - 1) \X (0 .. Len(r[2]) - 1)
           said(i, j) == JsonEqual[<<l[2][i + 1], r[2][j + 1], nextControl(c)>>]
<1>1. ASSUME NEW v \in {l, r}
      PROVE  /\ v[2] \in Seq(Values) /\ Len(v[2]) \in Nat
             /\ \A i \in 0 .. Len(v[2]) - 1 : v[2][i + 1] \in Parts(v) /\ v[2][i + 1] \in Values
  <2>1. v[1] = "array" /\ v \in Values
    OBVIOUS
  <2>2. v[2] \in Seq(Values) /\ Len(v[2]) \in Nat /\ DOMAIN v[2] = 1 .. Len(v[2])
    BY <2>1, LowerParts
  <2>3. \A i \in 1 .. Len(v[2]) : v[2][i] \in Parts(v) /\ v[2][i] \in Values
    BY <2>1, <2>2, LowerParts DEF Parts, Range
  <2>4. \A i \in 0 .. Len(v[2]) - 1 : i + 1 \in 1 .. Len(v[2])
    BY <2>2
  <2> QED
    BY <2>2, <2>3, <2>4
<1>2. /\ p.left = Len(l[2]) /\ p.right = Len(r[2])
      /\ p.orderMatters = c.orderMatters /\ p.noExtra = c.noExtra
      /\ p.match = {x \in pairs : said(x[1], x[2]) = "equal"}
      /\ p.bad = {x \in pairs : said(x[1], x[2]) = "error"}
  BY DEF ProblemOf
<1>3. \A i, j : <<i, j>> \in p.match <=>
        i \in 0 .. p.left - 1 /\ j \in 0 .. p.right - 1 /\ said(i, j) = "equal"
  <2> HIDE DEF p, said
  <2> QED
    BY <1>2
<1>4. \A x \in p.bad : \E i \in 0 .. p.left - 1, j \in 0 .. p.right - 1 : said(i, j) = "error"
  <2> HIDE DEF p, said
  <2> QED
    BY <1>2
<1>5. /\ \A i \in 0 .. p.left - 1 : l[2][i + 1] \in Parts(l) /\ l[2][i + 1] \in Values
      /\ \A i \in 0 .. p.right - 1 : r[2][i + 1] \in Parts(r) /\ r[2][i + 1] \in Values
  BY <1>1, <1>2
<1>6. p.left \in Nat /\ p.right \in Nat
  BY <1>1, <1>2
<1> HIDE DEF p
<1>7. Elements(p, l, r, c)
  BY <1>2, <1>3, <1>4, <1>5, <1>6 DEF Elements
<1> QED
  BY <1>7 DEF p

(* A key of an expected object that has a value there: it must be in the actual
   one, and the values must compare as equal. *)
LEMMA KeyEqual ==
  ASSUME NEW l \in Values, NEW r \in Values, l[1] = "object", r[1] = "object",
         NEW k \in DOMAIN l[2], KeyVerdict(JsonEqual, l, r, k) \notin {"error", "unequal"}
  PROVE  k \in DOMAIN r[2] /\ \E d \in ComparisonContext : JsonEqual[<<l[2][k], r[2][k], d>>] = "equal"
<1> DEFINE c  == IF k \in DOMAIN l[3] THEN l[3][k] ELSE << >>
           rv == IF k \in DOMAIN r[2] THEN r[2][k] ELSE Null
<1>1. ~Malformed(c) /\ k \in DOMAIN r[2]
  BY DEF KeyVerdict, keyChecks
<1>2. Depth(c) \in Int
  <2>1. CASE k \in DOMAIN l[3]
    BY <1>1, <2>1, ValuesAssumption
  <2>2. CASE k \notin DOMAIN l[3]
    BY <2>2 DEF Depth, Has
  <2> QED
    BY <2>1, <2>2
<1>3. fillComparisonContext(c) \in ComparisonContext
  BY <1>2, Contexts
<1>4. JsonEqual[<<l[2][k], rv, fillComparisonContext(c)>>] = KeyVerdict(JsonEqual, l, r, k)
  BY <1>1 DEF KeyVerdict
<1>5. l[2][k] \in Values /\ rv \in Values
  BY <1>1, LowerParts
<1>6. JsonEqual[<<l[2][k], rv, fillComparisonContext(c)>>] \in Verdicts
  <2> HIDE DEF c, rv
  <2> QED
    BY <1>3, <1>5, JsonEqualIs
<1>7. JsonEqual[<<l[2][k], rv, fillComparisonContext(c)>>] = "equal"
  BY <1>4, <1>6 DEF Verdicts
<1> HIDE DEF c
<1> QED
  BY <1>1, <1>3, <1>7

(* The same key if nothing in the object has a control. *)
LEMMA PlainKey ==
  ASSUME NEW l \in Values, NEW r \in Values, l[3] = << >>, NEW k \in DOMAIN l[2]
  PROVE  LET c == fillComparisonContext(<< >>)
         IN  /\ c \in ComparisonContext
             /\ KeyVerdict(JsonEqual, l, r, k) =
                  IF k \in DOMAIN r[2] THEN JsonEqual[<<l[2][k], r[2][k], c>>] ELSE "unequal"
<1>1. DOMAIN << >> = {}
  OBVIOUS
<1>2. ~Malformed(<< >>) /\ Depth(<< >>) = 0 /\ \A name : ~Has(<< >>, name) /\ ~On(<< >>, name)
  BY <1>1 DEF Malformed, Depth, Has, On
<1>3. AskedType(<< >>) = {}
  BY <1>1, <1>2 DEF AskedType
<1> DEFINE rOK == k \in DOMAIN r[2]
           lOK == k \in DOMAIN l[2]
           rv  == IF rOK THEN r[2][k] ELSE Null
<1>4. keyChecks(rv, rOK, << >>, lOK) <=> rOK
  <2> HIDE DEF rOK, rv
  <2> QED
    BY <1>1, <1>2, <1>3 DEF keyChecks
<1>5. fillComparisonContext(<< >>) \in ComparisonContext
  BY <1>2, Contexts
<1>6. k \notin DOMAIN l[3]
  BY <1>1
<1>7. KeyVerdict(JsonEqual, l, r, k) =
        IF ~keyChecks(rv, rOK, << >>, lOK) THEN "unequal"
        ELSE JsonEqual[<<l[2][k], rv, fillComparisonContext(<< >>)>>]
  BY <1>2, <1>6 DEF KeyVerdict
<1> QED
  BY <1>4, <1>5, <1>7

(* An expectation passes only for what contains it, whatever the controls in it
   and above it. *)
LEMMA EqualIsContained ==
  ASSUME NEW within, Containment(within)
  PROVE  \A l, r \in Values, c \in ComparisonContext :
           JsonEqual[<<l, r, c>>] = "equal" => within[<<l, r>>]
<1> DEFINE S == {l \in Values : \A r \in Values, c \in ComparisonContext :
                   JsonEqual[<<l, r, c>>] = "equal" => within[<<l, r>>]}
<1>1. ASSUME NEW l \in Values, \A part \in Parts(l) : part \in S PROVE l \in S
  <2> SUFFICES ASSUME NEW r \in Values, NEW c \in ComparisonContext, JsonEqual[<<l, r, c>>] = "equal"
               PROVE  Covers(within, l, r)
    BY DEF Containment
  <2>1. Verdict(JsonEqual, l, r, c) = "equal"
    BY JsonEqualIs
  <2>2. \A part \in Parts(l), q \in Values, d \in ComparisonContext :
          JsonEqual[<<part, q, d>>] = "equal" => within[<<part, q>>]
    BY <1>1
  <2> HIDE DEF S
  <2>3. l[1] = r[1]
    BY <2>1 DEF Verdict
  <2>4. CASE l[1] = "object"
    <3>1. objectComparison(JsonEqual, l, r, c.noExtra) = "equal"
      BY <2>1, <2>3, <2>4 DEF Verdict
    <3>2. ASSUME NEW k \in DOMAIN l[2] PROVE k \in DOMAIN r[2] /\ within[<<l[2][k], r[2][k]>>]
      <4>1. KeyVerdict(JsonEqual, l, r, k) \notin {"error", "unequal"}
        BY <3>1 DEF objectComparison
      <4>2. k \in DOMAIN r[2] /\ \E d \in ComparisonContext : JsonEqual[<<l[2][k], r[2][k], d>>] = "equal"
        BY <2>3, <2>4, <4>1, KeyEqual
      <4>3. l[2][k] \in Parts(l) /\ r[2][k] \in Values
        BY <2>3, <2>4, <4>2, LowerParts DEF Parts, Range
      <4> QED
        BY <2>2, <4>2, <4>3
    <3> QED
      BY <2>3, <2>4, <3>2 DEF Covers
  <2>5. CASE l[1] = "array"
    <3> DEFINE p == ProblemOf(JsonEqual, l[2], r[2], c)
               q == Partners(p)
               g == [i \in DOMAIN l[2] |-> q[i - 1] + 1]
    <3>1. arrayComparison(p) = "equal"
      BY <2>1, <2>3, <2>5 DEF Verdict
    <3>2. Elements(p, l, r, c)
      BY <2>3, <2>5, ProblemIs
    <3>3. DOMAIN l[2] = 1 .. p.left /\ DOMAIN r[2] = 1 .. p.right
      BY <2>3, <2>5, <3>2, LowerParts DEF Elements
    <3>a. p.left \in Nat /\ p.right \in Nat
      BY <3>2 DEF Elements
    <3> HIDE DEF p
    <3>4. Paired(p, q)
      BY <3>1, <3>a, EqualArrays
    <3>5. ASSUME NEW i \in 0 .. p.left - 1
          PROVE  /\ q[i] \in 0 .. p.right - 1 /\ within[<<l[2][i + 1], r[2][q[i] + 1]>>]
                 /\ \A j \in 0 .. i - 1 : q[i] # q[j]
      <4>1. /\ q[i] \in 0 .. p.right - 1 /\ <<i, q[i]>> \in p.match
            /\ \A j \in 0 .. i - 1 : q[i] # q[j]
        <5>1. \A j \in 0 .. i - 1 : j \in 0 .. p.left - 1
          BY <3>a
        <5>2. \A j \in 0 .. p.left - 1 : q[j] \in 0 .. p.right - 1
          BY <3>4 DEF Paired
        <5> HIDE DEF q
        <5> QED
          BY <3>4, <5>1, <5>2 DEF Paired
      <4> HIDE DEF q
      <4> QED
        BY <2>2, <3>2, <4>1, Contexts DEF Elements
    <3> HIDE DEF q
    <3>6. g \in [DOMAIN l[2] -> DOMAIN r[2]]
      <4>1. ASSUME NEW i \in 1 .. p.left PROVE q[i - 1] + 1 \in 1 .. p.right
        <5>1. i - 1 \in 0 .. p.left - 1
          BY <3>a
        <5>2. q[i - 1] \in 0 .. p.right - 1
          BY <3>5, <5>1
        <5> QED
          BY <3>a, <5>2
      <4> QED
        BY <3>3, <4>1
    <3>7. IsInjective(g)
      <4>1. ASSUME NEW i \in 1 .. p.left, NEW j \in 1 .. p.left, i < j PROVE g[i] # g[j]
        <5>1. /\ j - 1 \in 0 .. p.left - 1 /\ i - 1 \in 0 .. (j - 1) - 1 /\ i - 1 \in 0 .. p.left - 1
          BY <3>a, <4>1
        <5>2. q[j - 1] # q[i - 1] /\ q[i - 1] \in 0 .. p.right - 1 /\ q[j - 1] \in 0 .. p.right - 1
          BY <3>5, <5>1
        <5>3. g[i] = q[i - 1] + 1 /\ g[j] = q[j - 1] + 1
          BY <3>3
        <5> HIDE DEF g
        <5> QED
          BY <3>a, <5>2, <5>3
      <4>2. DOMAIN g = 1 .. p.left /\ p.left \in Nat
        BY <3>a, <3>3
      <4> HIDE DEF g
      <4>3. ASSUME NEW i \in DOMAIN g, NEW j \in DOMAIN g, g[i] = g[j] PROVE i = j
        <5>1. i \in 1 .. p.left /\ j \in 1 .. p.left /\ i \in Int /\ j \in Int
          BY <4>2
        <5>2. ~ (i < j) /\ ~ (j < i)
          BY <4>1, <4>3, <5>1
        <5> QED
          BY <5>1, <5>2
      <4> QED
        BY <4>3 DEF IsInjective
    <3>8. \A i \in DOMAIN g : within[<<l[2][i], r[2][g[i]]>>]
      <4> SUFFICES ASSUME NEW i \in 1 .. p.left PROVE within[<<l[2][i], r[2][g[i]]>>]
        BY <3>3
      <4>1. i - 1 \in 0 .. p.left - 1 /\ (i - 1) + 1 = i /\ g[i] = q[i - 1] + 1
        BY <3>a, <3>3
      <4> HIDE DEF g
      <4> QED
        BY <3>5, <4>1
    <3> HIDE DEF g
    <3> QED
      BY <2>3, <2>5, <3>6, <3>7, <3>8 DEF Covers
  <2>6. CASE l[1] \notin {"object", "array"}
    BY <2>1, <2>3, <2>6 DEF Verdict, Covers
  <2> QED
    BY <2>4, <2>5, <2>6
<1>2. Values \subseteq S
  <2> HIDE DEF S
  <2> QED
    BY <1>1, OverParts
<1> QED
  BY <1>2

(* A value without controls passes for itself, and is never an error. *)
LEMMA PlainIsEqual ==
  \A l \in Values : Plain[l] =>
    \A c \in ComparisonContext :
      JsonEqual[<<l, l, c>>] = "equal" /\ \A r \in Values : JsonEqual[<<l, r, c>>] # "error"
<1> DEFINE Good(l) == \A c \in ComparisonContext :
                        /\ JsonEqual[<<l, l, c>>] = "equal"
                        /\ \A r \in Values : JsonEqual[<<l, r, c>>] # "error"
           S == {l \in Values : Plain[l] => Good(l)}
<1>1. ASSUME NEW l \in Values, \A part \in Parts(l) : part \in S PROVE l \in S
  <2> SUFFICES ASSUME Plain[l], NEW c \in ComparisonContext
               PROVE  /\ JsonEqual[<<l, l, c>>] = "equal"
                      /\ \A r \in Values : JsonEqual[<<l, r, c>>] # "error"
    OBVIOUS
  <2>1. /\ \A part \in Parts(l) : Good(part)
        /\ l[1] = "object" => l[3] = << >>
    BY <1>1, PlainIs, ValuesAssumption
  <2> HIDE DEF S
  <2>2. \A r \in Values : JsonEqual[<<l, r, c>>] = Verdict(JsonEqual, l, r, c)
    BY JsonEqualIs
  <2>3. CASE l[1] = "object"
    <3>1. ASSUME NEW r \in Values, r[1] = "object"
          PROVE  \A k \in DOMAIN l[2] \cup DOMAIN l[3] :
                   /\ KeyVerdict(JsonEqual, l, r, k) # "error"
                   /\ l = r => KeyVerdict(JsonEqual, l, r, k) = "equal"
      <4> SUFFICES ASSUME NEW k \in DOMAIN l[2]
                   PROVE  /\ KeyVerdict(JsonEqual, l, r, k) # "error"
                          /\ l = r => KeyVerdict(JsonEqual, l, r, k) = "equal"
        <5>1. DOMAIN l[3] = {}
          BY <2>1, <2>3
        <5> QED
          BY <5>1
      <4> DEFINE d == fillComparisonContext(<< >>)
      <4>1. /\ d \in ComparisonContext
            /\ KeyVerdict(JsonEqual, l, r, k) =
                 IF k \in DOMAIN r[2] THEN JsonEqual[<<l[2][k], r[2][k], d>>] ELSE "unequal"
        BY <2>1, <2>3, PlainKey
      <4>2. l[2][k] \in Parts(l)
        BY <2>3 DEF Parts, Range
      <4>3. k \in DOMAIN r[2] => r[2][k] \in Values
        BY <3>1, LowerParts
      <4> HIDE DEF d
      <4> QED
        <5>1. Good(l[2][k])
          BY <2>1, <4>2
        <5> QED
          BY <4>1, <4>3, <5>1
    <3>2. ASSUME NEW r \in Values PROVE JsonEqual[<<l, r, c>>] # "error"
      BY <2>2, <2>3, <3>1 DEF Verdict, objectComparison
    <3>3. JsonEqual[<<l, l, c>>] = "equal"
      BY <2>2, <2>3, <3>1 DEF Verdict, objectComparison
    <3> QED
      BY <3>2, <3>3
  <2>4. CASE l[1] = "array"
    <3>1. ASSUME NEW r \in Values, r[1] = "array"
          PROVE  LET p == ProblemOf(JsonEqual, l[2], r[2], c)
                 IN  arrayComparison(p) # "error" /\ (l = r => arrayComparison(p) = "equal")
      <4> DEFINE p == ProblemOf(JsonEqual, l[2], r[2], c)
      <4>1. Elements(p, l, r, c)
        BY <2>4, <3>1, ProblemIs
      <4>2. nextControl(c) \in ComparisonContext
        BY Contexts
      <4> HIDE DEF p
      <4>3. p.bad = {}
        <5> SUFFICES ASSUME NEW x \in p.bad PROVE FALSE
          OBVIOUS
        <5>1. PICK i \in 0 .. p.left - 1, j \in 0 .. p.right - 1 :
                JsonEqual[<<l[2][i + 1], r[2][j + 1], nextControl(c)>>] = "error"
          BY <4>1 DEF Elements
        <5>2. l[2][i + 1] \in Parts(l) /\ r[2][j + 1] \in Values
          BY <4>1 DEF Elements
        <5> QED
          BY <2>1, <4>2, <5>1, <5>2
      <4>4. l = r => \A i \in 0 .. p.left - 1 : <<i, i>> \in p.match
        <5> SUFFICES ASSUME l = r, NEW i \in 0 .. p.left - 1 PROVE <<i, i>> \in p.match
          OBVIOUS
        <5>1. l[2][i + 1] \in Parts(l) /\ p.left = p.right
          BY <4>1 DEF Elements
        <5>2. JsonEqual[<<l[2][i + 1], l[2][i + 1], nextControl(c)>>] = "equal"
          BY <2>1, <4>2, <5>1
        <5> QED
          BY <4>1, <5>1, <5>2 DEF Elements
      <4>5. l = r => arrayComparison(p) = "equal"
        <5>1. p.left \in Nat /\ (l = r => p.left = p.right)
          BY <4>1 DEF Elements
        <5> QED
          BY <4>3, <4>4, <5>1, SameArraysPass
      <4>6. arrayComparison(p) # "error"
        BY <4>3, NoErrorInArrays
      <4> QED
        BY <4>5, <4>6 DEF p
    <3> QED
      BY <2>2, <2>4, <3>1 DEF Verdict
  <2>5. CASE l[1] \notin {"object", "array"}
    BY <2>2, <2>5 DEF Verdict
  <2> QED
    BY <2>3, <2>4, <2>5
<1>2. Values \subseteq S
  <2> HIDE DEF S
  <2> QED
    BY <1>1, OverParts
<1> QED
  BY <1>2

(* The whole context is in force on every level: arrays are compared in order
   and nothing may be left over. *)
FullDepth(c) == c.depth = -1 /\ c.orderMatters /\ c.noExtra

(* Arrays of arrays that pass at full depth are the same. *)
LEMMA FullDepthIsSame ==
  \A l \in Values : OnlyArrays[l] =>
    \A r \in Values, c \in ComparisonContext :
      FullDepth(c) /\ JsonEqual[<<l, r, c>>] = "equal" => l = r
<1> DEFINE Good(l) == \A r \in Values, c \in ComparisonContext :
                        FullDepth(c) /\ JsonEqual[<<l, r, c>>] = "equal" => l = r
           S == {l \in Values : OnlyArrays[l] => Good(l)}
<1>1. ASSUME NEW l \in Values, \A part \in Parts(l) : part \in S PROVE l \in S
  <2> SUFFICES ASSUME OnlyArrays[l], NEW r \in Values, NEW c \in ComparisonContext,
                      FullDepth(c), JsonEqual[<<l, r, c>>] = "equal"
               PROVE  l = r
    OBVIOUS
  <2>1. l[1] # "object" /\ \A part \in Parts(l) : Good(part)
    BY <1>1, OnlyArraysIs, ValuesAssumption
  <2>2. Verdict(JsonEqual, l, r, c) = "equal"
    BY JsonEqualIs
  <2> HIDE DEF S
  <2>3. l[1] = r[1]
    BY <2>2 DEF Verdict
  <2>4. CASE l[1] = "array"
    <3> DEFINE p == ProblemOf(JsonEqual, l[2], r[2], c)
               g == Partners(p)
    <3>1. arrayComparison(p) = "equal"
      BY <2>2, <2>3, <2>4 DEF Verdict
    <3>2. Elements(p, l, r, c)
      BY <2>3, <2>4, ProblemIs
    <3>3. nextControl(c) \in ComparisonContext /\ FullDepth(nextControl(c))
      <4>1. nextDepth(c.depth) = -1 /\ -1 # NoDepth
        BY DEF FullDepth, nextDepth, NoDepth
      <4>2. /\ nextControl(c).depth = nextDepth(c.depth)
            /\ nextDepth(c.depth) # NoDepth /\ c.orderMatters => nextControl(c).orderMatters
            /\ nextDepth(c.depth) # NoDepth /\ c.noExtra => nextControl(c).noExtra
        BY DEF nextControl
      <4> QED
        BY <4>1, <4>2, Contexts DEF FullDepth
    <3> HIDE DEF p
    <3>4. /\ p.left \in Nat /\ p.right \in Nat /\ p.left = Len(l[2]) /\ p.right = Len(r[2])
          /\ p.orderMatters /\ p.noExtra
      BY <3>2 DEF Elements, FullDepth
    <3>5. p.left = p.right /\ Paired(p, g)
      BY <3>1, <3>4, EqualArrays
    <3> HIDE DEF g
    <3>6. \A i \in 0 .. p.left - 1 : g[i] = i
      <4>1. \A i \in 0 .. p.left - 1 : g[i] \in 0 .. p.left - 1
        BY <3>5 DEF Paired
      <4>2. \A i \in 0 .. p.left - 1 : \A j \in 0 .. i - 1 : g[i] > g[j]
        BY <3>4, <3>5 DEF Paired
      <4> QED
        BY <3>4, <4>1, <4>2, AscendingIsSame
    <3>7. ASSUME NEW i \in 1 .. p.left PROVE l[2][i] = r[2][i]
      <4> DEFINE k == i - 1
      <4>1. k \in 0 .. p.left - 1 /\ k \in 0 .. p.right - 1 /\ k + 1 = i
        BY <3>4, <3>5
      <4> HIDE DEF k
      <4>2. <<k, k>> \in p.match
        BY <3>5, <3>6, <4>1 DEF Paired
      <4>3. JsonEqual[<<l[2][k + 1], r[2][k + 1], nextControl(c)>>] = "equal"
        BY <3>2, <4>2 DEF Elements
      <4>4. l[2][i] \in Parts(l) /\ r[2][i] \in Values
        BY <3>2, <4>1 DEF Elements
      <4> QED
        BY <2>1, <3>3, <4>1, <4>3, <4>4
    <3>8. l = <<"array", l[2]>> /\ r = <<"array", r[2]>> /\ l[2] \in Seq(Values) /\ r[2] \in Seq(Values)
      BY <2>3, <2>4, LowerParts
    <3>9. l[2] = r[2]
      <4> DEFINE s == l[2]
                 t == r[2]
      <4>1. s \in Seq(Values) /\ t \in Seq(Values) /\ Len(s) = Len(t) /\ \A i \in 1 .. Len(s) : s[i] = t[i]
        BY <3>4, <3>5, <3>7, <3>8
      <4> HIDE DEF s, t
      <4>2. s = t
        BY <4>1
      <4> QED
        BY <4>2 DEF s, t
    <3> QED
      BY <3>8, <3>9
  <2>5. CASE l[1] # "array"
    BY <2>1, <2>2, <2>3, <2>5 DEF Verdict
  <2> QED
    BY <2>4, <2>5
<1>2. Values \subseteq S
  <2> HIDE DEF S
  <2> QED
    BY <1>1, OverParts
<1> QED
  BY <1>2

(***************************************************************************)
(* The comparison of two arrays                                            *)
(***************************************************************************)

(* The problem is that of the arguments. *)
ProblemOfArgs ==
  /\ args \in [l: Expected, r: Actual, c: Controls]
  /\ prob = ProblemOf(JsonEqual, args.l, args.r, fillComparisonContext(args.c))

(* The arguments are never changed, and the loops agree with the comparison
   in one go. *)
LEMMA JsonInvariant == JsonSpec => []ProblemOfArgs /\ []LoopsAgree
<1>1. JsonInit => Init /\ ProblemOfArgs
  BY DEF JsonInit, ProblemOfArgs
<1>2. [Next /\ UNCHANGED args]_<<vars, args>> => [Next]_vars
  BY DEF vars
<1>3. ProblemOfArgs /\ [Next /\ UNCHANGED args]_<<vars, args>> => ProblemOfArgs'
  <2> SUFFICES ASSUME ProblemOfArgs, [Next /\ UNCHANGED args]_<<vars, args>> PROVE ProblemOfArgs'
    OBVIOUS
  <2>1. UNCHANGED <<prob, args>>
    BY DEF vars, Next, TooLong, Begin, Found, NotFound, Error, EndLoop, Extra, Done
  <2> QED
    BY <2>1 DEF ProblemOfArgs
<1>4. JsonSpec => Spec
  BY <1>1, <1>2, PTL DEF JsonSpec, Spec
<1> QED
  BY <1>1, <1>3, <1>4, ArrayCompare_LoopsAgree, PTL DEF JsonSpec

(* In the end, what is said of the arguments is what JsonEqual says. *)
LEMMA EndsAsJsonEqual ==
  ASSUME ProblemOfArgs, LoopsAgree, pc = "done"
  PROVE  LET c == fillComparisonContext(args.c)
         IN  /\ <<"array", args.l>> \in Values /\ <<"array", args.r>> \in Values
             /\ c \in ComparisonContext
             /\ equal = (JsonEqual[<<<<"array", args.l>>, <<"array", args.r>>, c>>] = "equal")
<1> DEFINE c == fillComparisonContext(args.c)
           l == <<"array", args.l>>
           r == <<"array", args.r>>
<1>1. args.l \in Expected /\ args.r \in Actual /\ args.c \in Controls
  BY DEF ProblemOfArgs
<1>2. l \in Values /\ r \in Values /\ c \in ComparisonContext
  BY <1>1, ArgumentsAssumption, Contexts
<1>3. equal = (arrayComparison(prob) = "equal") /\ prob = ProblemOf(JsonEqual, args.l, args.r, c)
  BY DEF ProblemOfArgs, LoopsAgree
<1>4. Verdict(JsonEqual, l, r, c) = arrayComparison(ProblemOf(JsonEqual, args.l, args.r, c))
  BY DEF Verdict
<1>5. JsonEqual[<<l, r, c>>] = Verdict(JsonEqual, l, r, c)
  <2> HIDE DEF l, r, c
  <2> QED
    BY <1>2, JsonEqualIs
<1> QED
  BY <1>2, <1>3, <1>4, <1>5

(* An expected array passes only if the actual one contains it, whatever the
   controls; and one without controls in it passes for itself, whatever the
   controls of the array (comparer.go:27). *)
THEOREM JsonCompare_PlainVerdict == JsonSpec => []PlainVerdict
<1>1. ASSUME ProblemOfArgs, LoopsAgree, pc = "done"
      PROVE  /\ equal => ContainedIn(<<"array", args.l>>, <<"array", args.r>>)
             /\ Plain[<<"array", args.l>>] /\ args.l = args.r => equal
  <2> DEFINE c == fillComparisonContext(args.c)
             l == <<"array", args.l>>
             r == <<"array", args.r>>
  <2>1. /\ l \in Values /\ r \in Values /\ c \in ComparisonContext
        /\ equal = (JsonEqual[<<l, r, c>>] = "equal")
    BY <1>1, EndsAsJsonEqual
  <2>2. args.l = args.r => l = r
    OBVIOUS
  <2>3. PICK within : Containment(within)
    BY ContainedInIs
  <2> HIDE DEF l, r, c
  <2>4. equal => ContainedIn(l, r)
    BY <2>1, <2>3, EqualIsContained DEF Containment
  <2>5. Plain[l] /\ l = r => equal
    BY <2>1, PlainIsEqual
  <2> QED
    BY <2>2, <2>4, <2>5 DEF l, r
<1>2. ProblemOfArgs /\ LoopsAgree => PlainVerdict
  BY <1>1 DEF PlainVerdict
<1> QED
  BY <1>2, JsonInvariant, PTL

(* At full depth, arrays of arrays pass if and only if they are the same
   (comparison_functions.go:467). *)
THEOREM JsonCompare_FullDepthIsIdentity == JsonSpec => []FullDepthIsIdentity
<1>1. ASSUME ProblemOfArgs, LoopsAgree, pc = "done", OnlyArrays[<<"array", args.l>>],
             On(args.c, "order_matters"), On(args.c, "no_extra"), Depth(args.c) = -1
      PROVE  equal = (args.l = args.r)
  <2> DEFINE c == fillComparisonContext(args.c)
             l == <<"array", args.l>>
             r == <<"array", args.r>>
  <2>1. /\ l \in Values /\ r \in Values /\ c \in ComparisonContext
        /\ equal = (JsonEqual[<<l, r, c>>] = "equal")
    BY <1>1, EndsAsJsonEqual
  <2>2. args.l = args.r <=> l = r
    OBVIOUS
  <2>3. FullDepth(c) /\ OnlyArrays[l]
    BY <1>1 DEF FullDepth, fillComparisonContext
  <2> HIDE DEF l, r, c
  <2>4. JsonEqual[<<l, r, c>>] = "equal" => l = r
    BY <2>1, <2>3, FullDepthIsSame
  <2>5. JsonEqual[<<l, l, c>>] = "equal"
    BY <2>1, <2>3, OnlyArraysIsPlain, PlainIsEqual
  <2> QED
    BY <2>1, <2>2, <2>4, <2>5
<1>2. ProblemOfArgs /\ LoopsAgree => FullDepthIsIdentity
  BY <1>1 DEF FullDepthIsIdentity
<1> QED
  BY <1>2, JsonInvariant, PTL

(***************************************************************************)
(* Responses                                                               *)
(***************************************************************************)

(* The object, o, of a response has these keys and no others. *)
IsObject(o, code, list, flat, controls, cookies, hasBody, body) ==
  /\ o[1] = "object"
  /\ DOMAIN o[2] \subseteq {"statuscode", "header", "header_flat", "cookie", "body"}
  /\ "statuscode" \in DOMAIN o[2] <=> code # NoCode
  /\ code # NoCode => o[2]["statuscode"] = <<"number", code>>
  /\ "header" \in DOMAIN o[2] <=> list # << >>
  /\ list # << >> => o[2]["header"] = Object(list)
  /\ "header_flat" \in DOMAIN o[2] <=> flat # << >> \/ controls # << >>
  /\ flat # << >> \/ controls # << >> => o[2]["header_flat"] = <<"object", flat, controls>>
  /\ "cookie" \in DOMAIN o[2] <=> cookies # << >>
  /\ cookies # << >> => o[2]["cookie"] = Object(CookieMap(cookies))
  /\ "body" \in DOMAIN o[2] <=> hasBody
  /\ hasBody => o[2]["body"] = body

(* So it is with the object that the code makes. *)
LEMMA ResponseObjectIs ==
  ASSUME NEW code, NEW list, NEW flat, NEW headerControl, NEW cookies, NEW hasBody \in BOOLEAN,
         NEW body, NEW controls, NEW o,
         o = ResponseObject(code, list, <<flat, headerControl>>, cookies, hasBody, body, controls)
  PROVE  o[3] = controls /\ IsObject(o, code, list, flat, headerControl, cookies, hasBody, body)
  BY DEF ResponseObject, Restrict, IsObject

(* What is expected of a response, if it can be read. *)
Expects(e, spec, stores) ==
  /\ DOMAIN e = DOMAIN NoSpec
  /\ e.code = spec.code /\ e.headerControl = spec.headerControl /\ e.cookies = spec.cookies
  /\ e.body = spec.body /\ e.bodyControl = spec.bodyControl
  /\ e.format = WithIgnore(spec.format, spec.given /\ spec.body = Null /\ ~stores)
  /\ e.header = NewResponse(spec.header)[1]

(* So it is with what the code loads. *)
LEMMA LoadedIs ==
  ASSUME NEW spec, DOMAIN spec = DOMAIN NoSpec, NEW stores,
         loadExpectedResponse(spec, stores) # << >>
  PROVE  /\ Expects(loadExpectedResponse(spec, stores)[1], spec, stores)
         /\ loadExpectedResponse(spec, stores)[1] \in Range(loadExpectedResponse(spec, stores))
         /\ NewResponse(spec.header) # << >>
<1> DEFINE new == IF spec.unknown = {} THEN NewResponse(spec.header) ELSE << >>
           ignore == spec.given /\ spec.body = Null /\ ~stores
           es == loadExpectedResponse(spec, stores)
           of(i) == [spec EXCEPT !.header = new[i], !.format = WithIgnore(@, ignore)]
<1>1. es = [i \in DOMAIN new |-> of(i)]
  BY DEF loadExpectedResponse
<1>2. new = << >> \/ \E h : new = <<h>>
  BY DEF NewResponse
<1>3. new # << >>
  <2> SUFFICES ASSUME new = << >> PROVE es = << >>
    OBVIOUS
  <2>1. DOMAIN new = {}
    OBVIOUS
  <2> HIDE DEF new, of
  <2>2. es = [i \in {} |-> of(i)]
    BY <1>1, <2>1
  <2> QED
    BY <2>2
<1>4. 1 \in DOMAIN new /\ new = NewResponse(spec.header)
  BY <1>2, <1>3
<1>5. DOMAIN NoSpec = {"given", "code", "header", "headerControl", "cookies", "body", "bodyControl", "format",
                     "unknown"}
  BY DEF NoSpec
<1>6. Expects(of(1), spec, stores)
  <2> HIDE DEF new
  <2> QED
    BY <1>4, <1>5 DEF Expects
<1> HIDE DEF new, of
<1>7. es[1] = of(1) /\ 1 \in DOMAIN es
  BY <1>1, <1>4
<1>8. es[1] \in Range(es)
  BY <1>7 DEF Range
<1> QED
  BY <1>3, <1>4, <1>6, <1>7, <1>8

(* The headers that are texts and those that are lists of texts. *)
HeadersOf(header, type) == {k \in DOMAIN header : header[k][1] = type}

(* The two parts of the expected headers. *)
LEMMA HeadersAre ==
  ASSUME NEW header, NewResponse(header) # << >>, NEW h, h = NewResponse(header)[1]
  PROVE  /\ DOMAIN header = HeadersOf(header, "string") \cup HeadersOf(header, "array")
         /\ h.list = [k \in HeadersOf(header, "array") |-> header[k]]
         /\ h.flat = [k \in HeadersOf(header, "string") |-> header[k]]
  BY DEF NewResponse, HeadersOf

(* The object that is expected. *)
LEMMA ExpectedIs ==
  ASSUME NEW e, DOMAIN e = DOMAIN NoSpec
  PROVE  /\ expectedJSON(e)[3] = BodyControls(e)
         /\ IsObject(expectedJSON(e),
                     CASE e.code = NoCode -> 200 [] e.code = 0 -> NoCode [] OTHER -> e.code,
                     e.header.list, e.header.flat, e.headerControl,
                     SetToSeq(Range(e.cookies)), e.body # Null, e.body)
<1>1. DOMAIN NoSpec = {"given", "code", "header", "headerControl", "cookies", "body", "bodyControl", "format",
                     "unknown"}
  BY DEF NoSpec
<1> DEFINE code == CASE e.code = NoCode -> 200 [] e.code = 0 -> NoCode [] OTHER -> e.code
           d == [e EXCEPT !.code = code]
<1>2. expectedJSON(e) = ToGenericJSON(d)
  BY DEF expectedJSON
<1>3. /\ d.code = code /\ d.header = e.header /\ d.headerControl = e.headerControl
      /\ d.cookies = e.cookies /\ d.body = e.body /\ d.bodyControl = e.bodyControl
  <2> HIDE DEF code
  <2> QED
    BY <1>1
<1> HIDE DEF d, code
<1>4. ToGenericJSON(d) = ResponseObject(code, e.header.list, <<e.header.flat, e.headerControl>>,
                                       SetToSeq(Range(e.cookies)), e.body # Null, e.body, BodyControls(e))
  BY <1>3 DEF ToGenericJSON, BodyControls
<1>5. /\ expectedJSON(e)[3] = BodyControls(e)
      /\ IsObject(expectedJSON(e), code, e.header.list, e.header.flat, e.headerControl,
                  SetToSeq(Range(e.cookies)), e.body # Null, e.body)
  <2> DEFINE o == expectedJSON(e)
             hasBody == e.body # Null
  <2>1. /\ hasBody \in BOOLEAN
        /\ o = ResponseObject(code, e.header.list, <<e.header.flat, e.headerControl>>,
                              SetToSeq(Range(e.cookies)), hasBody, e.body, BodyControls(e))
    BY <1>2, <1>4
  <2> HIDE DEF o, hasBody
  <2>2. /\ o[3] = BodyControls(e)
        /\ IsObject(o, code, e.header.list, e.header.flat, e.headerControl,
                    SetToSeq(Range(e.cookies)), hasBody, e.body)
    BY <2>1, ResponseObjectIs
  <2> QED
    BY <2>2 DEF o, hasBody
<1> QED
  BY <1>5 DEF code

(* The object that a response, r, becomes. *)
ListsOf(r) == [k \in DOMAIN r.header |-> Strs(r.header[k])]
TextsOf(r) == [k \in DOMAIN r.header |-> Str(Joined(r.header[k]))]

(* It is an object of the same shape, unless the response cannot be read. *)
LEMMA ActualIs ==
  ASSUME NEW r, NEW type, NEW ignore \in BOOLEAN,
         ServerResponseToGenericJSON(r, WithIgnore(type, ignore)) \notin Failed
  PROVE  LET o == ServerResponseToGenericJSON(r, WithIgnore(type, ignore))
         IN  o[3] = << >> /\ \E body :
               IsObject(o, r.code, ListsOf(r), TextsOf(r), << >>, r.cookies, ~ignore, body)
<1> DEFINE f == WithIgnore(type, ignore)
           text  == PreProcess(f, r.body)
           value == Convert(f, IF f.pre # "none" /\ f.type = "" THEN ensureJson(text) ELSE text)
           none  == << >>
           object == ResponseObject(r.code, ListsOf(r), <<TextsOf(r), none>>,
                                    r.cookies, ~f.ignoreBody, value, none)
           o == ServerResponseToGenericJSON(r, f)
<1>1. o = IF f.pre = "no name" THEN <<"error">> ELSE IF value \in Failed THEN value ELSE object
  BY DEF ServerResponseToGenericJSON, ListsOf, TextsOf
<1>2. f.ignoreBody = ignore
  BY DEF WithIgnore
<1> HIDE DEF value, f
<1>3. o = object
  <2> HIDE DEF object, o
  <2> QED
    BY <1>1 DEF Failed, o, f
<1> DEFINE hasBody == ~f.ignoreBody
<1>4. hasBody \in BOOLEAN
  OBVIOUS
<1>5. hasBody = ~ignore
  BY <1>2
<1>6. o = ResponseObject(r.code, ListsOf(r), <<TextsOf(r), none>>, r.cookies, hasBody, value, none)
  BY <1>3
<1> HIDE DEF o, hasBody, none
<1>7. o[3] = none /\ IsObject(o, r.code, ListsOf(r), TextsOf(r), none, r.cookies, hasBody, value)
  BY <1>4, <1>6, ResponseObjectIs
<1> QED
  BY <1>7, <1>5 DEF o, f, none

(* Of something that passes as equal: objects agree in every key that is
   expected, and scalars are the same. *)
LEMMA EqualKeys ==
  ASSUME NEW l \in Values, NEW r \in Values, NEW c \in ComparisonContext,
         JsonEqual[<<l, r, c>>] = "equal"
  PROVE  /\ l[1] = r[1]
         /\ l[1] = "object" => \A k \in DOMAIN l[2] :
              /\ k \in DOMAIN r[2] /\ l[2][k] \in Values /\ r[2][k] \in Values
              /\ \E d \in ComparisonContext : JsonEqual[<<l[2][k], r[2][k], d>>] = "equal"
         /\ l[1] \notin {"object", "array"} => l = r
<1>1. Verdict(JsonEqual, l, r, c) = "equal"
  BY JsonEqualIs
<1>2. l[1] = r[1] /\ (l[1] \notin {"object", "array"} => l = r)
  BY <1>1 DEF Verdict
<1>3. ASSUME l[1] = "object", NEW k \in DOMAIN l[2]
      PROVE  /\ k \in DOMAIN r[2] /\ l[2][k] \in Values /\ r[2][k] \in Values
             /\ \E d \in ComparisonContext : JsonEqual[<<l[2][k], r[2][k], d>>] = "equal"
  <2>1. objectComparison(JsonEqual, l, r, c.noExtra) = "equal"
    BY <1>1, <1>2, <1>3 DEF Verdict
  <2>2. KeyVerdict(JsonEqual, l, r, k) \notin {"error", "unequal"}
    BY <2>1 DEF objectComparison
  <2>3. k \in DOMAIN r[2] /\ \E d \in ComparisonContext : JsonEqual[<<l[2][k], r[2][k], d>>] = "equal"
    BY <1>2, <1>3, <2>2, KeyEqual
  <2> QED
    BY <1>2, <1>3, <2>3, LowerParts
<1> QED
  BY <1>2, <1>3

(* A set of indexes has a last one. *)
LEMMA Greatest ==
  ASSUME NEW n \in Nat, NEW H \in SUBSET (1 .. n), H # {}
  PROVE  \E i \in H : \A j \in H : j <= i
<1> DEFINE G == {n - i : i \in H}
<1>1. G \in SUBSET Nat /\ G # {}
  <2>1. \A i \in H : n - i \in Nat
    OBVIOUS
  <2> QED
    BY <2>1
<1>2. PICK m \in G : \A k \in G : m <= k
  <2> HIDE DEF G
  <2> QED
    BY <1>1, Least
<1>3. PICK i \in H : m = n - i
  BY <1>2
<1>4. ASSUME NEW j \in H PROVE j <= i
  <2>1. n - j \in G
    OBVIOUS
  <2>2. m <= n - j
    BY <1>2, <2>1
  <2> HIDE DEF G
  <2> QED
    BY <1>3, <2>2
<1> QED
  BY <1>4

(* Each name has a cookie, and the map has the cookie of each name. *)
MapOf(map, cookies, n) ==
  /\ \A i \in 1 .. n : cookies[i]["name"] \in DOMAIN map
  /\ \A name \in DOMAIN map : \E i \in 1 .. n :
       cookies[i]["name"] = name /\ map[name] = CookieObject(cookies[i])

(* So it is with the map that the code makes. *)
LEMMA CookieMapIs ==
  ASSUME NEW n \in Nat, NEW cookies, DOMAIN cookies = 1 .. n
  PROVE  MapOf(CookieMap(cookies), cookies, n)
<1> DEFINE map == CookieMap(cookies)
           names == {cookies[i]["name"] : i \in 1 .. n}
           Is(i, name) == /\ cookies[i]["name"] = name
                          /\ \A j \in 1 .. n : cookies[j]["name"] = name => j <= i
           lastOf(name) == CHOOSE i \in 1 .. n : Is(i, name)
<1>1. map = [name \in names |-> CookieObject(cookies[lastOf(name)])]
  BY DEF CookieMap
<1>2. ASSUME NEW name \in names PROVE lastOf(name) \in 1 .. n /\ Is(lastOf(name), name)
  <2> DEFINE H == {i \in 1 .. n : cookies[i]["name"] = name}
  <2>1. H \in SUBSET (1 .. n) /\ H # {}
    BY <1>2
  <2>2. PICK i \in H : \A j \in H : j <= i
    <3> HIDE DEF H
    <3> QED
      BY <2>1, Greatest
  <2>3. i \in 1 .. n /\ Is(i, name)
    BY <2>2
  <2> HIDE DEF Is
  <2> QED
    BY <2>3
<1>3. ASSUME NEW name \in names
      PROVE  /\ lastOf(name) \in 1 .. n /\ cookies[lastOf(name)]["name"] = name
             /\ map[name] = CookieObject(cookies[lastOf(name)])
  <2>1. lastOf(name) \in 1 .. n /\ Is(lastOf(name), name)
    BY <1>2
  <2> HIDE DEF lastOf, names
  <2> QED
    BY <1>1, <2>1
<1>4. DOMAIN map = names
  BY <1>1
<1>5. \A i \in 1 .. n : cookies[i]["name"] \in names
  OBVIOUS
<1> HIDE DEF lastOf, names, map
<1>6. MapOf(map, cookies, n)
  BY <1>3, <1>4, <1>5 DEF MapOf
<1> QED
  BY <1>6 DEF map

(* A finite set as a sequence without repetitions. *)
LEMMA SetToSeqIs ==
  ASSUME NEW S, IsFiniteSet(S)
  PROVE  \E n \in Nat :
           /\ SetToSeq(S) \in [1 .. n -> S]
           /\ \A s \in S : \E i \in 1 .. n : SetToSeq(S)[i] = s
<1> DEFINE n == Cardinality(S)
           Good(f) == f \in [1 .. n -> S] /\ IsInjective(f)
<1>1. n \in Nat /\ ExistsBijection(1 .. n, S)
  BY FS_CardinalityType
<1>2. PICK f : f \in Bijection(1 .. n, S)
  BY <1>1 DEF ExistsBijection
<1>3. Good(f)
  BY <1>2 DEF Bijection, Injection, IsInjective
<1>4. SetToSeq(S) = CHOOSE g : Good(g)
  BY DEF SetToSeq
<1>5. Good(SetToSeq(S))
  <2> HIDE DEF Good
  <2> QED
    BY <1>3, <1>4
<1>6. SetToSeq(S) \in Injection(1 .. n, S)
  BY <1>5 DEF Injection, IsInjective
<1>7. IsFiniteSet(1 .. n) /\ Cardinality(1 .. n) = n
  BY <1>1, FS_Interval
<1>8. SetToSeq(S) \in Surjection(1 .. n, S)
  <2> HIDE DEF n
  <2> QED
    BY <1>6, <1>7, FS_Injection DEF n
<1> HIDE DEF n
<1> QED
  BY <1>1, <1>8 DEF Surjection

(* A response that passes: what is expected, e, was loaded, the response could
   be read, and the objects of the two, exp and act, compare as equal. *)
Passed(x, e, exp, act, c) ==
  /\ DOMAIN e = DOMAIN NoSpec
  /\ Expects(e, x.spec, x.stores) /\ NewResponse(x.spec.header) # << >>
  /\ exp = expectedJSON(e) /\ act = actualJSON(e, x.got) /\ act \notin Failed
  /\ exp \in Values /\ act \in Values /\ c \in ComparisonContext
  /\ JsonEqual[<<exp, act, c>>] = "equal"
  /\ executeRequest(x).stored = <<ServerResponseToGenericJSON(x.got, e.format)>>

(* So it is whenever the verdict is "equal". *)
LEMMA PassedIs ==
  ASSUME NEW x \in Exchanges, executeRequest(x).verdict = "equal"
  PROVE  \E e, exp, act, c : Passed(x, e, exp, act, c)
<1> DEFINE es == loadExpectedResponse(x.spec, x.stores)
           e == es[1]
           c == fillComparisonContext(<< >>)
           exp == expectedJSON(e)
           act == actualJSON(e, x.got)
           json == ServerResponseToGenericJSON(x.got, e.format)
<1>1. executeRequest(x) =
        IF es = << >> THEN [stored |-> << >>, verdict |-> "error"]
        ELSE IF json = <<"panic">> THEN [stored |-> << >>, verdict |-> "panic"]
        ELSE IF json = <<"error">> /\ (x.spec.given \/ x.stores)
               THEN [stored |-> << >>, verdict |-> "error"]
        ELSE [stored |-> <<json>>, verdict |-> responsesEqual(e, x.got)]
  BY DEF executeRequest
<1>2. es # << >> /\ executeRequest(x).stored = <<json>> /\ responsesEqual(e, x.got) = "equal"
  <2> HIDE DEF es, json, e
  <2> QED
    BY <1>1
<1>3. DOMAIN x.spec = DOMAIN NoSpec
  BY ExchangesAssumption
<1>4. Expects(e, x.spec, x.stores) /\ e \in Range(es) /\ NewResponse(x.spec.header) # << >>
  BY <1>2, <1>3, LoadedIs
<1>5. responsesEqual(e, x.got) = IF act \in Failed THEN act[1] ELSE JsonEqual[<<exp, act, c>>]
  BY DEF responsesEqual
<1>6. act \notin Failed /\ JsonEqual[<<exp, act, c>>] = "equal"
  <2> HIDE DEF act, exp, c
  <2> QED
    BY <1>2, <1>5 DEF Failed
<1>7. exp \in Values
  BY <1>4, ExchangesAssumption
<1>8. act \in Readings(x)
  <2> DEFINE ignore == e.body = Null /\ e.bodyControl = << >>
  <2>1. WithIgnore(e.format, ignore) = WithIgnore(x.spec.format, ignore)
    BY <1>4 DEF Expects, WithIgnore
  <2>2. act = ServerResponseToGenericJSON(x.got, WithIgnore(x.spec.format, ignore)) /\ ignore \in BOOLEAN
    BY <2>1 DEF actualJSON
  <2> HIDE DEF ignore, act
  <2> QED
    BY <1>6, <2>2 DEF Readings
<1>9. act \in Values
  BY <1>8, ExchangesAssumption
<1>10. c \in ComparisonContext
  <2>1. DOMAIN << >> = {}
    OBVIOUS
  <2> QED
    BY <2>1, Contexts DEF Depth, Has
<1> HIDE DEF e, c, exp, act, json
<1>11. exp = expectedJSON(e) /\ act = actualJSON(e, x.got)
  BY DEF exp, act
<1>12. Passed(x, e, exp, act, c)
  BY <1>2, <1>4, <1>6, <1>7, <1>9, <1>10, <1>11 DEF Passed, Expects, json
<1> QED
  BY <1>12

(* The keys of the two objects, and that they agree. *)
Agreed(x, e, exp, act) ==
  /\ IsObject(exp, CASE e.code = NoCode -> 200 [] e.code = 0 -> NoCode [] OTHER -> e.code,
              e.header.list, e.header.flat, e.headerControl,
              SetToSeq(Range(e.cookies)), e.body # Null, e.body)
  /\ \E body : IsObject(act, x.got.code, ListsOf(x.got), TextsOf(x.got), << >>, x.got.cookies,
                        ~(e.body = Null /\ e.bodyControl = << >>), body)
  /\ \A k \in DOMAIN exp[2] :
       /\ k \in DOMAIN act[2] /\ exp[2][k] \in Values /\ act[2][k] \in Values
       /\ \E d \in ComparisonContext : JsonEqual[<<exp[2][k], act[2][k], d>>] = "equal"

(* They agree in a response that passes. *)
LEMMA PassedParts ==
  ASSUME NEW x, NEW e, NEW exp, NEW act, NEW c, Passed(x, e, exp, act, c)
  PROVE  Agreed(x, e, exp, act)
<1>1. IsObject(exp, CASE e.code = NoCode -> 200 [] e.code = 0 -> NoCode [] OTHER -> e.code,
               e.header.list, e.header.flat, e.headerControl,
               SetToSeq(Range(e.cookies)), e.body # Null, e.body)
  BY ExpectedIs DEF Passed
<1>2. \E body : IsObject(act, x.got.code, ListsOf(x.got), TextsOf(x.got), << >>, x.got.cookies,
                        ~(e.body = Null /\ e.bodyControl = << >>), body)
  <2> DEFINE ignore == e.body = Null /\ e.bodyControl = << >>
  <2>1. act = ServerResponseToGenericJSON(x.got, WithIgnore(e.format, ignore)) /\ act \notin Failed
    BY DEF Passed, actualJSON
  <2>2. ignore \in BOOLEAN
    OBVIOUS
  <2> HIDE DEF ignore
  <2>3. \E body : IsObject(act, x.got.code, ListsOf(x.got), TextsOf(x.got), << >>, x.got.cookies,
                          ~ignore, body)
    BY <2>1, <2>2, ActualIs
  <2> QED
    BY <2>3 DEF ignore
<1>3. exp[1] = "object"
  BY <1>1 DEF IsObject
<1>4. \A k \in DOMAIN exp[2] :
       /\ k \in DOMAIN act[2] /\ exp[2][k] \in Values /\ act[2][k] \in Values
       /\ \E d \in ComparisonContext : JsonEqual[<<exp[2][k], act[2][k], d>>] = "equal"
  BY <1>3, EqualKeys DEF Passed
<1> QED
  BY <1>1, <1>2, <1>4 DEF Agreed

(* The status code. *)
LEMMA PassedCode ==
  ASSUME NEW x, NEW e, NEW exp, NEW act, NEW c, Passed(x, e, exp, act, c), x.spec.code # 0
  PROVE  x.got.code = IF x.spec.code = NoCode THEN 200 ELSE x.spec.code
<1> DEFINE code == IF x.spec.code = NoCode THEN 200 ELSE x.spec.code
<1>1. e.code = x.spec.code /\ code # NoCode
  BY DEF Passed, Expects, NoCode
<1>2. code = CASE e.code = NoCode -> 200 [] e.code = 0 -> NoCode [] OTHER -> e.code
  BY <1>1
<1>3. Agreed(x, e, exp, act)
  BY PassedParts
<1> HIDE DEF code
<1>4. "statuscode" \in DOMAIN exp[2] /\ exp[2]["statuscode"] = <<"number", code>>
  BY <1>1, <1>2, <1>3 DEF Agreed, IsObject
<1>5. "statuscode" \in DOMAIN act[2] /\ act[2]["statuscode"] = <<"number", x.got.code>>
  BY <1>3, <1>4 DEF Agreed, IsObject
<1>6. /\ exp[2]["statuscode"] \in Values /\ act[2]["statuscode"] \in Values
      /\ \E d \in ComparisonContext : JsonEqual[<<exp[2]["statuscode"], act[2]["statuscode"], d>>] = "equal"
  BY <1>3, <1>4 DEF Agreed
<1>7. <<"number", code>> = <<"number", x.got.code>>
  BY <1>4, <1>5, <1>6, EqualKeys
<1> QED
  BY <1>7 DEF code

(* A header that is a text is equal to the joined values, and one that is a list
   is among them. *)
LEMMA PassedHeader ==
  ASSUME NEW x, NEW e, NEW exp, NEW act, NEW c, Passed(x, e, exp, act, c), NEW k \in DOMAIN x.spec.header
  PROVE  /\ k \in DOMAIN x.got.header
         /\ IF x.spec.header[k][1] = "string"
              THEN x.spec.header[k] = Str(Joined(x.got.header[k]))
              ELSE ContainedIn(x.spec.header[k], Strs(x.got.header[k]))
<1> DEFINE h == x.spec.header
<1>1. Agreed(x, e, exp, act)
  BY PassedParts
<1>2. e.header = NewResponse(h)[1] /\ NewResponse(h) # << >>
  BY DEF Passed, Expects
<1>3. /\ DOMAIN h = HeadersOf(h, "string") \cup HeadersOf(h, "array")
      /\ e.header.list = [key \in HeadersOf(h, "array") |-> h[key]]
      /\ e.header.flat = [key \in HeadersOf(h, "string") |-> h[key]]
  BY <1>2, HeadersAre
<1>4. DOMAIN << >> = {}
  OBVIOUS
<1>5. CASE h[k][1] = "string"
  <2>1. k \in DOMAIN e.header.flat /\ e.header.flat[k] = h[k]
    BY <1>3, <1>5 DEF HeadersOf
  <2>2. e.header.flat # << >>
    BY <1>4, <2>1
  <2> DEFINE l == exp[2]["header_flat"]
             r == act[2]["header_flat"]
  <2>3. "header_flat" \in DOMAIN exp[2] /\ l = <<"object", e.header.flat, e.headerControl>>
    BY <1>1, <2>2 DEF Agreed, IsObject
  <2>4. "header_flat" \in DOMAIN act[2] /\ r = <<"object", TextsOf(x.got), << >>>>
    BY <1>1, <2>3 DEF Agreed, IsObject
  <2>5. /\ l \in Values /\ r \in Values
        /\ \E d \in ComparisonContext : JsonEqual[<<l, r, d>>] = "equal"
    BY <1>1, <2>3 DEF Agreed
  <2>6. l[1] = "object" /\ k \in DOMAIN l[2] /\ l[2][k] = h[k] /\ r[2] = TextsOf(x.got)
    BY <2>1, <2>3, <2>4
  <2> HIDE DEF l, r
  <2>7. /\ k \in DOMAIN r[2] /\ l[2][k] \in Values /\ r[2][k] \in Values
        /\ \E d \in ComparisonContext : JsonEqual[<<l[2][k], r[2][k], d>>] = "equal"
    BY <2>5, <2>6, EqualKeys
  <2>8. l[2][k] = r[2][k]
    BY <1>5, <2>6, <2>7, EqualKeys
  <2>9. k \in DOMAIN x.got.header /\ r[2][k] = Str(Joined(x.got.header[k]))
    BY <2>6, <2>7 DEF TextsOf
  <2> QED
    BY <1>5, <2>6, <2>8, <2>9
<1>6. CASE h[k][1] # "string"
  <2>1. k \in DOMAIN e.header.list /\ e.header.list[k] = h[k]
    BY <1>3, <1>6 DEF HeadersOf
  <2>2. e.header.list # << >>
    BY <1>4, <2>1
  <2> DEFINE l == exp[2]["header"]
             r == act[2]["header"]
  <2>3. "header" \in DOMAIN exp[2] /\ l = Object(e.header.list)
    BY <1>1, <2>2 DEF Agreed, IsObject
  <2>4. "header" \in DOMAIN act[2] /\ r = Object(ListsOf(x.got))
    BY <1>1, <2>3 DEF Agreed, IsObject
  <2>5. /\ l \in Values /\ r \in Values
        /\ \E d \in ComparisonContext : JsonEqual[<<l, r, d>>] = "equal"
    BY <1>1, <2>3 DEF Agreed
  <2>6. l[1] = "object" /\ k \in DOMAIN l[2] /\ l[2][k] = h[k] /\ r[2] = ListsOf(x.got)
    BY <2>1, <2>3, <2>4 DEF Object
  <2> HIDE DEF l, r
  <2>7. /\ k \in DOMAIN r[2] /\ l[2][k] \in Values /\ r[2][k] \in Values
        /\ \E d \in ComparisonContext : JsonEqual[<<l[2][k], r[2][k], d>>] = "equal"
    BY <2>5, <2>6, EqualKeys
  <2>8. ContainedIn(l[2][k], r[2][k])
    <3>1. PICK within : Containment(within)
      BY ContainedInIs
    <3> QED
      BY <2>7, <3>1, EqualIsContained DEF Containment
  <2>9. k \in DOMAIN x.got.header /\ r[2][k] = Strs(x.got.header[k])
    BY <2>6, <2>7 DEF ListsOf
  <2> QED
    BY <1>6, <2>6, <2>8, <2>9
<1> QED
  BY <1>5, <1>6

(* Cookies that compare as equal are the same in all their fields. *)
LEMMA EqualCookies ==
  ASSUME NEW a, NEW b, CookieObject(a) \in Values, CookieObject(b) \in Values,
         NEW d \in ComparisonContext, JsonEqual[<<CookieObject(a), CookieObject(b), d>>] = "equal"
  PROVE  CookieObject(a) = CookieObject(b)
<1> DEFINE l == CookieObject(a)
           r == CookieObject(b)
           text(ck, f) == Str(IF f \in DOMAIN ck THEN ck[f] ELSE "")
           texts(ck) == [f \in CookieFields |-> text(ck, f)]
<1>1. l = <<"object", texts(a), << >>>> /\ r = <<"object", texts(b), << >>>>
  BY DEF CookieObject, Object
<1>2. \A ck : DOMAIN texts(ck) = CookieFields /\ \A f \in CookieFields : texts(ck)[f] = text(ck, f)
  OBVIOUS
<1>3. \A f : text(a, f)[1] = "string"
  BY DEF Str
<1>4. l \in Values /\ r \in Values /\ JsonEqual[<<l, r, d>>] = "equal"
  OBVIOUS
<1> HIDE DEF l, r, text, texts
<1>5. l[1] = "object" /\ DOMAIN l[2] = CookieFields
  BY <1>1, <1>2
<1>6. ASSUME NEW f \in CookieFields PROVE text(a, f) = text(b, f)
  <2>1. /\ l[2][f] \in Values /\ r[2][f] \in Values
        /\ \E q \in ComparisonContext : JsonEqual[<<l[2][f], r[2][f], q>>] = "equal"
    BY <1>4, <1>5, <1>6, EqualKeys
  <2>2. l[2][f] = text(a, f) /\ r[2][f] = text(b, f)
    BY <1>1, <1>2
  <2> QED
    BY <1>3, <2>1, <2>2, EqualKeys
<1>7. texts(a) = texts(b)
  BY <1>6 DEF texts
<1> QED
  BY <1>1, <1>7 DEF l, r

(* Each name that is expected has a cookie with all its fields. *)
LEMMA PassedCookie ==
  ASSUME NEW x \in Exchanges, NEW e, NEW exp, NEW act, NEW c, Passed(x, e, exp, act, c),
         NEW n \in DOMAIN x.spec.cookies
  PROVE  \E m \in DOMAIN x.spec.cookies, ck \in Range(x.got.cookies) :
           /\ x.spec.cookies[m]["name"] = x.spec.cookies[n]["name"]
           /\ CookieObject(ck) = CookieObject(x.spec.cookies[m])
<1> DEFINE wanted == x.spec.cookies
           seq == SetToSeq(Range(wanted))
           have == x.got.cookies
           l == exp[2]["cookie"]
           r == act[2]["cookie"]
           name == wanted[n]["name"]
<1>1. Agreed(x, e, exp, act) /\ e.cookies = wanted
  BY PassedParts DEF Passed, Expects
<1>2. IsFiniteSet(Range(wanted))
  BY ExchangesAssumption
<1>3. PICK len \in Nat : /\ seq \in [1 .. len -> Range(wanted)]
                         /\ \A s \in Range(wanted) : \E i \in 1 .. len : seq[i] = s
  BY <1>2, SetToSeqIs
<1>4. PICK i \in 1 .. len : seq[i] = wanted[n]
  BY <1>3 DEF Range
<1>5. seq # << >>
  BY <1>3, <1>4
<1> HIDE DEF seq
<1>6. "cookie" \in DOMAIN exp[2] /\ l = Object(CookieMap(seq))
  BY <1>1, <1>5 DEF Agreed, IsObject, seq
<1>7. "cookie" \in DOMAIN act[2] /\ r = Object(CookieMap(have))
  BY <1>1, <1>6 DEF Agreed, IsObject
<1>8. /\ l \in Values /\ r \in Values
      /\ \E d \in ComparisonContext : JsonEqual[<<l, r, d>>] = "equal"
  BY <1>1, <1>6 DEF Agreed
<1>9. l[1] = "object" /\ l[2] = CookieMap(seq) /\ r[2] = CookieMap(have)
  BY <1>6, <1>7 DEF Object
<1> HIDE DEF l, r
<1>10. /\ name \in DOMAIN l[2]
       /\ \E j \in 1 .. len : seq[j]["name"] = name /\ l[2][name] = CookieObject(seq[j])
  <2> DEFINE map == l[2]
  <2>1. DOMAIN seq = 1 .. len /\ map = CookieMap(seq)
    BY <1>3, <1>9
  <2> HIDE DEF map
  <2>2. MapOf(map, seq, len)
    BY <1>3, <2>1, CookieMapIs
  <2> QED
    BY <1>4, <2>2 DEF map, MapOf
<1>11. PICK j \in 1 .. len : seq[j]["name"] = name /\ l[2][name] = CookieObject(seq[j])
  BY <1>10
<1>12. PICK m \in DOMAIN wanted : seq[j] = wanted[m]
  BY <1>3 DEF Range
<1>13. /\ name \in DOMAIN r[2] /\ l[2][name] \in Values /\ r[2][name] \in Values
       /\ \E d \in ComparisonContext : JsonEqual[<<l[2][name], r[2][name], d>>] = "equal"
  BY <1>8, <1>9, <1>10, EqualKeys
<1>14. PICK i2 \in DOMAIN have : r[2][name] = CookieObject(have[i2])
  <2>1. have \in Seq(Range(have))
    BY ExchangesAssumption
  <2> DEFINE map == r[2]
             n2 == Len(have)
  <2>2. n2 \in Nat /\ DOMAIN have = 1 .. n2 /\ map = CookieMap(have) /\ name \in DOMAIN map
    BY <1>9, <1>13, <2>1
  <2> HIDE DEF map, name, n2, have
  <2>3. MapOf(map, have, n2)
    BY <2>2, CookieMapIs
  <2> QED
    BY <2>2, <2>3 DEF map, MapOf
<1>15. CookieObject(wanted[m]) = CookieObject(have[i2])
  BY <1>11, <1>12, <1>13, <1>14, EqualCookies
<1>16. have[i2] \in Range(have)
  BY DEF Range
<1> QED
  BY <1>11, <1>12, <1>15, <1>16

(* The body contains the expected one, and is stored. *)
LEMMA PassedBody ==
  ASSUME NEW x, NEW e, NEW exp, NEW act, NEW c, Passed(x, e, exp, act, c), x.spec.body # Null
  PROVE  \E json \in Range(executeRequest(x).stored) : ContainedIn(x.spec.body, json[2]["body"])
<1>1. Agreed(x, e, exp, act) /\ e.body = x.spec.body
  BY PassedParts DEF Passed, Expects
<1>2. "body" \in DOMAIN exp[2] /\ exp[2]["body"] = x.spec.body
  BY <1>1 DEF Agreed, IsObject
<1>3. /\ exp[2]["body"] \in Values /\ act[2]["body"] \in Values
      /\ \E d \in ComparisonContext : JsonEqual[<<exp[2]["body"], act[2]["body"], d>>] = "equal"
  BY <1>1, <1>2 DEF Agreed
<1>4. ContainedIn(x.spec.body, act[2]["body"])
  <2>1. PICK within : Containment(within)
    BY ContainedInIs
  <2> QED
    BY <1>2, <1>3, <2>1, EqualIsContained DEF Containment
<1>5. /\ (x.spec.given /\ x.spec.body = Null /\ ~x.stores) = FALSE
      /\ (e.body = Null /\ e.bodyControl = << >>) = FALSE
  BY <1>1
<1>6. WithIgnore(e.format, e.body = Null /\ e.bodyControl = << >>) = e.format
  BY <1>5 DEF WithIgnore, Passed, Expects
<1>7. act = ServerResponseToGenericJSON(x.got, e.format)
  BY <1>6 DEF Passed, actualJSON
<1>8. act \in Range(executeRequest(x).stored)
  BY <1>7 DEF Passed, Range
<1> QED
  BY <1>4, <1>8

(* The exchange and the arguments are never changed. *)
TypedExchange == exchange \in Exchanges \cup {NoExchange}

(* So the exchange is one of those that are judged, or none. *)
LEMMA ExchangeInvariant == ResponseSpec => []TypedExchange
<1>1. ResponseInit => TypedExchange
  BY DEF ResponseInit, TypedExchange
<1>2. TypedExchange /\ [Next /\ UNCHANGED <<args, exchange>>]_<<vars, args, exchange>> => TypedExchange'
  BY DEF TypedExchange
<1> QED
  BY <1>1, <1>2, PTL DEF ResponseSpec

(* A response passes only with the status code, the headers, the cookies and
   the body that are asked for (README.md:246, :404, api_testcase.go:514). *)
THEOREM Response_VerdictExplained == ResponseSpec => []VerdictExplained
<1>1. TypedExchange => VerdictExplained
  <2> SUFFICES ASSUME TypedExchange, Judged,
                      executeRequest(exchange).verdict = "equal"
               PROVE  LET spec == exchange.spec  got == exchange.got
                          has(k) == k \in DOMAIN got.header IN
                      /\ spec.code # 0 => got.code = IF spec.code = NoCode THEN 200 ELSE spec.code
                      /\ \A k \in DOMAIN spec.header :
                           /\ has(k)
                           /\ IF spec.header[k][1] = "string"
                                THEN spec.header[k] = Str(Joined(got.header[k]))
                                ELSE ContainedIn(spec.header[k], Strs(got.header[k]))
                      /\ \A n \in DOMAIN spec.cookies : \E m \in DOMAIN spec.cookies, c \in Range(got.cookies) :
                           /\ spec.cookies[m]["name"] = spec.cookies[n]["name"]
                           /\ CookieObject(c) = CookieObject(spec.cookies[m])
                      /\ spec.body # Null => \E json \in Range(executeRequest(exchange).stored) :
                           ContainedIn(spec.body, json[2]["body"])
    BY DEF VerdictExplained
  <2>1. exchange \in Exchanges
    BY DEF TypedExchange, Judged, NoExchange
  <2>2. PICK e, exp, act, c : Passed(exchange, e, exp, act, c)
    BY <2>1, PassedIs
  <2>3. exchange.spec.code # 0 =>
          exchange.got.code = IF exchange.spec.code = NoCode THEN 200 ELSE exchange.spec.code
    BY <2>2, PassedCode
  <2>4. \A k \in DOMAIN exchange.spec.header :
          /\ k \in DOMAIN exchange.got.header
          /\ IF exchange.spec.header[k][1] = "string"
               THEN exchange.spec.header[k] = Str(Joined(exchange.got.header[k]))
               ELSE ContainedIn(exchange.spec.header[k], Strs(exchange.got.header[k]))
    BY <2>2, PassedHeader
  <2>5. \A n \in DOMAIN exchange.spec.cookies :
          \E m \in DOMAIN exchange.spec.cookies, ck \in Range(exchange.got.cookies) :
            /\ exchange.spec.cookies[m]["name"] = exchange.spec.cookies[n]["name"]
            /\ CookieObject(ck) = CookieObject(exchange.spec.cookies[m])
    BY <2>1, <2>2, PassedCookie
  <2>6. exchange.spec.body # Null =>
          \E json \in Range(executeRequest(exchange).stored) : ContainedIn(exchange.spec.body, json[2]["body"])
    BY <2>2, PassedBody
  <2> QED
    BY <2>3, <2>4, <2>5, <2>6
<1> QED
  BY <1>1, ExchangeInvariant, PTL

(***************************************************************************)
(* Tables                                                                  *)
(***************************************************************************)

(* What is left of a table is a table. *)
LEMMA RowsAreLeft ==
  ASSUME NEW S, NEW rows \in Seq(S)
  PROVE  removeEmptyRowsAndComments(rows) \in Seq(S)
<1> DEFINE D == 0 .. Len(rows)
           V == Seq(S)
           H == [n \in D |-> n]
           empty(row) == row[1] \in Comments \/ \A i \in DOMAIN row : row[i] = ""
           value(f, n) == IF n = 0 THEN << >>
                          ELSE IF empty(rows[n]) THEN f[n - 1]
                          ELSE Append(f[n - 1], rows[n])
           B == [f \in [D -> V] |-> [n \in D |-> value(f, n)]]
           IsIt(f) == f = [n \in D |-> value(f, n)]
<1>1. V # {} /\ << >> \in V
  OBVIOUS
<1>2. H \in [D -> Nat] /\ Len(rows) \in Nat
  OBVIOUS
<1>3. \A n \in D : n # 0 => n - 1 \in D /\ n - 1 < n /\ rows[n] \in S
  BY <1>2
<1>4. ASSUME NEW f \in [D -> V], NEW n \in D PROVE value(f, n) \in V
  <2> HIDE DEF D, empty
  <2>1. CASE n = 0
    BY <2>1
  <2>2. CASE n # 0
    <3>1. f[n - 1] \in Seq(S) /\ rows[n] \in S
      BY <1>3, <2>2
    <3>2. Append(f[n - 1], rows[n]) \in Seq(S)
      BY <3>1
    <3> QED
      BY <2>2, <3>1, <3>2
  <2> QED
    BY <2>1, <2>2
<1>5. B \in [[D -> V] -> [D -> V]]
  <2> HIDE DEF value, D, V
  <2> QED
    BY <1>4
<1>6. LooksDown(D, V, H, B)
  <2> SUFFICES ASSUME NEW f \in [D -> V], NEW g \in [D -> V], NEW n \in D,
                      \A m \in D : H[m] < H[n] => f[m] = g[m]
               PROVE  B[f][n] = B[g][n]
    BY DEF LooksDown
  <2>1. n # 0 => f[n - 1] = g[n - 1]
    BY <1>3
  <2>2. value(f, n) = value(g, n)
    BY <2>1
  <2> HIDE DEF value
  <2> QED
    BY <2>2
<1>7. PICK h : Solution(h, D, V, B)
  <2> HIDE DEF D, V, H, B
  <2>1. Recursive(D, V, H, B)
    BY <1>1, <1>2, <1>5, <1>6 DEF Recursive
  <2> QED
    BY <2>1, Recursion
<1>8. IsIt(h)
  BY <1>7 DEF Solution
<1> DEFINE w == CHOOSE f : IsIt(f)
<1>9. removeEmptyRowsAndComments(rows) = w[Len(rows)]
  BY DEF removeEmptyRowsAndComments
<1>10. IsIt(w)
  <2> HIDE DEF IsIt
  <2> QED
    BY <1>8
<1> HIDE DEF w
<1>11. \A n \in D : w[n] = value(w, n)
  <2> HIDE DEF value
  <2> QED
    BY <1>10
<1> DEFINE T == {n \in Nat : n \in D => w[n] \in V}
<1>12. 0 \in T
  <2>1. 0 \in D => w[0] = << >>
    BY <1>11
  <2> HIDE DEF D, V
  <2> QED
    BY <1>1, <2>1
<1>13. ASSUME NEW n \in T PROVE n + 1 \in T
  <2> SUFFICES ASSUME n + 1 \in D PROVE w[n + 1] \in V
    OBVIOUS
  <2>1. n \in Nat /\ n \in D /\ n + 1 # 0 /\ (n + 1) - 1 = n
    BY <1>2
  <2>2. w[n] \in Seq(S) /\ rows[n + 1] \in S
    BY <1>3, <2>1
  <2>3. w[n + 1] = value(w, n + 1)
    BY <1>11
  <2> HIDE DEF T, D, empty
  <2>4. Append(w[n], rows[n + 1]) \in Seq(S)
    BY <2>2
  <2> QED
    BY <2>1, <2>2, <2>3, <2>4
<1>14. Len(rows) \in T
  <2>1. T \in SUBSET Nat
    OBVIOUS
  <2> HIDE DEF T
  <2> QED
    BY <1>2, <1>12, <1>13, <2>1, Inductive
<1>15. w[Len(rows)] \in V
  BY <1>2, <1>14
<1> QED
  BY <1>9, <1>15

(* No cell is of two formats. *)
LEMMA OneFormat ==
  ASSUME NEW cell, NEW f \in Format(cell), NEW g \in Format(cell)
  PROVE  f = g /\ f.type \in Types
<1>1. PICK t \in Types : cell \in {t, Pointer(t)} /\ f = [type |-> t, ptr |-> cell \notin Types]
  BY DEF Format
<1>2. PICK u \in Types : cell \in {u, Pointer(u)} /\ g = [type |-> u, ptr |-> cell \notin Types]
  BY DEF Format
<1>3. t = u
  <2> HIDE DEF Types
  <2> QED
    BY <1>1, <1>2, TypesAssumption
<1> QED
  BY <1>1, <1>2, <1>3

(* The value of a column in a row. *)
LEMMA RowObjectIs ==
  ASSUME NEW columns, NEW row, NEW k,
         k \in DOMAIN row \cap DOMAIN columns, columns[k].info # SkipColumn,
         \A j \in DOMAIN row \cap DOMAIN columns : columns[j].info # SkipColumn /\ columns[j].name = columns[k].name => j = k,
         RowObject(columns, row) # Unreadable
  PROVE  /\ columns[k].name \in DOMAIN RowObject(columns, row)[2]
         /\ RowObject(columns, row)[2][columns[k].name] = Typed(row[k], columns[k].info)
<1> DEFINE read == {j \in DOMAIN row \cap DOMAIN columns : columns[j].info # SkipColumn}
           lastOf(n) == CHOOSE j \in read : columns[j].name = n
                          /\ \A i \in read : columns[i].name = n => i <= j
           f == [n \in {columns[j].name : j \in read} |-> Typed(row[lastOf(n)], columns[lastOf(n)].info)]
<1>1. RowObject(columns, row) = <<"object", f, << >>>>
  BY DEF RowObject
<1>2. k \in read /\ \A j \in read : columns[j].name = columns[k].name => j = k
  OBVIOUS
<1> HIDE DEF read
<1>3. lastOf(columns[k].name) = k
  BY <1>2
<1>4. f[columns[k].name] = Typed(row[k], columns[k].info) /\ columns[k].name \in DOMAIN f
  <2> HIDE DEF lastOf
  <2> QED
    BY <1>2, <1>3
<1> HIDE DEF f
<1>5. RowObject(columns, row)[2] = f
  BY <1>1
<1> QED
  BY <1>4, <1>5

(* Rows that can be read become an object each. *)
ObjectsOf(objects, columns, rows, n) ==
  /\ Len(objects) = n /\ DOMAIN objects = 1 .. n
  /\ \A i \in 1 .. n : objects[i] = RowObject(columns, rows[i]) /\ RowObject(columns, rows[i]) # Unreadable

(* So they do if there is no error. *)
LEMMA ObjectsAre ==
  ASSUME NEW columns, NEW n \in Nat, NEW rows, DOMAIN rows = 1 .. n, Objects(columns, rows)[1] = "array"
  PROVE  ObjectsOf(Objects(columns, rows)[2], columns, rows, n)
<1> DEFINE objects == [i \in DOMAIN rows |-> RowObject(columns, rows[i])]
<1>1. Unreadable \notin Range(objects) /\ Objects(columns, rows) = <<"array", objects>>
  <2>1. Objects(columns, rows) = IF Unreadable \in Range(objects) THEN <<"error">> ELSE <<"array", objects>>
    BY DEF Objects
  <2> HIDE DEF objects
  <2> QED
    BY <2>1
<1>2. Len(objects) = n /\ DOMAIN objects = 1 .. n
  OBVIOUS
<1>3. \A i \in 1 .. n : objects[i] = RowObject(columns, rows[i]) /\ objects[i] \in Range(objects)
  BY DEF Range
<1> HIDE DEF objects
<1> QED
  BY <1>1, <1>2, <1>3 DEF ObjectsOf

(* Without types every row can be read. *)
LEMMA PlainRowIs ==
  ASSUME NEW columns, NEW row, \A k \in DOMAIN columns : columns[k].info = [type |-> "string", ptr |-> FALSE]
  PROVE  RowObject(columns, row) # Unreadable
<1> DEFINE read == {j \in DOMAIN row \cap DOMAIN columns : columns[j].info # SkipColumn}
<1>1. \A j \in read : getTyped(row[j], columns[j].info.type) = <<"string", row[j]>>
  <2>1. \A cell : getTyped(cell, "string") = <<"string", cell>>
    BY DEF getTyped
  <2>2. \A j \in read : columns[j].info.type = "string"
    OBVIOUS
  <2> HIDE DEF read
  <2> QED
    BY <2>1, <2>2
<1>2. \A s : <<"string", s>> # Unreadable
  BY DEF Unreadable
<1>3. ~ \E j \in read : getTyped(row[j], columns[j].info.type) = Unreadable
  BY <1>1, <1>2
<1>4. \A f : <<"object", f, << >>>> # Unreadable
  BY DEF Unreadable
<1> HIDE DEF read
<1> QED
  BY <1>3, <1>4 DEF RowObject, read

(* The columns of a typed table. *)
LEMMA TypedColumns ==
  ASSUME NEW names, NEW formats, NEW m \in Nat, NEW n \in Nat,
         DOMAIN names = 1 .. m, DOMAIN formats = 1 .. n, Len(formats) = n,
         extractHeaderInformation(names, formats) # << >>
  PROVE  LET columns == extractHeaderInformation(names, formats)
         IN  /\ DOMAIN columns = DOMAIN names \cap DOMAIN formats
             /\ \A k \in DOMAIN columns :
                  /\ columns[k].name = Trimmed(names[k])
                  /\ columns[k].info # SkipColumn <=> Trimmed(names[k]) # "" /\ Format(formats[k]) # {}
                  /\ columns[k].info # SkipColumn => columns[k].info \in Format(formats[k])
<1> DEFINE columns == extractHeaderInformation(names, formats)
           all == {k \in DOMAIN names : k <= Len(formats)}
           blank(k) == Format(formats[k]) = {} /\ Trimmed(formats[k]) = ""
           info(k) == IF blank(k) \/ Trimmed(names[k]) = "" THEN SkipColumn
                      ELSE CHOOSE f \in Format(formats[k]) : TRUE
<1>1. columns = IF \E k \in all : Format(formats[k]) = {} /\ ~blank(k) THEN << >>
                ELSE [k \in all |-> [name |-> Trimmed(names[k]), info |-> info(k)]]
  BY DEF extractHeaderInformation
<1>2. all = DOMAIN names \cap DOMAIN formats /\ columns # << >>
  OBVIOUS
<1> HIDE DEF columns, all, info, blank
<1>3. /\ \A k \in all : Format(formats[k]) # {} \/ blank(k)
      /\ DOMAIN columns = all
      /\ \A k \in all : columns[k].name = Trimmed(names[k]) /\ columns[k].info = info(k)
  BY <1>1, <1>2
<1>4. ASSUME NEW k \in all
      PROVE  /\ info(k) # SkipColumn <=> Trimmed(names[k]) # "" /\ Format(formats[k]) # {}
             /\ info(k) # SkipColumn => info(k) \in Format(formats[k])
  <2>1. CASE Trimmed(names[k]) = "" \/ Format(formats[k]) = {}
    BY <1>3, <1>4, <2>1 DEF info, blank
  <2>2. CASE Trimmed(names[k]) # "" /\ Format(formats[k]) # {}
    <3>1. info(k) = CHOOSE f \in Format(formats[k]) : TRUE
      BY <2>2 DEF info, blank
    <3>2. info(k) \in Format(formats[k])
      BY <2>2, <3>1
    <3>3. info(k).type \in Types
      BY <3>2, OneFormat
    <3>4. SkipColumn.type \notin Types
      BY DEF SkipColumn, Types
    <3> QED
      BY <2>2, <3>2, <3>3, <3>4
  <2> QED
    BY <2>1, <2>2
<1>5. /\ DOMAIN columns = DOMAIN names \cap DOMAIN formats
      /\ \A k \in DOMAIN columns :
           /\ columns[k].name = Trimmed(names[k])
           /\ columns[k].info # SkipColumn <=> Trimmed(names[k]) # "" /\ Format(formats[k]) # {}
           /\ columns[k].info # SkipColumn => columns[k].info \in Format(formats[k])
  BY <1>2, <1>3, <1>4
<1> QED
  BY <1>5 DEF columns

(* What a column is for, by its name and its format. *)
ColumnsFor(columns, name, used, formats) ==
  /\ DOMAIN columns = DOMAIN name \cap DOMAIN formats
  /\ \A k \in DOMAIN columns :
       /\ columns[k].name = name[k]
       /\ columns[k].info # SkipColumn <=> k \in used
       /\ columns[k].info # SkipColumn => columns[k].info \in Format(formats[k])

PlainColumns(columns, name) ==
  /\ DOMAIN columns = DOMAIN name
  /\ \A k \in DOMAIN name :
       columns[k].name = name[k] /\ columns[k].info = [type |-> "string", ptr |-> FALSE]

(* A row that is read in both ways. *)
OnlyTyped(typed, plain, row, name, used, formats) ==
  /\ DOMAIN typed[2] = {name[k] : k \in used \cap DOMAIN row}
  /\ \A k \in used \cap DOMAIN row : \A info \in Format(formats[k]) :
       typed[2][name[k]] = Typed(plain[2][name[k]][2], info)

(* Each value of a row has the type of its own column. *)
LEMMA RowOnlyTyped ==
  ASSUME NEW columns, NEW plainColumns, NEW name, NEW formats, NEW used, NEW row,
         \A j, k \in DOMAIN name : name[j] = name[k] => j = k,
         used \subseteq DOMAIN name \cap DOMAIN formats,
         ColumnsFor(columns, name, used, formats), PlainColumns(plainColumns, name),
         RowObject(columns, row) # Unreadable, RowObject(plainColumns, row) # Unreadable
  PROVE  OnlyTyped(RowObject(columns, row), RowObject(plainColumns, row), row, name, used, formats)
<1> DEFINE typed == RowObject(columns, row)
           plain == RowObject(plainColumns, row)
           string == [type |-> "string", ptr |-> FALSE]
<1>1. ASSUME NEW k \in used \cap DOMAIN row, NEW info \in Format(formats[k])
      PROVE  typed[2][name[k]] = Typed(plain[2][name[k]][2], info)
  <2>1. /\ k \in DOMAIN name /\ k \in DOMAIN columns /\ columns[k].info # SkipColumn /\ columns[k].name = name[k]
        /\ columns[k].info \in Format(formats[k])
    BY DEF ColumnsFor
  <2>2. columns[k].info = info
    BY <2>1, OneFormat
  <2>3. typed[2][name[k]] = Typed(row[k], info)
    <3>1. \A j \in DOMAIN row \cap DOMAIN columns :
            columns[j].info # SkipColumn /\ columns[j].name = columns[k].name => j = k
      BY <2>1 DEF ColumnsFor
    <3>2. k \in DOMAIN row \cap DOMAIN columns
      BY <2>1
    <3>3. RowObject(columns, row)[2][columns[k].name] = Typed(row[k], columns[k].info)
      BY <2>1, <3>1, <3>2, RowObjectIs
    <3> QED
      BY <2>1, <2>2, <3>3
  <2>4. plain[2][name[k]] = <<"string", row[k]>>
    <3>1. plainColumns[k].name = name[k] /\ plainColumns[k].info = string
      BY <2>1 DEF PlainColumns
    <3>2. plainColumns[k].info # SkipColumn
      BY <3>1 DEF SkipColumn
    <3>3. k \in DOMAIN row \cap DOMAIN plainColumns
      BY <2>1 DEF PlainColumns
    <3>4. \A j \in DOMAIN row \cap DOMAIN plainColumns :
            plainColumns[j].info # SkipColumn /\ plainColumns[j].name = plainColumns[k].name => j = k
      BY <2>1, <3>1 DEF PlainColumns
    <3>5. RowObject(plainColumns, row)[2][plainColumns[k].name] = Typed(row[k], plainColumns[k].info)
      BY <3>2, <3>3, <3>4, RowObjectIs
    <3>6. Typed(row[k], string) = <<"string", row[k]>>
      BY DEF Typed, getTyped
    <3> QED
      BY <3>1, <3>5, <3>6
  <2> HIDE DEF typed, plain
  <2>5. plain[2][name[k]][2] = row[k]
    BY <2>4
  <2> QED
    BY <2>3, <2>5
<1>2. DOMAIN typed[2] = {name[k] : k \in used \cap DOMAIN row}
  <2> DEFINE read == {j \in DOMAIN row \cap DOMAIN columns : columns[j].info # SkipColumn}
  <2>1. DOMAIN RowObject(columns, row)[2] = {columns[j].name : j \in read}
    BY DEF RowObject
  <2>2. read = used \cap DOMAIN row
    BY DEF ColumnsFor
  <2>3. \A j \in read : columns[j].name = name[j]
    BY DEF ColumnsFor
  <2> HIDE DEF read
  <2> QED
    BY <2>1, <2>2, <2>3
<1> HIDE DEF typed, plain
<1> QED
  BY <1>1, <1>2 DEF OnlyTyped, typed, plain

(* The rows behind the names and the formats. *)
LEMMA RowsBehind ==
  ASSUME NEW S, NEW kept \in Seq(S), Len(kept) >= 2
  PROVE  /\ Len(kept) - 2 \in Nat /\ kept[1] \in S /\ kept[2] \in S
         /\ SubSeq(kept, 3, Len(kept)) \in Seq(S)
         /\ Len(SubSeq(kept, 3, Len(kept))) = Len(kept) - 2
         /\ DOMAIN SubSeq(kept, 3, Len(kept)) = 1 .. Len(kept) - 2
         /\ \A i \in 1 .. Len(kept) - 2 : SubSeq(kept, 3, Len(kept))[i] = kept[i + 2]
         /\ Tail(<<kept[1]>> \o SubSeq(kept, 3, Len(kept))) = SubSeq(kept, 3, Len(kept))
<1> DEFINE rows == SubSeq(kept, 3, Len(kept))
<1>1. Len(kept) - 2 \in Nat /\ 1 \in 1 .. Len(kept) /\ 2 \in 1 .. Len(kept)
  OBVIOUS
<1>2. kept[1] \in S /\ kept[2] \in S
  BY <1>1
<1>3. rows \in Seq(S) /\ Len(rows) = Len(kept) - 2
  <2>1. 3 \in 1 .. Len(kept) + 1 /\ Len(kept) \in 3 - 1 .. Len(kept)
    BY <1>1
  <2>2. /\ rows \in Seq(S)
        /\ Len(rows) = IF 3 <= Len(kept) THEN Len(kept) - 3 + 1 ELSE 0
    BY <2>1, SubSeqProperties
  <2>3. IF 3 <= Len(kept) THEN Len(kept) - 3 + 1 = Len(kept) - 2 ELSE Len(kept) - 2 = 0
    <3>1. \A l \in Nat : l >= 2 => IF 3 <= l THEN l - 3 + 1 = l - 2 ELSE l - 2 = 0
      OBVIOUS
    <3>2. Len(kept) \in Nat
      OBVIOUS
    <3> HIDE DEF rows
    <3> QED
      BY <3>1, <3>2
  <2> HIDE DEF rows
  <2> QED
    BY <2>2, <2>3
<1>4. DOMAIN rows = 1 .. Len(kept) - 2
  BY <1>3
<1>5. \A i \in 1 .. Len(kept) - 2 : rows[i] = kept[i + 2]
  BY <1>1
<1> HIDE DEF rows
<1>6. Tail(<<kept[1]>> \o rows) = rows
  BY <1>2, <1>3
<1> QED
  BY <1>1, <1>2, <1>3, <1>4, <1>5, <1>6 DEF rows

(* Without types every row becomes an object. *)
LEMMA PlainTableIs ==
  ASSUME NEW columns, NEW n \in Nat, NEW rows, DOMAIN rows = 1 .. n,
         \A k \in DOMAIN columns : columns[k].info = [type |-> "string", ptr |-> FALSE]
  PROVE  Objects(columns, rows)[1] = "array"
<1> DEFINE objects == [i \in DOMAIN rows |-> RowObject(columns, rows[i])]
<1>1. \A row : RowObject(columns, row) # Unreadable
  BY PlainRowIs
<1>2. Unreadable \notin Range(objects)
  BY <1>1 DEF Range
<1>3. Objects(columns, rows) = IF Unreadable \in Range(objects) THEN <<"error">> ELSE <<"array", objects>>
  BY DEF Objects
<1> HIDE DEF objects
<1> QED
  BY <1>2, <1>3

(* Rows that are read with their types, and the same rows read without. *)
LEMMA RowsOnlyTyped ==
  ASSUME NEW n \in Nat, NEW rows, DOMAIN rows = 1 .. n,
         NEW columns, NEW plainColumns, NEW name, NEW formats, NEW used,
         \A j, k \in DOMAIN name : name[j] = name[k] => j = k,
         used \subseteq DOMAIN name \cap DOMAIN formats,
         ColumnsFor(columns, name, used, formats), PlainColumns(plainColumns, name),
         Objects(columns, rows)[1] = "array"
  PROVE  /\ Len(Objects(columns, rows)[2]) = Len(Objects(plainColumns, rows)[2])
         /\ DOMAIN Objects(columns, rows)[2] = 1 .. n
         /\ \A i \in 1 .. n : OnlyTyped(Objects(columns, rows)[2][i], Objects(plainColumns, rows)[2][i],
                                       rows[i], name, used, formats)
<1>1. ObjectsOf(Objects(columns, rows)[2], columns, rows, n)
  BY ObjectsAre
<1>2. ObjectsOf(Objects(plainColumns, rows)[2], plainColumns, rows, n)
  <2>1. \A k \in DOMAIN plainColumns : plainColumns[k].info = [type |-> "string", ptr |-> FALSE]
    BY DEF PlainColumns
  <2>2. Objects(plainColumns, rows)[1] = "array"
    BY <2>1, PlainTableIs
  <2> QED
    BY <2>2, ObjectsAre
<1>3. ASSUME NEW i \in 1 .. n
      PROVE  OnlyTyped(RowObject(columns, rows[i]), RowObject(plainColumns, rows[i]),
                       rows[i], name, used, formats)
  <2>1. RowObject(columns, rows[i]) # Unreadable /\ RowObject(plainColumns, rows[i]) # Unreadable
    BY <1>1, <1>2 DEF ObjectsOf
  <2> QED
    BY <2>1, RowOnlyTyped
<1>4. \A i \in 1 .. n : /\ Objects(columns, rows)[2][i] = RowObject(columns, rows[i])
                      /\ Objects(plainColumns, rows)[2][i] = RowObject(plainColumns, rows[i])
  BY <1>1, <1>2 DEF ObjectsOf
<1>5. /\ Len(Objects(columns, rows)[2]) = Len(Objects(plainColumns, rows)[2])
      /\ DOMAIN Objects(columns, rows)[2] = 1 .. n
  BY <1>1, <1>2 DEF ObjectsOf
<1> QED
  BY <1>3, <1>4, <1>5

(* The columns of a table that is read without types. *)
LEMMA PlainTable ==
  ASSUME NEW S, NEW names \in S, NEW rows, Tail(<<names>> \o rows) = rows, rows \in Seq(S)
  PROVE  GenericCSVToMap(<<names>> \o rows)
         = Objects([k \in DOMAIN names |->
                      [name |-> Trimmed(names[k]), info |-> [type |-> "string", ptr |-> FALSE]]], rows)
<1> DEFINE table == <<names>> \o rows
<1>1. table # << >> /\ table[1] = names /\ Tail(table) = rows
  OBVIOUS
<1>2. GenericCSVToMap(table) =
        IF table = << >> THEN <<"panic">>
        ELSE Objects([k \in DOMAIN table[1] |->
                        [name |-> Trimmed(table[1][k]), info |-> [type |-> "string", ptr |-> FALSE]]],
                     Tail(table))
  BY DEF GenericCSVToMap
<1> HIDE DEF table
<1>3. GenericCSVToMap(table)
      = Objects([k \in DOMAIN names |->
                   [name |-> Trimmed(names[k]), info |-> [type |-> "string", ptr |-> FALSE]]], rows)
  BY <1>1, <1>2
<1> QED
  BY <1>3 DEF table

(* The columns of a table are those that its first two rows tell. *)
LEMMA KeptColumns ==
  ASSUME NEW kept,
         \E l, m \in Nat : DOMAIN kept[1] = 1 .. l /\ DOMAIN kept[2] = 1 .. m /\ Len(kept[2]) = m,
         extractHeaderInformation(kept[1], kept[2]) # << >>
  PROVE  LET name == [k \in DOMAIN kept[1] |-> Trimmed(kept[1][k])]
             used == {k \in DOMAIN name \cap DOMAIN kept[2] : name[k] # "" /\ Format(kept[2][k]) # {}}
         IN  ColumnsFor(extractHeaderInformation(kept[1], kept[2]), name, used, kept[2])
<1> DEFINE names == kept[1]
           formats == kept[2]
           columns == extractHeaderInformation(names, formats)
           name == [k \in DOMAIN names |-> Trimmed(names[k])]
           used == {k \in DOMAIN name \cap DOMAIN formats : name[k] # "" /\ Format(formats[k]) # {}}
<1>1. PICK l \in Nat, m \in Nat : DOMAIN names = 1 .. l /\ DOMAIN formats = 1 .. m /\ Len(formats) = m
  OBVIOUS
<1>2. columns # << >>
  OBVIOUS
<1>3. DOMAIN name = DOMAIN names /\ \A k \in DOMAIN names : name[k] = Trimmed(names[k])
  OBVIOUS
<1>4. \A k : k \in used <=> k \in DOMAIN name \cap DOMAIN formats /\ name[k] # "" /\ Format(formats[k]) # {}
  OBVIOUS
<1>5. ColumnsFor(columns, name, used, formats)
  <2> HIDE DEF names, formats, name, used
  <2>1. /\ DOMAIN columns = DOMAIN names \cap DOMAIN formats
        /\ \A k \in DOMAIN columns :
             /\ columns[k].name = Trimmed(names[k])
             /\ columns[k].info # SkipColumn <=> Trimmed(names[k]) # "" /\ Format(formats[k]) # {}
             /\ columns[k].info # SkipColumn => columns[k].info \in Format(formats[k])
    BY <1>1, <1>2, TypedColumns
  <2> HIDE DEF columns
  <2> QED
    BY <1>3, <1>4, <2>1 DEF ColumnsFor
<1> QED
  BY <1>5

(* Reading a table with types differs from reading it without only in the
   values (csv.go:19, :69). *)
THEOREM Response_TypesOnlyType == ResponseSpec => []TypesOnlyType
<1>1. TypedExchange => TypesOnlyType
  <2> DEFINE table == exchange.got.body.table
             kept  == removeEmptyRowsAndComments(table)
             typed == CSVToMap(table)
             rows  == SubSeq(kept, 3, Len(kept))
             plain == GenericCSVToMap(<<kept[1]>> \o rows)
             name  == [k \in DOMAIN kept[1] |-> Trimmed(kept[1][k])]
             used  == {k \in DOMAIN name \cap DOMAIN kept[2] : name[k] # "" /\ Format(kept[2][k]) # {}}
             columns == extractHeaderInformation(kept[1], kept[2])
             plainColumns == [k \in DOMAIN kept[1] |->
                                [name |-> Trimmed(kept[1][k]), info |-> [type |-> "string", ptr |-> FALSE]]]
             n == Len(kept) - 2
  <2> SUFFICES ASSUME TypedExchange, Judged, Len(kept) >= 2, typed[1] = "array", IsInjective(name)
               PROVE  /\ Len(typed[2]) = Len(plain[2])
                      /\ \A i \in DOMAIN typed[2] :
                           /\ DOMAIN typed[2][i][2] = {name[k] : k \in used \cap DOMAIN kept[i + 2]}
                           /\ \A k \in used \cap DOMAIN kept[i + 2] : \A info \in Format(kept[2][k]) :
                                typed[2][i][2][name[k]] = Typed(plain[2][i][2][name[k]][2], info)
    BY DEF TypesOnlyType
  <2>1. table \in Seq(Seq(STRING))
    BY ExchangesAssumption DEF TypedExchange, Judged, NoExchange
  <2> HIDE DEF table
  <2>2. kept \in Seq(Seq(STRING))
    BY <2>1, RowsAreLeft
  <2>3. typed = IF Len(kept) < 2 THEN <<"panic">>
                ELSE IF columns = << >> THEN <<"error">> ELSE Objects(columns, rows)
    BY DEF CSVToMap
  <2>4. Len(kept) \in Nat
    BY <2>2
  <2> HIDE DEF kept, typed
  <2>5. /\ n \in Nat /\ kept[1] \in Seq(STRING) /\ kept[2] \in Seq(STRING)
        /\ rows \in Seq(Seq(STRING)) /\ DOMAIN rows = 1 .. n
        /\ \A i \in 1 .. n : rows[i] = kept[i + 2]
        /\ Tail(<<kept[1]>> \o rows) = rows
    BY <2>2, RowsBehind
  <2>6. plain = Objects(plainColumns, rows)
    <3> DEFINE names == kept[1]
    <3> HIDE DEF rows
    <3> QED
      BY <2>5, PlainTable
  <2>7. \A j, k \in DOMAIN name : name[j] = name[k] => j = k
    BY DEF IsInjective
  <2>8. used \subseteq DOMAIN name \cap DOMAIN kept[2]
    OBVIOUS
  <2>9. PlainColumns(plainColumns, name)
    BY DEF PlainColumns
  <2>10. \E l, m \in Nat : DOMAIN kept[1] = 1 .. l /\ DOMAIN kept[2] = 1 .. m /\ Len(kept[2]) = m
    BY <2>5
  <2> HIDE DEF rows, columns, n
  <2>11. columns # << >> /\ typed = Objects(columns, rows)
    BY <2>3, <2>4
  <2>12. ColumnsFor(columns, name, used, kept[2])
    BY <2>10, <2>11, KeptColumns DEF columns
  <2> HIDE DEF plainColumns, plain, name, used
  <2>13. /\ Len(typed[2]) = Len(plain[2]) /\ DOMAIN typed[2] = 1 .. n
         /\ \A i \in 1 .. n : OnlyTyped(typed[2][i], plain[2][i], rows[i], name, used, kept[2])
    <3>1. /\ Len(Objects(columns, rows)[2]) = Len(Objects(plainColumns, rows)[2])
          /\ DOMAIN Objects(columns, rows)[2] = 1 .. n
          /\ \A i \in 1 .. n : OnlyTyped(Objects(columns, rows)[2][i], Objects(plainColumns, rows)[2][i],
                                        rows[i], name, used, kept[2])
      BY <2>5, <2>7, <2>8, <2>9, <2>11, <2>12, RowsOnlyTyped
    <3> QED
      BY <2>6, <2>11, <3>1
  <2>14. \A i \in 1 .. n : OnlyTyped(typed[2][i], plain[2][i], kept[i + 2], name, used, kept[2])
    BY <2>5, <2>13
  <2> QED
    BY <2>13, <2>14 DEF OnlyTyped
<1> QED
  BY <1>1, ExchangeInvariant, PTL

(***************************************************************************)
(* Responses that are expected again                                       *)
(***************************************************************************)

(* What has all that is expected, and the same of it, passes. *)
LEMMA AgreeingPasses ==
  ASSUME NEW exp \in Values, NEW act \in Values, NEW c \in ComparisonContext,
         exp[1] = "object", exp[3] = << >>, act[1] = "object", Plain[act], c.noExtra = FALSE,
         \A k \in DOMAIN exp[2] : k \in DOMAIN act[2] /\ exp[2][k] = act[2][k]
  PROVE  JsonEqual[<<exp, act, c>>] = "equal"
<1>1. DOMAIN << >> = {}
  OBVIOUS
<1>2. ASSUME NEW k \in DOMAIN exp[2] \cup DOMAIN exp[3]
      PROVE  KeyVerdict(JsonEqual, exp, act, k) = "equal"
  <2> DEFINE d == fillComparisonContext(<< >>)
  <2>1. k \in DOMAIN exp[2]
    BY <1>1
  <2>2. /\ d \in ComparisonContext
        /\ KeyVerdict(JsonEqual, exp, act, k) = JsonEqual[<<exp[2][k], act[2][k], d>>]
    BY <2>1, PlainKey
  <2>3. act[2][k] \in Parts(act)
    BY <2>1 DEF Parts, Range
  <2>4. act[2][k] \in Values /\ Plain[act[2][k]]
    BY <2>3, PlainIs, ValuesAssumption
  <2> HIDE DEF d
  <2> QED
    BY <2>1, <2>2, <2>4, PlainIsEqual
<1>3. objectComparison(JsonEqual, exp, act, c.noExtra) = "equal"
  <2> DEFINE verdicts == {KeyVerdict(JsonEqual, exp, act, k) : k \in DOMAIN exp[2] \cup DOMAIN exp[3]}
  <2>1. "error" \notin verdicts /\ "unequal" \notin verdicts
    BY <1>2
  <2>2. objectComparison(JsonEqual, exp, act, FALSE) =
          IF "error" \in verdicts THEN "error" ELSE IF "unequal" \in verdicts THEN "unequal" ELSE "equal"
    BY DEF objectComparison
  <2> HIDE DEF verdicts
  <2> QED
    BY <2>1, <2>2
<1> QED
  BY <1>3, JsonEqualIs DEF Verdict

(* What the stored cookies expect. *)
Again(map) == [name \in DOMAIN map |-> [f \in CookieFields |-> map[name][2][f][2]]]

(* A cookie that was stored has the same fields when it is expected. *)
LEMMA CookieAgain ==
  ASSUME NEW ck, NEW o, o = CookieObject(ck)
  PROVE  /\ CookieObject([f \in CookieFields |-> o[2][f][2]]) = o
         /\ "name" \in DOMAIN ck => [f \in CookieFields |-> o[2][f][2]]["name"] = ck["name"]
<1> DEFINE field(f) == IF f \in DOMAIN ck THEN ck[f] ELSE ""
           again == [f \in CookieFields |-> o[2][f][2]]
           texts == [f \in CookieFields |-> <<"string", field(f)>>]
<1>1. o = <<"object", texts, << >>>>
  BY DEF CookieObject, Object, Str
<1>2. \A f \in CookieFields : again[f] = field(f)
  <2> HIDE DEF field
  <2>1. \A f \in CookieFields : texts[f][2] = field(f)
    OBVIOUS
  <2> HIDE DEF texts
  <2>2. o[2] = texts
    BY <1>1
  <2> HIDE DEF texts
  <2> QED
    BY <2>1, <2>2
<1>3. DOMAIN again = CookieFields
  OBVIOUS
<1>4. "name" \in CookieFields
  BY DEF CookieFields
<1> HIDE DEF again
<1>5. CookieObject(again) = <<"object", [f \in CookieFields |-> <<"string", again[f]>>], << >>>>
  BY <1>3 DEF CookieObject, Object, Str
<1>6. CookieObject(again) = o
  BY <1>1, <1>2, <1>5
<1> QED
  BY <1>2, <1>4, <1>6 DEF again

(* The cookies that were stored are expected as they were. *)
LEMMA CookiesAgain ==
  ASSUME NEW T, NEW cookies \in Seq(T), \A i \in DOMAIN cookies : "name" \in DOMAIN cookies[i],
         NEW map, map = CookieMap(cookies), NEW again, again = Again(map),
         NEW seq, seq = SetToSeq(Range(again))
  PROVE  CookieMap(seq) = map /\ (seq = << >> <=> cookies = << >>)
<1> DEFINE n == Len(cookies)
<1>1. n \in Nat /\ DOMAIN cookies = 1 .. n
  OBVIOUS
<1>2. MapOf(map, cookies, n)
  BY <1>1, CookieMapIs
<1>3. DOMAIN again = DOMAIN map /\ \A name \in DOMAIN map : again[name] = [f \in CookieFields |-> map[name][2][f][2]]
  BY DEF Again
<1>4. \A name \in DOMAIN map : again[name]["name"] = name /\ CookieObject(again[name]) = map[name]
  <2> SUFFICES ASSUME NEW name \in DOMAIN map
               PROVE  again[name]["name"] = name /\ CookieObject(again[name]) = map[name]
    OBVIOUS
  <2>1. PICK i \in 1 .. n : cookies[i]["name"] = name /\ map[name] = CookieObject(cookies[i])
    BY <1>2 DEF MapOf
  <2>2. "name" \in DOMAIN cookies[i]
    BY <1>1
  <2> QED
    BY <1>3, <2>1, <2>2, CookieAgain
<1>5. IsFiniteSet(Range(again))
  <2> DEFINE f == [i \in 1 .. n |-> again[cookies[i]["name"]]]
  <2>1. \A i \in 1 .. n : cookies[i]["name"] \in DOMAIN again
    BY <1>2, <1>3 DEF MapOf
  <2>2. \A name \in DOMAIN again : \E i \in 1 .. n : cookies[i]["name"] = name
    BY <1>2, <1>3 DEF MapOf
  <2>3. f \in Surjection(1 .. n, Range(again))
    <3>1. f \in [1 .. n -> Range(again)]
      BY <2>1 DEF Range
    <3>2. \A a \in Range(again) : \E i \in 1 .. n : f[i] = a
      BY <2>2 DEF Range
    <3> HIDE DEF f
    <3> QED
      BY <3>1, <3>2 DEF Surjection
  <2>4. IsFiniteSet(1 .. n)
    BY <1>1, FS_Interval
  <2> HIDE DEF f, n
  <2> QED
    BY <2>3, <2>4, FS_Surjection
<1>6. PICK len \in Nat : /\ seq \in [1 .. len -> Range(again)]
                         /\ \A a \in Range(again) : \E i \in 1 .. len : seq[i] = a
  <2> HIDE DEF n
  <2> QED
    BY <1>5, SetToSeqIs
<1>7. MapOf(CookieMap(seq), seq, len)
  BY <1>6, CookieMapIs
<1>8. \A i \in 1 .. len : \E name \in DOMAIN map : seq[i] = again[name]
  <2>1. \A i \in 1 .. len : seq[i] \in Range(again)
    BY <1>6
  <2>2. \A a \in Range(again) : \E name \in DOMAIN map : a = again[name]
    BY <1>3 DEF Range
  <2> QED
    BY <2>1, <2>2
<1>9. \A name \in DOMAIN map : \E i \in 1 .. len : seq[i] = again[name]
  <2>1. \A name \in DOMAIN map : again[name] \in Range(again)
    BY <1>3 DEF Range
  <2> QED
    BY <1>6, <2>1
<1> HIDE DEF n
<1>10. DOMAIN CookieMap(seq) = DOMAIN map
  <2>1. \A i \in 1 .. len : seq[i]["name"] \in DOMAIN map
    BY <1>4, <1>8
  <2>2. \A name \in DOMAIN map : \E i \in 1 .. len : seq[i]["name"] = name
    BY <1>4, <1>9
  <2>3. /\ \A i \in 1 .. len : seq[i]["name"] \in DOMAIN CookieMap(seq)
        /\ \A name \in DOMAIN CookieMap(seq) : \E i \in 1 .. len : seq[i]["name"] = name
    BY <1>7 DEF MapOf
  <2> DEFINE names == DOMAIN map
             others == DOMAIN CookieMap(seq)
  <2>4. \A name \in names : name \in others
    BY <2>2, <2>3
  <2>5. \A name \in others : name \in names
    BY <2>1, <2>3
  <2> HIDE DEF names, others
  <2>6. names = others
    BY <2>4, <2>5
  <2> QED
    BY <2>6 DEF names, others
<1>11. \A name \in DOMAIN map : CookieMap(seq)[name] = map[name]
  <2> SUFFICES ASSUME NEW name \in DOMAIN map PROVE CookieMap(seq)[name] = map[name]
    OBVIOUS
  <2>1. PICK i \in 1 .. len : seq[i]["name"] = name /\ CookieMap(seq)[name] = CookieObject(seq[i])
    BY <1>7, <1>10 DEF MapOf
  <2>2. PICK other \in DOMAIN map : seq[i] = again[other]
    BY <1>8
  <2>3. other = name
    BY <1>4, <2>1, <2>2
  <2> QED
    BY <1>4, <2>1, <2>2, <2>3
<1>12. CookieMap(seq) = map
  <2>1. \A s : CookieMap(s) = [name \in DOMAIN CookieMap(s) |-> CookieMap(s)[name]]
    BY DEF CookieMap
  <2>2. CookieMap(seq) = [name \in DOMAIN map |-> map[name]]
    <3>1. CookieMap(seq) = [name \in DOMAIN map |-> CookieMap(seq)[name]]
      BY <1>10, <2>1
    <3> DEFINE other == CookieMap(seq)
    <3> HIDE DEF other
    <3> QED
      BY <1>11, <3>1 DEF other
  <2>3. map = [name \in DOMAIN map |-> map[name]]
    BY <2>1
  <2> QED
    BY <2>2, <2>3
<1>13. seq = << >> <=> cookies = << >>
  <2>1. seq = << >> <=> len = 0
    BY <1>6
  <2>2. cookies = << >> <=> n = 0
    BY DEF n
  <2>3. len = 0 <=> DOMAIN map = {}
    <3>1. len # 0 => 1 \in 1 .. len
      OBVIOUS
    <3>2. len = 0 => 1 .. len = {}
      OBVIOUS
    <3> QED
      BY <1>8, <1>9, <3>1, <3>2
  <2>4. n = 0 <=> DOMAIN map = {}
    <3>1. n # 0 => 1 \in 1 .. n
      BY <1>1
    <3>2. \A i \in 1 .. n : cookies[i]["name"] \in DOMAIN map
      BY <1>2 DEF MapOf
    <3>3. \A name \in DOMAIN map : \E i \in 1 .. n : cookies[i]["name"] = name
      BY <1>2 DEF MapOf
    <3>4. n = 0 => 1 .. n = {}
      BY <1>1
    <3> QED
      BY <3>1, <3>2, <3>3, <3>4
  <2> QED
    BY <2>1, <2>2, <2>3, <2>4
<1> QED
  BY <1>12, <1>13

(* Lists of texts are allowed as headers that are expected. *)
LEMMA ListsAreRead ==
  ASSUME NEW r
  PROVE  NewResponse(ListsOf(r)) = <<[list |-> ListsOf(r), flat |-> << >>]>>
<1> DEFINE header == ListsOf(r)
           is(t) == {k \in DOMAIN header : header[k][1] = t}
           none == [k \in is("string") |-> header[k]]
           texts(k) == [i \in DOMAIN r.header[k] |-> <<"string", r.header[k][i]>>]
<1>1. \A k \in DOMAIN header : header[k] = <<"array", texts(k)>>
  BY DEF ListsOf, Strs, Str
<1>2. header = [k \in DOMAIN header |-> header[k]]
  BY DEF ListsOf
<1> HIDE DEF header
<1>3. is("string") = {} /\ is("array") = DOMAIN header
  <2>1. \A k \in DOMAIN header : header[k][1] = "array"
    <3> HIDE DEF texts
    <3> QED
      BY <1>1
  <2> QED
    BY <2>1
<1>4. \A k \in is("array") : \A i \in DOMAIN header[k][2] : header[k][2][i][1] = "string"
  <2> SUFFICES ASSUME NEW k \in DOMAIN header, NEW i \in DOMAIN header[k][2]
               PROVE  header[k][2][i][1] = "string"
    OBVIOUS
  <2>1. \A j \in DOMAIN texts(k) : texts(k)[j][1] = "string"
    OBVIOUS
  <2> HIDE DEF texts
  <2>2. header[k][2] = texts(k)
    BY <1>1
  <2> QED
    BY <2>1, <2>2
<1>5. NewResponse(header) =
        IF \/ is("string") \cup is("array") # DOMAIN header
           \/ \E k \in is("array") : \E i \in DOMAIN header[k][2] : header[k][2][i][1] # "string"
          THEN << >>
          ELSE <<[list |-> [k \in is("array") |-> header[k]], flat |-> [k \in is("string") |-> header[k]]]>>
  BY DEF NewResponse
<1>6. NewResponse(header) = <<[list |-> [k \in is("array") |-> header[k]], flat |-> none]>>
  <2> HIDE DEF is
  <2> QED
    BY <1>3, <1>4, <1>5
<1>7. none = << >>
  BY <1>3
<1>8. [k \in is("array") |-> header[k]] = header
  BY <1>2, <1>3
<1> HIDE DEF none, is
<1> QED
  BY <1>6, <1>7, <1>8 DEF header

(* What can be read with its body can be read without it. *)
LEMMA ReadWithout ==
  ASSUME NEW r, NEW type, NEW ignore \in BOOLEAN,
         ServerResponseToGenericJSON(r, WithIgnore(type, ignore)) \notin Failed
  PROVE  ServerResponseToGenericJSON(r, WithIgnore(type, TRUE)) \notin Failed
<1> DEFINE value(f) == Convert(f, IF f.pre # "none" /\ f.type = "" THEN ensureJson(PreProcess(f, r.body))
                                  ELSE PreProcess(f, r.body))
           object(f) == ResponseObject(r.code, ListsOf(r), <<TextsOf(r), << >>>>,
                                       r.cookies, ~f.ignoreBody, value(f), << >>)
           f == WithIgnore(type, ignore)
           g == WithIgnore(type, TRUE)
<1>1. \A h : ServerResponseToGenericJSON(r, h) =
               IF h.pre = "no name" THEN <<"error">> ELSE IF value(h) \in Failed THEN value(h) ELSE object(h)
  BY DEF ServerResponseToGenericJSON, ListsOf, TextsOf
<1>2. \A h : object(h)[1] = "object"
  BY DEF ResponseObject
<1>3. f.pre = g.pre /\ f.type = g.type /\ g.ignoreBody = TRUE /\ f.pre = type.pre /\ f.type = type.type
  BY DEF WithIgnore
<1>4. \A body : g.type # "" => Convert(g, body) = Convert(f, body)
  <2> HIDE DEF f, g
  <2> QED
    BY <1>3 DEF Convert
<1>5. \A body : g.type = "" => Convert(g, body) = Null
  <2> HIDE DEF f, g
  <2> QED
    BY <1>3 DEF Convert
<1>6. \A body : PreProcess(f, body) = PreProcess(g, body)
  <2> HIDE DEF f, g
  <2> QED
    BY <1>3 DEF PreProcess
<1>7. value(g) = value(f) \/ value(g) = Null
  <2> HIDE DEF f, g
  <2> QED
    BY <1>3, <1>4, <1>5, <1>6
<1>8. Null \notin Failed
  BY DEF Null, Failed
<1>9. \A h : object(h) \notin Failed
  <2>1. \A o : o[1] = "object" => o \notin Failed
    BY DEF Failed
  <2> HIDE DEF object
  <2> QED
    BY <1>2, <2>1
<1> HIDE DEF value, object, f, g
<1>10. f.pre # "no name" /\ value(f) \notin Failed
  BY <1>1 DEF Failed, f
<1>11. ServerResponseToGenericJSON(r, g) \notin Failed
  BY <1>1, <1>3, <1>7, <1>8, <1>9, <1>10
<1> QED
  BY <1>11 DEF g

(* A response, json, as the expectation, spec, of a test: nothing of it is lost. *)
Replays(spec, x, json, ignore) ==
  /\ DOMAIN spec = DOMAIN NoSpec
  /\ spec.given = TRUE /\ spec.code = x.got.code
  /\ spec.header = ListsOf(x.got) /\ spec.headerControl = << >>
  /\ spec.cookies = Again(CookieMap(x.got.cookies))
  /\ spec.body = (IF ignore THEN Null ELSE json[2]["body"]) /\ spec.bodyControl = << >>
  /\ spec.format = x.spec.format /\ spec.unknown = {}

(* So it is with what is read off the stored object. *)
LEMMA SpecOfIs ==
  ASSUME NEW x \in Exchanges, NEW ignore \in BOOLEAN, NEW json,
         json = ServerResponseToGenericJSON(x.got, WithIgnore(x.spec.format, ignore)), json \notin Failed
  PROVE  Replays(Replay(json, x.spec.format), x, json, ignore)
<1> DEFINE of(key) == IF key \in DOMAIN json[2] THEN json[2][key][2] ELSE << >>
           cookies == [n \in DOMAIN of("cookie") |->
                         [f \in CookieFields |-> of("cookie")[n][2][f][2]]]
           body == IF "body" \in DOMAIN json[2] THEN json[2]["body"] ELSE Null
           spec == Replay(json, x.spec.format)
           read == [given |-> TRUE, code |-> json[2]["statuscode"][2], header |-> of("header"),
                    headerControl |-> << >>, cookies |-> cookies, body |-> body,
                    bodyControl |-> << >>, format |-> NoSpec.format,
                    unknown |-> {"header_flat"} \cap DOMAIN json[2]]
<1>1. /\ spec = [read EXCEPT !.unknown = {}, !.format = x.spec.format]
      /\ read.given = TRUE /\ read.code = json[2]["statuscode"][2] /\ read.header = of("header")
      /\ read.headerControl = << >> /\ read.cookies = cookies /\ read.body = body
      /\ read.bodyControl = << >>
      /\ DOMAIN read = {"given", "code", "header", "headerControl", "cookies", "body", "bodyControl", "format",
                        "unknown"}
  <2>1. SpecOf(json) = read
    BY DEF SpecOf
  <2> HIDE DEF of, cookies, body
  <2> QED
    BY <2>1 DEF Replay
<1>2. PICK content : IsObject(json, x.got.code, ListsOf(x.got), TextsOf(x.got), << >>, x.got.cookies, ~ignore, content)
  BY ActualIs
<1>3. json[2]["statuscode"][2] = x.got.code
  <2>1. x.got.code # NoCode
    BY ExchangesAssumption DEF NoCode
  <2> QED
    BY <1>2, <2>1 DEF IsObject
<1>4. of("header") = ListsOf(x.got)
  <2> DEFINE list == ListsOf(x.got)
  <2>1. CASE list = << >>
    BY <1>2, <2>1 DEF IsObject
  <2>2. CASE list # << >>
    <3> HIDE DEF list
    <3>1. "header" \in DOMAIN json[2] /\ json[2]["header"] = Object(list)
      BY <1>2, <2>2 DEF IsObject, list
    <3> QED
      BY <3>1 DEF Object, list
  <2> QED
    BY <2>1, <2>2
<1>5. of("cookie") = CookieMap(x.got.cookies)
  <2>1. CASE x.got.cookies = << >>
    <3>1. CookieMap(<< >>) = << >>
      BY DEF CookieMap
    <3> QED
      BY <1>2, <2>1, <3>1 DEF IsObject
  <2>2. CASE x.got.cookies # << >>
    <3>1. "cookie" \in DOMAIN json[2] /\ json[2]["cookie"] = Object(CookieMap(x.got.cookies))
      BY <1>2, <2>2 DEF IsObject
    <3> QED
      BY <3>1 DEF Object
  <2> QED
    BY <2>1, <2>2
<1>6. cookies = Again(CookieMap(x.got.cookies))
  <2>1. cookies = Again(of("cookie"))
    BY DEF Again
  <2> HIDE DEF cookies, of
  <2> QED
    BY <1>5, <2>1
<1>7. body = IF ignore THEN Null ELSE json[2]["body"]
  BY <1>2 DEF IsObject
<1>8. DOMAIN NoSpec = {"given", "code", "header", "headerControl", "cookies", "body", "bodyControl", "format",
                     "unknown"}
  BY DEF NoSpec
<1> HIDE DEF of, cookies, body, spec, read
<1>9. /\ DOMAIN spec = DOMAIN NoSpec
      /\ spec.given = TRUE /\ spec.code = x.got.code /\ spec.header = ListsOf(x.got)
      /\ spec.headerControl = << >> /\ spec.cookies = cookies /\ spec.body = body
      /\ spec.bodyControl = << >> /\ spec.format = x.spec.format /\ spec.unknown = {}
  BY <1>1, <1>3, <1>4, <1>8
<1>10. Replays(spec, x, json, ignore)
  BY <1>6, <1>7, <1>9 DEF Replays
<1> QED
  BY <1>10 DEF spec

(* An expected object without controls has nothing that the actual one has not. *)
Within(exp, act) ==
  /\ exp[1] = "object" /\ exp[3] = << >>
  /\ \A k \in DOMAIN exp[2] : k \in DOMAIN act[2] /\ exp[2][k] = act[2][k]

(* The same body is expected, if any is. *)
BodyAgain(spec, act) == spec.body # Null => act[2]["body"] = spec.body

(* So it is with what is expected of a response again. *)
LEMMA ReplayAgrees ==
  ASSUME NEW x \in Exchanges, NEW ignore, NEW json, NEW spec, Replays(spec, x, json, ignore),
         NEW e, Expects(e, spec, x.stores), NEW act, NEW content,
         NEW without \in BOOLEAN, without <=> spec.body = Null,
         IsObject(act, x.got.code, ListsOf(x.got), TextsOf(x.got), << >>, x.got.cookies,
                  ~without, content),
         BodyAgain(spec, act)
  PROVE  Within(expectedJSON(e), act)
<1> DEFINE exp == expectedJSON(e)
           seq == SetToSeq(Range(Again(CookieMap(x.got.cookies))))
           code == x.got.code
<1>1. /\ e.code = code /\ e.headerControl = << >> /\ e.bodyControl = << >> /\ e.body = spec.body
      /\ e.cookies = Again(CookieMap(x.got.cookies)) /\ DOMAIN e = DOMAIN NoSpec
  BY DEF Expects, Replays
<1>2. e.header.list = ListsOf(x.got) /\ e.header.flat = << >>
  <2>1. e.header = <<[list |-> ListsOf(x.got), flat |-> << >>]>>[1]
    BY ListsAreRead DEF Expects, Replays
  <2> QED
    BY <2>1
<1>3. code = CASE code = NoCode -> 200 [] code = 0 -> NoCode [] OTHER -> code
  BY ExchangesAssumption DEF NoCode
<1>4. /\ exp[3] = << >>
      /\ IsObject(exp, code, ListsOf(x.got), << >>, << >>, seq, e.body # Null, e.body)
  <2>1. BodyControls(e) = << >>
    BY <1>1 DEF BodyControls
  <2> QED
    BY <1>1, <1>2, <1>3, <2>1, ExpectedIs
<1>5. /\ CookieMap(seq) = CookieMap(x.got.cookies)
      /\ seq = << >> <=> x.got.cookies = << >>
  <2> DEFINE T == Range(x.got.cookies)
             cookies == x.got.cookies
  <2>1. cookies \in Seq(T) /\ \A i \in DOMAIN cookies : "name" \in DOMAIN cookies[i]
    BY ExchangesAssumption DEF Range
  <2> HIDE DEF T
  <2> QED
    BY <2>1, CookiesAgain
<1>6. DOMAIN exp[2] \subseteq {"statuscode", "header", "cookie", "body"}
  BY <1>4 DEF IsObject
<1> HIDE DEF seq, exp
<1>7. "statuscode" \in DOMAIN exp[2] => "statuscode" \in DOMAIN act[2] /\ exp[2]["statuscode"] = act[2]["statuscode"]
  BY <1>4 DEF IsObject
<1>8. "header" \in DOMAIN exp[2] => "header" \in DOMAIN act[2] /\ exp[2]["header"] = act[2]["header"]
  BY <1>4 DEF IsObject
<1>9. "cookie" \in DOMAIN exp[2] => "cookie" \in DOMAIN act[2] /\ exp[2]["cookie"] = act[2]["cookie"]
  BY <1>4, <1>5 DEF IsObject
<1>10. "body" \in DOMAIN exp[2] => "body" \in DOMAIN act[2] /\ exp[2]["body"] = act[2]["body"]
  BY <1>1, <1>4 DEF IsObject, BodyAgain
<1>11. \A k \in DOMAIN exp[2] : k \in DOMAIN act[2] /\ exp[2][k] = act[2][k]
  BY <1>6, <1>7, <1>8, <1>9, <1>10
<1>12. exp[1] = "object"
  BY <1>4 DEF IsObject
<1> QED
  BY <1>4, <1>11, <1>12 DEF Within, exp

(* What is stored is the response, read in the format that is asked for. *)
LEMMA StoredIs ==
  ASSUME NEW x \in Exchanges, executeRequest(x).stored # << >>, executeRequest(x).stored[1] \notin Failed
  PROVE  executeRequest(x).stored[1] =
           ServerResponseToGenericJSON(x.got,
             WithIgnore(x.spec.format, x.spec.given /\ x.spec.body = Null /\ ~x.stores))
<1> DEFINE first == loadExpectedResponse(x.spec, x.stores)
           json == executeRequest(x).stored[1]
           ignore == x.spec.given /\ x.spec.body = Null /\ ~x.stores
           once == ServerResponseToGenericJSON(x.got, first[1].format)
<1>1. executeRequest(x) =
        IF first = << >> THEN [stored |-> << >>, verdict |-> "error"]
        ELSE IF once = <<"panic">> THEN [stored |-> << >>, verdict |-> "panic"]
        ELSE IF once = <<"error">> /\ (x.spec.given \/ x.stores)
               THEN [stored |-> << >>, verdict |-> "error"]
        ELSE [stored |-> <<once>>, verdict |-> responsesEqual(first[1], x.got)]
  BY DEF executeRequest
<1>2. first # << >> /\ json = once
  <2> HIDE DEF first, once
  <2> QED
    BY <1>1
<1>3. DOMAIN x.spec = DOMAIN NoSpec
  BY ExchangesAssumption
<1>4. Expects(first[1], x.spec, x.stores)
  BY <1>2, <1>3, LoadedIs
<1>5. first[1].format = WithIgnore(x.spec.format, ignore)
  BY <1>4 DEF Expects
<1> HIDE DEF first, ignore, json
<1> QED
  BY <1>2, <1>5 DEF json, ignore

(* As it is stored, with header_flat, a response cannot be expected: the test ends in an
   error. *)
LEMMA VerbatimIsError ==
  ASSUME NEW x \in Exchanges, executeRequest(x).stored # << >>, executeRequest(x).stored[1] \notin Failed,
         DOMAIN x.got.header # {}, NEW spec, spec = SpecOf(executeRequest(x).stored[1])
  PROVE  executeRequest([x EXCEPT !.spec = spec]).verdict = "error"
<1> DEFINE json == executeRequest(x).stored[1]
           ignore == x.spec.given /\ x.spec.body = Null /\ ~x.stores
           y == [x EXCEPT !.spec = spec]
<1>1. json = ServerResponseToGenericJSON(x.got, WithIgnore(x.spec.format, ignore)) /\ ignore \in BOOLEAN
  BY StoredIs
<1>2. PICK content : IsObject(json, x.got.code, ListsOf(x.got), TextsOf(x.got), << >>, x.got.cookies, ~ignore, content)
  <2> HIDE DEF json, ignore
  <2>1. json \notin Failed
    BY DEF json
  <2> QED
    BY <1>1, <2>1, ActualIs
<1>3. TextsOf(x.got) # << >>
  <2>1. DOMAIN TextsOf(x.got) # {}
    BY DEF TextsOf
  <2> QED
    BY <2>1
<1>4. "header_flat" \in DOMAIN json[2]
  BY <1>2, <1>3 DEF IsObject
<1>5. spec.unknown = {"header_flat"} \cap DOMAIN json[2]
  BY DEF SpecOf
<1>6. y.spec = spec
  BY ExchangesAssumption
<1> HIDE DEF json, y
<1>7. y.spec.unknown # {}
  BY <1>4, <1>5, <1>6
<1>8. loadExpectedResponse(y.spec, y.stores) = << >>
  <2> DEFINE of(i) == [y.spec EXCEPT !.header = << >>[i],
                         !.format = WithIgnore(@, y.spec.given /\ y.spec.body = Null /\ ~y.stores)]
  <2>1. loadExpectedResponse(y.spec, y.stores) = [i \in DOMAIN << >> |-> of(i)]
    BY <1>7 DEF loadExpectedResponse
  <2>2. DOMAIN << >> = {}
    OBVIOUS
  <2> HIDE DEF of
  <2> QED
    BY <2>1, <2>2
<1>9. executeRequest(y).verdict = "error"
  BY <1>8 DEF executeRequest
<1> QED
  BY <1>9 DEF y

(* Without it, and read in the same format, it passes. *)
LEMMA ReplayPasses ==
  ASSUME NEW x \in Exchanges, executeRequest(x).stored # << >>, executeRequest(x).stored[1] \notin Failed,
         NEW spec, spec = Replay(executeRequest(x).stored[1], x.spec.format)
  PROVE  executeRequest([x EXCEPT !.spec = spec]).verdict = "equal"
<1> DEFINE json == executeRequest(x).stored[1]
           ignore == x.spec.given /\ x.spec.body = Null /\ ~x.stores
           read(without) == ServerResponseToGenericJSON(x.got, WithIgnore(x.spec.format, without))
           es == loadExpectedResponse(spec, x.stores)
           e == es[1]
           exp == expectedJSON(e)
           without == spec.body = Null
           again == spec.body = Null /\ ~x.stores
           act == actualJSON(e, x.got)
           c == fillComparisonContext(<< >>)
           y == [x EXCEPT !.spec = spec]
<1>1. ignore \in BOOLEAN /\ without \in BOOLEAN /\ again \in BOOLEAN
  OBVIOUS
<1>2. json = read(ignore) /\ json \notin Failed
  BY StoredIs
<1>3. Replays(spec, x, json, ignore)
  <2> HIDE DEF ignore, json
  <2> QED
    BY <1>1, <1>2, SpecOfIs DEF json
<1>4. Expects(e, spec, x.stores) /\ e \in Range(es) /\ es # << >>
  <2>1. DOMAIN spec = DOMAIN NoSpec /\ spec.header = ListsOf(x.got) /\ spec.unknown = {}
    BY <1>3 DEF Replays
  <2>2. 1 \in DOMAIN NewResponse(spec.header)
    BY <2>1, ListsAreRead
  <2>3. DOMAIN es = DOMAIN NewResponse(spec.header)
    BY <2>1 DEF loadExpectedResponse
  <2>4. es # << >>
    <3>1. 1 \in DOMAIN es
      BY <2>2, <2>3
    <3> HIDE DEF es
    <3> QED
      BY <3>1
  <2> QED
    BY <2>1, <2>4, LoadedIs
<1>5. act = read(without) /\ ServerResponseToGenericJSON(x.got, e.format) = read(again)
  <2>1. /\ e.body = spec.body /\ e.bodyControl = << >>
        /\ e.format = WithIgnore(x.spec.format, spec.given /\ again) /\ spec.given = TRUE
    BY <1>3, <1>4 DEF Expects, Replays
  <2>2. e.format = WithIgnore(x.spec.format, again)
    BY <2>1
  <2>3. WithIgnore(e.format, without) = WithIgnore(x.spec.format, without)
    BY <2>2 DEF WithIgnore
  <2> HIDE DEF e
  <2>4. (e.body = Null /\ e.bodyControl = << >>) = without
    BY <2>1
  <2> QED
    BY <2>2, <2>3, <2>4 DEF actualJSON
<1>6. /\ spec.body # Null => ~ignore /\ ~without /\ ~again /\ spec.body = json[2]["body"]
      /\ ~without => spec.body # Null
      /\ ~again => ~ignore \/ again = ignore
  BY <1>3 DEF Replays
<1> HIDE DEF json, ignore, read, es, e, exp, without, again, act, c, y
<1>7. read(without) \notin Failed /\ read(again) \notin Failed
  <2>1. read(TRUE) \notin Failed
    BY <1>1, <1>2, ReadWithout DEF read
  <2>2. CASE spec.body # Null
    BY <1>1, <1>2, <1>6, <2>2
  <2>3. CASE spec.body = Null
    <3>1. without = TRUE
      BY <2>3 DEF without
    <3>2. again = TRUE \/ (again = FALSE /\ ignore = FALSE)
      BY <2>3 DEF again, ignore
    <3> QED
      BY <1>2, <2>1, <3>1, <3>2
  <2> QED
    BY <2>2, <2>3
<1>8. spec.body # Null => act = json /\ act[2]["body"] = spec.body
  BY <1>1, <1>2, <1>5, <1>6
<1>9. act \in Values /\ Plain[act]
  <2>1. act \in Readings(x)
    BY <1>1, <1>5, <1>7 DEF Readings, read
  <2> QED
    BY <2>1, ExchangesAssumption
<1>10. exp \in Values
  <2>1. json \in Readings(x)
    BY <1>1, <1>2 DEF Readings, read
  <2>2. es = loadExpectedResponse(Replay(json, x.spec.format), x.stores)
    BY DEF es, json
  <2> QED
    BY <1>4, <2>1, <2>2, ExchangesAssumption DEF exp
<1>11. PICK content : IsObject(act, x.got.code, ListsOf(x.got), TextsOf(x.got), << >>, x.got.cookies,
                               ~without, content)
  BY <1>1, <1>5, <1>7, ActualIs DEF read
<1>12. without <=> spec.body = Null
  BY DEF without
<1>13. Within(exp, act)
  <2>1. Expects(e, spec, x.stores)
    BY <1>4
  <2>2. BodyAgain(spec, act)
    BY <1>8 DEF BodyAgain
  <2>3. without \in BOOLEAN
    BY <1>1
  <2>4. Within(expectedJSON(e), act)
    BY <1>3, <1>11, <1>12, <2>1, <2>2, <2>3, ReplayAgrees
  <2> QED
    BY <2>4 DEF exp
<1>14. c \in ComparisonContext /\ c.noExtra = FALSE
  <2>1. DOMAIN << >> = {}
    OBVIOUS
  <2>2. fillComparisonContext(<< >>) \in ComparisonContext
    BY <2>1, Contexts DEF Depth, Has
  <2> QED
    BY <2>1, <2>2 DEF c, fillComparisonContext, On, Has
<1>15. JsonEqual[<<exp, act, c>>] = "equal"
  <2>1. act[1] = "object"
    BY <1>11 DEF IsObject
  <2> QED
    BY <1>9, <1>10, <1>13, <1>14, <2>1, AgreeingPasses DEF Within
<1>16. responsesEqual(e, x.got) = "equal"
  <2>1. responsesEqual(e, x.got) = IF act \in Failed THEN act[1] ELSE JsonEqual[<<exp, act, c>>]
    BY DEF responsesEqual, act, exp, c
  <2> QED
    BY <1>5, <1>7, <1>15, <2>1
<1>17. y.spec = spec /\ y.stores = x.stores /\ y.got = x.got
  BY ExchangesAssumption DEF y
<1>18. executeRequest(y).verdict = "equal"
  <2> DEFINE once == ServerResponseToGenericJSON(y.got, loadExpectedResponse(y.spec, y.stores)[1].format)
  <2>1. executeRequest(y) =
          IF loadExpectedResponse(y.spec, y.stores) = << >> THEN [stored |-> << >>, verdict |-> "error"]
          ELSE IF once = <<"panic">> THEN [stored |-> << >>, verdict |-> "panic"]
          ELSE IF once = <<"error">> /\ (y.spec.given \/ y.stores)
                 THEN [stored |-> << >>, verdict |-> "error"]
          ELSE [stored |-> <<once>>,
                verdict |-> responsesEqual(loadExpectedResponse(y.spec, y.stores)[1], y.got)]
    BY DEF executeRequest
  <2>2. loadExpectedResponse(y.spec, y.stores) = es
    BY <1>17 DEF es
  <2>3. once = read(again) /\ once \notin Failed
    BY <1>5, <1>7, <1>17, <2>2 DEF e
  <2> HIDE DEF once
  <2>4. once # <<"panic">> /\ once # <<"error">>
    BY <2>3 DEF Failed
  <2>5. executeRequest(y) = [stored |-> <<once>>, verdict |-> responsesEqual(e, x.got)]
    BY <1>4, <1>17, <2>1, <2>2, <2>4 DEF e
  <2> QED
    BY <1>16, <2>5
<1> QED
  BY <1>18 DEF y

(* Whatever the format, a response passes a test that expects what was stored of it
   (response.go:178, :350), in that format and without header_flat; with header_flat,
   which is stored if there are headers, the test ends in an error (jsutil/json.go:74). *)
THEOREM Response_ReplayedMatches == ResponseSpec => []ReplayedMatches
<1>1. TypedExchange => ReplayedMatches
  <2> DEFINE stored == executeRequest(exchange).stored
             verdict(spec) == executeRequest([exchange EXCEPT !.spec = spec]).verdict
  <2> SUFFICES ASSUME TypedExchange, Judged, stored # << >>, stored[1] \notin Failed
               PROVE  /\ verdict(Replay(stored[1], exchange.spec.format)) = "equal"
                      /\ DOMAIN exchange.got.header # {} => verdict(SpecOf(stored[1])) = "error"
    BY DEF ReplayedMatches
  <2>1. exchange \in Exchanges
    BY DEF TypedExchange, Judged, NoExchange
  <2>2. verdict(Replay(stored[1], exchange.spec.format)) = "equal"
    BY <2>1, ReplayPasses
  <2>3. DOMAIN exchange.got.header # {} => verdict(SpecOf(stored[1])) = "error"
    BY <2>1, VerbatimIsError
  <2> QED
    BY <2>2, <2>3
<1> QED
  BY <1>1, ExchangeInvariant, PTL
=============================================================================
