---------------------------- MODULE JsonCompare -----------------------------
(***************************************************************************)
(* Comparing an expected with an actual JSON value, with controls:         *)
(* JsonEqual of pkg/lib/compare.                                           *)
(*                                                                         *)
(* Two arrays under a control are the state machine of ArrayCompare; what  *)
(* it is told about pairs of elements comes from the recursive function    *)
(* here, which follows the code down to the scalars.                       *)
(*                                                                         *)
(* A value is a tuple of its JSON type and its contents.  An object has    *)
(* its normal keys and, apart from them, the keys for which it has         *)
(* "<key>:control".  A control maps the names that are set in it to their  *)
(* settings; a pattern is the set of the values it matches.                *)
(***************************************************************************)
EXTENDS ArrayCompare, Functions, Sequences

CONSTANTS
  Values,    \* the JSON values that are compared, and all their parts
  Height,    \* how deep each of them is nested
  Expected,  \* expected arrays
  Actual,    \* actual arrays
  Controls   \* controls of the array

VARIABLE args   \* what ArrayEqualWithControl is called with

Null == <<"null">>
Object(f) == <<"object", f, << >> >>

(* The elements of an array, the values of an object. *)
Parts(v) == IF v[1] \in {"array", "object"} THEN Range(v[2]) ELSE {}

Flags == {"no_extra", "order_matters", "element_no_extra", "must_exist", "must_not_exist",
          "is_string", "is_number", "is_bool", "is_array", "is_object"}
Ranges == {"number_ge", "number_gt", "number_le", "number_lt"}
ControlNames ==
  Flags \cup Ranges \cup
  {"depth", "element_count", "match", "not_match", "starts_with", "ends_with", "not_equal"}

(* fillComparisonContext fails: an unknown name, or a value of the wrong type
   (which is written as an unknown name here). *)
Malformed(c) == DOMAIN c \ ControlNames # {}

Has(c, name) == name \in DOMAIN c
On(c, name)  == Has(c, name) /\ c[name] = TRUE

(* The type that is asked for: the first in the order of keyChecks. *)
AskedType(c) ==
  IF On(c, "is_string") THEN {"string"}
  ELSE IF On(c, "is_number") \/ DOMAIN c \cap Ranges # {} THEN {"number"}
  ELSE IF On(c, "is_bool")   THEN {"bool"}
  ELSE IF On(c, "is_array")  THEN {"array"}
  ELSE IF On(c, "is_object") THEN {"object"}
  ELSE {}

InRange(c, n) ==
  /\ Has(c, "number_ge") => n >= c["number_ge"]
  /\ Has(c, "number_gt") => n > c["number_gt"]
  /\ Has(c, "number_le") => n <= c["number_le"]
  /\ Has(c, "number_lt") => n < c["number_lt"]

(* Mutant: a key with a value need not exist. *)
keyChecks_NoMustExist(rv, rOK, c, lOK) ==
  /\ AskedType(c) # {} => rv[1] \in AskedType(c)
  /\ On(c, "must_exist") => rOK
  /\ On(c, "must_not_exist") => ~rOK
  /\ Has(c, "not_equal") => rv # c["not_equal"]

(* The actual value rv, Null if the key is missing (~rOK), against the
   control of its key; lOK if the key has an expected value, too. *)
keyChecks(rv, rOK, c, lOK) ==
  /\ AskedType(c) # {} => rv[1] \in AskedType(c)
  /\ lOK \/ On(c, "must_exist") => rOK
  /\ On(c, "must_not_exist") => ~rOK
  /\ Has(c, "element_count") => rv[1] = "array" /\ Len(rv[2]) = c["element_count"]
  /\ DOMAIN c \cap Ranges # {} => rv[1] = "number" /\ InRange(c, rv[2])
  /\ Has(c, "match") => rv \in c["match"]
  /\ Has(c, "not_match") => rv \notin c["not_match"]
  /\ \A name \in DOMAIN c \cap {"starts_with", "ends_with"} :
       rv[1] = "string" /\ rv[2] \in c[name]
  /\ Has(c, "not_equal") => rv # c["not_equal"]

Depth(c) == IF Has(c, "depth") THEN c["depth"] ELSE 0

(* Values are nested finitely deep, and a depth is an integer. *)
ASSUME ValuesAssumption ==
  /\ Height \in [Values -> Nat]
  /\ Null \in Values
  /\ \A v \in Values :
       /\ v[1] = "array" => v = <<"array", v[2]>> /\ v[2] \in Seq(Values)
       /\ v[1] = "object" =>
            \A k \in DOMAIN v[3] : Malformed(v[3][k]) \/ Depth(v[3][k]) \in Int
       /\ \A part \in Parts(v) : part \in Values /\ Height[part] < Height[v]

ASSUME ArgumentsAssumption ==
  /\ \A a \in Expected \cup Actual : <<"array", a>> \in Values
  /\ \A c \in Controls : Depth(c) \in Int

(* What JsonEqual looks at of a control. *)
ComparisonContext == [depth: Int, orderMatters: BOOLEAN, noExtra: BOOLEAN, elementNoExtra: BOOLEAN]

fillComparisonContext(c) ==
  [depth |-> Depth(c), orderMatters |-> On(c, "order_matters"),
   noExtra |-> On(c, "no_extra"), elementNoExtra |-> On(c, "element_no_extra")]

NoDepth == -9999

(* Mutant: -1 is not told from 0. *)
nextDepth_NoFullDepth(depth) == IF depth > 0 THEN depth - 1 ELSE NoDepth

nextDepth(depth) ==
  CASE depth = -1 -> -1 [] depth > 0 -> depth - 1 [] OTHER -> NoDepth

(* What the elements of an array inherit from its control. *)
nextControl(c) ==
  LET depth == nextDepth(c.depth)
  IN  [depth |-> depth, orderMatters |-> depth # NoDepth /\ c.orderMatters,
       noExtra |-> c.elementNoExtra \/ (depth # NoDepth /\ c.noExtra), elementNoExtra |-> FALSE]

(* One key of an expected object; says is what JsonEqual says of the parts. *)
KeyVerdict(says, l, r, k) ==
  LET c   == IF k \in DOMAIN l[3] THEN l[3][k] ELSE << >>
      lOK == k \in DOMAIN l[2]
      rOK == k \in DOMAIN r[2]
      rv  == IF rOK THEN r[2][k] ELSE Null
  IN  IF Malformed(c) THEN "error"
      ELSE IF ~keyChecks(rv, rOK, c, lOK) THEN "unequal"
      ELSE IF lOK THEN says[<<l[2][k], rv, fillComparisonContext(c)>>] ELSE "equal"

(* The keys are looked at in any order and one error is enough. *)
objectComparison(says, l, r, noExtra) ==
  LET keys     == DOMAIN l[2] \cup DOMAIN l[3]
      verdicts == {KeyVerdict(says, l, r, k) : k \in keys}
  IN  IF "error" \in verdicts THEN "error"
      ELSE IF "unequal" \in verdicts \/ (noExtra /\ DOMAIN r[2] \ keys # {}) THEN "unequal"
      ELSE "equal"

(* The two arrays as a problem of ArrayCompare. *)
ProblemOf(says, l, r, c) ==
  LET pairs == (0 .. Len(l) - 1) \X (0 .. Len(r) - 1)
      with(v) == {x \in pairs : says[<<l[x[1] + 1], r[x[2] + 1], nextControl(c)>>] = v}
  IN  [left |-> Len(l), right |-> Len(r), orderMatters |-> c.orderMatters,
       noExtra |-> c.noExtra, match |-> with("equal"), bad |-> with("error")]

(* By the type of the expected value; null is equal to itself alone. *)
Verdict(says, l, r, c) ==
  IF l[1] # r[1] THEN "unequal"
  ELSE CASE l[1] = "object" -> objectComparison(says, l, r, c.noExtra)
         [] l[1] = "array"  -> arrayComparison(ProblemOf(says, l[2], r[2], c))
         [] OTHER -> IF l = r THEN "equal" ELSE "unequal"

(* Of an expected and an actual value and the control of their key. *)
JsonEqual[x \in Values \X Values \X ComparisonContext] == Verdict(JsonEqual, x[1], x[2], x[3])

JsonInit ==
  /\ args \in [l: Expected, r: Actual, c: Controls]
  /\ prob = ProblemOf(JsonEqual, args.l, args.r, fillComparisonContext(args.c))
  /\ Init

JsonSpec == JsonInit /\ [][Next /\ UNCHANGED args]_<<vars, args>>

(***************************************************************************)
(* Properties                                                              *)
(***************************************************************************)

(* No part of the value has a control. *)
Plain[v \in Values] == (v[1] = "object" => v[3] = << >>) /\ \A part \in Parts(v) : Plain[part]

(* What an expectation asks of a value at least: its keys, and a partner of
   its own for each element of an array. *)
Covers(within, l, r) ==
  CASE l[1] = "object" /\ r[1] = "object" ->
         \A k \in DOMAIN l[2] : k \in DOMAIN r[2] /\ within[<<l[2][k], r[2][k]>>]
    [] l[1] = "array" /\ r[1] = "array" ->
         \E g \in [DOMAIN l[2] -> DOMAIN r[2]] :
           /\ IsInjective(g)
           /\ \A i \in DOMAIN g : within[<<l[2][i], r[2][g[i]]>>]
    [] OTHER -> l = r

ContainedIn(l, r) ==
  LET within[x \in Values \X Values] == Covers(within, x[1], x[2]) IN within[<<l, r>>]

(* comparer.go:27: an expectation passes only if the actual value contains it,
   missing keys and null told apart, whatever the controls in it and above it;
   and one without controls in it passes for itself. *)
PlainVerdict ==
  pc = "done" =>
    /\ equal => ContainedIn(<<"array", args.l>>, <<"array", args.r>>)
    /\ Plain[<<"array", args.l>>] /\ args.l = args.r => equal

OnlyArrays[v \in Values] == v[1] # "object" /\ \A part \in Parts(v) : OnlyArrays[part]

(* README.md:1111, comparison_functions.go:467: order_matters and no_extra at
   full depth leave nothing to choose: arrays of arrays pass only if they are
   the same.  At depth N this is so for the first N levels below the top. *)
FullDepthIsIdentity ==
  pc = "done" /\ OnlyArrays[<<"array", args.l>>]
    /\ On(args.c, "order_matters") /\ On(args.c, "no_extra") /\ Depth(args.c) = -1 =>
    equal = (args.l = args.r)
=============================================================================
