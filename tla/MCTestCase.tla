----------------------------- MODULE MCTestCase -----------------------------
(* Instances of TestCase for TLC. *)
EXTENDS TestCase

CONSTANTS ok, wait, bad, json, binary, xslt

MCResponses == {ok, wait, bad}

Plain(S) == [format |-> NoFormat, accepts |-> Formats \X S]

BaseCase ==
  [ hasRequest |-> TRUE, timeout |-> 0, format |-> json, expect |-> {ok},
    breaks |-> << >>, hasCollect |-> FALSE, collect |-> << >>, reverse |-> FALSE ]

BreakLists   == {<< >>, <<Plain({bad})>>, <<Plain({wait}), Plain({ok, bad})>>}
CollectLists == {<< >>, <<Plain({wait}), Plain({ok})>>,
                 <<Plain({wait}), Plain({bad}), Plain({ok})>>}

(* Every combination of timeout, break responses, collect list and reversal,
   in one format; "ok" may itself be a break response. *)
PollCases ==
  { [BaseCase EXCEPT !.timeout = t, !.breaks = b, !.reverse = rev] :
      t \in {-2, -1, 0, 2}, b \in BreakLists, rev \in BOOLEAN }
  \cup
  { [BaseCase EXCEPT !.timeout = t, !.breaks = b, !.hasCollect = TRUE,
                     !.collect = c, !.reverse = rev] :
      t \in {-2, -1, 0, 2}, b \in BreakLists, c \in CollectLists, rev \in BOOLEAN }
  \cup
  { [BaseCase EXCEPT !.hasRequest = FALSE, !.reverse = rev] : rev \in BOOLEAN }

(* A break response with a format followed by one without, or before it, and collect
   lists that mix formats in either order. *)
FormatCases ==
  { [BaseCase EXCEPT !.timeout = 2,
       !.breaks = << [format |-> f, accepts |-> {<<binary, wait>>}],
                     [format |-> NoFormat, accepts |-> {<<json, bad>>}] >>,
       !.hasCollect = c, !.collect = IF c THEN << [format |-> g, accepts |-> {<<g, ok>>}],
                     [format |-> NoFormat, accepts |-> {<<json, wait>>, <<binary, ok>>}] >> ELSE << >>] :
      f \in {binary, xslt}, g \in {json, binary}, c \in BOOLEAN }

Backwards(es) == [i \in DOMAIN es |-> es[Len(es) + 1 - i]]

AllCases ==
  PollCases \cup FormatCases
    \cup { [x EXCEPT !.breaks = Backwards(@), !.collect = Backwards(@)] : x \in FormatCases }
=============================================================================
