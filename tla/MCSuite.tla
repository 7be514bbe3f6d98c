------------------------------- MODULE MCSuite -------------------------------
(* Instances of Suite for TLC. *)
EXTENDS Suite

CONSTANTS flat, nest, refuse, skip

MCFiles == {flat, nest, refuse, skip}

CaseItem(cont, req) == [kind |-> "case", cont |-> cont, request |-> req]
RefItem(f, n)       == [kind |-> "ref", file |-> f, runs |-> n]

(* One case that polls; a forgiven case and a nested file; a nested parallel
   run, which is refused; a reference with 0 runs and a case that only stores
   values. *)
MCContent ==
  (flat   :> << CaseItem(FALSE, TRUE) >>) @@
  (nest   :> << CaseItem(TRUE, FALSE), RefItem(flat, 1) >>) @@
  (refuse :> << RefItem(flat, 2) >>) @@
  (skip   :> << RefItem(flat, 0), CaseItem(FALSE, FALSE) >>)

T(f, n) == [file |-> f, runs |-> n]

MCTests ==
  { << >>,
    << T(flat, 0), T(skip, 1) >>,
    << T(skip, 2), T(refuse, 1) >>,
    << T(flat, 2), T(flat, 1) >>,
    << T(nest, 2) >>,
    << T(nest, 1), T(nest, 1) >> }

Started(mail, web) == [smtp |-> mail, http |-> web, keepRunning |-> FALSE,
                       taken |-> {}, unreached |-> {}]

(* Both servers; one to be interrupted; one in test mode; an HTTP port that
   another process has; addresses that are never reached. *)
MCConfigs ==
  { Started(TRUE, "background"),
    [Started(TRUE, "none") EXCEPT !.keepRunning = TRUE],
    [Started(TRUE, "testmode") EXCEPT !.taken = {"http"}],
    [Started(FALSE, "background") EXCEPT !.taken = {"http"}],
    [Started(TRUE, "background") EXCEPT !.unreached = {"http"}],
    [Started(TRUE, "none") EXCEPT !.unreached = {"smtp"}] }
=============================================================================
