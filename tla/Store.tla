------------------------------- MODULE Store --------------------------------
(***************************************************************************)
(* The custom storage of pkg/lib/datastore, used by the clones of one test *)
(* case that run in parallel (api_testcase.go, api_testsuite.go).          *)
(*                                                                         *)
(* Set and Get take the lock of the datastore.  Two accesses do without    *)
(* it: delete, which store_response_gjson calls for "!" entries, and the   *)
(* template that ranges over the map it was given for "-".  A Go map does  *)
(* not bear that: if the accesses overlap, the process dies ("concurrent   *)
(* map writes"), or, unnoticed, each of them takes effect.                 *)
(*                                                                         *)
(* The responses kept by the same datastore are part of Suite.             *)
(***************************************************************************)
EXTENDS Integers, Sequences, SequencesExt

CONSTANTS
  Clones,      \* the parallel runs of the case
  Keys,        \* names in the storage
  StoreMap,    \* "store" of the case: entries [key, form]
  Reads,       \* keys used by the templates of request and response
  Gjson,       \* "store_response_gjson": entries [key, form, bang]
  MaxAttempts  \* bound: requests per case

(* "k", "k[]" and "k[m]"; "-" asks for everything. *)
Forms   == {"plain", "list", "map"}
Entries == [key: Keys, form: Forms]

ASSUME ConstantsAssumption ==
  /\ StoreMap \subseteq Entries
  /\ Reads \subseteq [key: Keys, form: Forms \cup {"all"}]
  /\ Gjson \subseteq [key: Keys, form: Forms, bang: BOOLEAN]
  /\ MaxAttempts \in Nat \ {0}

Absent  == [kind |-> "absent"]
Scalar  == [kind |-> "scalar"]
ListOf(s) == [kind |-> "list", items |-> s]
Mapping == [kind |-> "map"]

VARIABLES
  hasRequest, \* the case has a request
  storage,   \* the custom storage: key -> value, a list with who pushed what
  readers,   \* clones that hold the lock for reading
  pc,        \* clone -> what it does
  stage,     \* clone -> where in the case it is
  todo,      \* clone -> entries of the stage not yet done
  item,      \* clone -> the entry in hand
  seen,      \* clone -> what Set found under the key
  attempts,  \* clone -> requests made
  fatal,     \* the Go runtime has ended the process
  pushed     \* history: key -> values pushed since the key was overwritten

vars == <<hasRequest, storage, readers, pc, stage, todo, item, seen, attempts, fatal, pushed>>

NoEntry == [key |-> "", form |-> "none"]

Init ==
  /\ hasRequest \in BOOLEAN
  /\ storage = [k \in Keys |-> Absent]
  /\ readers = {}
  /\ pc = [c \in Clones |-> "next"]
  /\ stage = [c \in Clones |-> "store"]
  /\ todo = [c \in Clones |-> StoreMap]
  /\ item = [c \in Clones |-> NoEntry]
  /\ seen = [c \in Clones |-> Absent]
  /\ attempts = [c \in Clones |-> 0]
  /\ fatal = FALSE
  /\ pushed = [k \in Keys |-> << >>]

Goto(c, s, entries) ==
  /\ stage' = [stage EXCEPT ![c] = s]
  /\ todo' = [todo EXCEPT ![c] = entries]
  /\ UNCHANGED pc

Finish(c) == pc' = [pc EXCEPT ![c] = "done"] /\ UNCHANGED <<stage, todo>>

(* The case sets its "store", and once more before each request; then come the
   templates, the answer, which may be an error, and what is stored of it. *)
NextStage(c) ==
  /\ ~fatal /\ pc[c] = "next" /\ todo[c] = {}
  /\ \/ stage[c] = "store" /\ ~hasRequest /\ Finish(c)
     \/ stage[c] = "store" /\ hasRequest /\ Goto(c, "again", StoreMap)
     \/ stage[c] = "again" /\ Goto(c, "load", Reads)
     \/ stage[c] = "load" /\ Goto(c, "answer", Gjson)
     \/ stage[c] = "load" /\ Finish(c)
     \/ stage[c] = "answer" /\ attempts[c] < MaxAttempts - 1 /\ Goto(c, "again", StoreMap)
     \/ stage[c] = "answer" /\ Finish(c)
  /\ attempts' = [attempts EXCEPT ![c] = IF stage[c] = "answer" THEN @ + 1 ELSE @]
  /\ UNCHANGED <<hasRequest, storage, readers, item, seen, fatal, pushed>>

(* The entry e of a Go map is next; maps are ranged over in any order. *)
Pick(c, e) ==
  /\ ~fatal /\ pc[c] = "next" /\ e \in todo[c]
  /\ todo' = [todo EXCEPT ![c] = @ \ {e}]

Hold(c, e) == item' = [item EXCEPT ![c] = e]

(* Mutant: Set takes the lock for reading, too. *)
MayWrite_Shared == TRUE

(* Lock returns. *)
MayWrite == readers = {} /\ \A c \in Clones : pc[c] # "set"

SetBegin(c, e) ==
  /\ stage[c] \in {"store", "again", "answer"}
  /\ Pick(c, e) /\ Hold(c, e)
  /\ MayWrite
  /\ pc' = [pc EXCEPT ![c] = "set"]
  /\ seen' = [seen EXCEPT ![c] = storage[e.key]]
  /\ UNCHANGED <<hasRequest, storage, readers, stage, attempts, fatal, pushed>>

(* What "k", "k[]" or "k[m]" makes of the value found: a list is appended to,
   anything else is replaced.  What "k" is set to counts as no list. *)
Stored(old, form, value) ==
  CASE form = "list" /\ old.kind = "list" -> ListOf(Append(old.items, value))
    [] form = "list" /\ old.kind # "list" -> ListOf(<<value>>)
    [] form = "map" -> Mapping
    [] form = "plain" -> Scalar

SetEnd(c) ==
  /\ ~fatal /\ pc[c] = "set"
  /\ LET k == item[c].key
         f == item[c].form
     IN  /\ storage' = [storage EXCEPT ![k] = Stored(seen[c], f, c)]
         /\ pushed' = [pushed EXCEPT ![k] = IF f = "list" THEN Append(@, c) ELSE << >>]
  /\ pc' = [pc EXCEPT ![c] = "next"]
  /\ seen' = [seen EXCEPT ![c] = Absent]
  /\ Hold(c, NoEntry)
  /\ UNCHANGED <<hasRequest, readers, stage, todo, attempts, fatal>>

(* The gjson path leads nowhere: the entry is passed over, or deletes its
   key, a form like "k[]" being no key of the storage then. *)
NotFound(c, e) ==
  /\ stage[c] = "answer"
  /\ Pick(c, e)
  /\ ~e.bang
  /\ UNCHANGED <<hasRequest, storage, readers, pc, stage, item, seen, attempts, fatal, pushed>>

DeleteBegin(c, e) ==
  /\ stage[c] = "answer"
  /\ Pick(c, e) /\ Hold(c, e)
  /\ e.bang
  /\ pc' = [pc EXCEPT ![c] = "delete"]
  /\ UNCHANGED <<hasRequest, storage, readers, stage, seen, attempts, fatal, pushed>>

DeleteEnd(c) ==
  /\ ~fatal /\ pc[c] = "delete"
  /\ LET gone == {k \in Keys : k = item[c].key /\ item[c].form = "plain"}
     IN  /\ storage' = [k \in Keys |-> IF k \in gone THEN Absent ELSE storage[k]]
         /\ pushed' = [k \in Keys |-> IF k \in gone THEN << >> ELSE pushed[k]]
  /\ pc' = [pc EXCEPT ![c] = "next"]
  /\ Hold(c, NoEntry)
  /\ UNCHANGED <<hasRequest, readers, stage, todo, seen, attempts, fatal>>

(* RLock returns. *)
GetBegin(c, e) ==
  /\ stage[c] = "load"
  /\ Pick(c, e) /\ Hold(c, e)
  /\ \A d \in Clones : pc[d] # "set"
  /\ readers' = readers \cup {c}
  /\ pc' = [pc EXCEPT ![c] = "get"]
  /\ UNCHANGED <<hasRequest, storage, stage, seen, attempts, fatal, pushed>>

(* "k[m]" or "k[0]" of an unknown key is an error, as is "k[m]" of a list;
   the case ends with it. *)
GetFails(e) ==
  \/ e.form \in {"list", "map"} /\ storage[e.key] = Absent
  \/ e.form = "map" /\ storage[e.key].kind = "list"

(* For "-" it is the map itself that is returned, and so it is for a key that
   holds a map. *)
LiveMap(e) == e.form = "all" \/ (e.form = "plain" /\ storage[e.key] = Mapping)

(* Mutant: the lock is kept when there is an error to return. *)
GetEnd_KeepsLock(c) ==
  /\ ~fatal /\ pc[c] = "get"
  /\ readers' = IF GetFails(item[c]) THEN readers ELSE readers \ {c}
  /\ pc' = [pc EXCEPT ![c] = IF GetFails(item[c]) THEN "done"
                             ELSE IF LiveMap(item[c]) THEN "walk" ELSE "next"]
  /\ Hold(c, IF LiveMap(item[c]) THEN item[c] ELSE NoEntry)
  /\ UNCHANGED <<hasRequest, storage, stage, todo, seen, attempts, fatal, pushed>>

GetEnd(c) ==
  /\ ~fatal /\ pc[c] = "get"
  /\ readers' = readers \ {c}
  /\ pc' = [pc EXCEPT ![c] = IF GetFails(item[c]) THEN "done"
                             ELSE IF LiveMap(item[c]) THEN "walk" ELSE "next"]
  /\ Hold(c, IF LiveMap(item[c]) THEN item[c] ELSE NoEntry)
  /\ UNCHANGED <<hasRequest, storage, stage, todo, seen, attempts, fatal, pushed>>

(* The template is through with the map. *)
WalkEnd(c) ==
  /\ ~fatal /\ pc[c] = "walk"
  /\ pc' = [pc EXCEPT ![c] = "next"]
  /\ Hold(c, NoEntry)
  /\ UNCHANGED <<hasRequest, storage, readers, stage, todo, seen, attempts, fatal, pushed>>

(* Two clones are in the same map at a time, c to change it. *)
Overlap(c, d) ==
  /\ c # d
  /\ \/ pc[c] = "delete" /\ pc[d] \in {"set", "delete", "get"}
     \/ pc[c] \in {"delete", "set"} /\ pc[d] = "walk" /\ item[d].form = "all"
     \/ pc[c] = "set" /\ item[c].form = "map" /\ pc[d] = "walk" /\ item[d].key = item[c].key

Clash(c, d) ==
  /\ ~fatal /\ Overlap(c, d)
  /\ fatal' = TRUE
  /\ UNCHANGED <<hasRequest, storage, readers, pc, stage, todo, item, seen, attempts, pushed>>

Step(c) ==
  \/ NextStage(c) \/ SetEnd(c) \/ DeleteEnd(c) \/ GetEnd(c) \/ WalkEnd(c)
  \/ \E e \in todo[c] : SetBegin(c, e) \/ NotFound(c, e) \/ DeleteBegin(c, e) \/ GetBegin(c, e)

Next ==
  \/ \E c \in Clones : Step(c)
  \/ \E c, d \in Clones : Clash(c, d)

(* A goroutine goes on as long as it can.  What it waits for, a lock, is given
   back after finitely many steps of others, so weak fairness is enough. *)
Spec == Init /\ [][Next]_vars /\ \A c \in Clones : WF_vars(Step(c))

(***************************************************************************)
(* Properties                                                              *)
(***************************************************************************)

(* Every variable of the store and its users keeps its type, and the lock is
   held by one writer or by readers. *)
TypeOK ==
  /\ \A k \in Keys : \/ storage[k] \in {Absent, Scalar, Mapping}
                     \/ storage[k].kind = "list" /\ storage[k].items \in Seq(Clones)
  /\ readers = {c \in Clones : pc[c] = "get"}
  /\ \A c \in Clones : pc[c] = "set" => readers = {} /\ \A d \in Clones : pc[d] = "set" => d = c
  /\ pc \in [Clones -> {"next", "set", "get", "walk", "delete", "done"}]
  /\ stage \in [Clones -> {"store", "again", "load", "answer"}]
  /\ \A c \in Clones : todo[c] \subseteq StoreMap \cup Reads \cup Gjson
  /\ attempts \in [Clones -> 0 .. MaxAttempts]
  /\ fatal \in BOOLEAN /\ hasRequest \in BOOLEAN

(* datastore.go:137-161, test/parallel/direct/check_collected_responses.json:
   what parallel clones push to a list is all in it, in the order of the
   pushes, until the key is overwritten or deleted; an unlocked delete may at
   worst fail to take effect. *)
NoPushLost ==
  \A k \in Keys : pushed[k] # << >> =>
    storage[k].kind = "list" /\ IsSuffix(pushed[k], storage[k].items)

(* datastore.go:137-138, 193-194: whatever Set and Get return, they give back
   the lock, and so each clone ends, if the process lives. *)
ClonesEnd == <>(fatal \/ \A c \in Clones : pc[c] = "done")

(* README.md:573: a test can run in parallel to itself; so it may use all that
   its documentation offers without ending the process. *)
NeverFatal == ~fatal
=============================================================================
