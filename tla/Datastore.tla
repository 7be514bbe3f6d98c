------------------------------ MODULE Datastore ------------------------------
(***************************************************************************)
(* The whole datastore: the custom storage of Store and the list of        *)
(* responses beside it, as the parallel clones of a case use them.         *)
(*                                                                         *)
(* The responses are a Go slice: a header, of a pointer and a length, to   *)
(* an array that append replaces by a larger one when it is full.  Get has *)
(* a value receiver: the header is copied when Get is called, before it    *)
(* waits for the lock, and by two separate reads.  So the copy may be old, *)
(* or half of it may be, when the list is read with it.                    *)
(***************************************************************************)
EXTENDS Store

CONSTANTS
  Indexes,   \* the templates of the case ask for one of these responses
  Earlier    \* number of responses that the cases before it have stored

ASSUME ResponsesAssumption == Indexes \subseteq Int /\ Earlier \in Nat

VARIABLES
  arrays,  \* the arrays allocated so far
  header,  \* which of them holds the list, and its length
  kept,    \* clone -> responses it has stored
  asks,    \* clone -> its templates have yet to ask for a response
  get      \* clone -> its call of Get for a response, if it is in one

responseVars == <<arrays, header, kept, asks, get>>
dvars == <<vars, responseVars>>

Blank    == [by |-> "nobody"]    \* the empty string, in the unused part of an array
Garbage  == [by |-> "memory"]    \* whatever is found behind the end of an array
NotFoundError == [by |-> "error"]
EarlierResponse(i) == [by |-> "earlier", poll |-> i]
Response(c) == [by |-> c, poll |-> kept[c] + 1]

Idle   == [at |-> "idle"]
Failed == [at |-> "failed"]

InGet(c) == get[c].at \notin {"idle", "failed"}

(* append doubles the array when it is full. *)
Doubled(size) == IF size = 0 THEN 1 ELSE 2 * size

Capacity(n) ==
  LET size[m \in 0 .. n] ==
        IF m = 0 THEN 0
        ELSE IF m <= size[m - 1] THEN size[m - 1] ELSE Doubled(size[m - 1])
  IN  size[n]

DatastoreInit ==
  /\ Init
  /\ arrays = <<[i \in 1 .. Capacity(Earlier) |->
                  IF i <= Earlier THEN EarlierResponse(i) ELSE Blank]>>
  /\ header = [array |-> 1, len |-> Earlier]
  /\ kept = [c \in Clones |-> 0]
  /\ asks = [c \in Clones |-> FALSE]
  /\ get = [c \in Clones |-> Idle]

(***************************************************************************)
(* Get                                                                     *)
(***************************************************************************)

(* Mutant: the bounds are those of a list that is one longer. *)
Lookup_OffByOne(i, array, len) ==
  LET at == IF i < 0 THEN i + len + 1 ELSE i
  IN  CASE at < 0 \/ at > len -> NotFoundError
        [] at \in 0 .. len /\ at < Len(arrays[array]) -> arrays[array][at + 1]
        [] at \in 0 .. len /\ at >= Len(arrays[array]) -> Garbage

(* The bounds are checked against the length that was copied. *)
Lookup(i, array, len) ==
  LET at == IF i < 0 THEN i + len ELSE i
  IN  CASE at < 0 \/ at >= len -> NotFoundError
        [] at \in 0 .. len - 1 /\ at < Len(arrays[array]) -> arrays[array][at + 1]
        [] at \in 0 .. len - 1 /\ at >= Len(arrays[array]) -> Garbage

Responses == SubSeq(arrays[header.array], 1, header.len)

(* What index i stands for in the list l. *)
EntryAt(l, i) ==
  CASE i \in 0 .. Len(l) - 1 -> l[i + 1]
    [] i \in -Len(l) .. -1   -> l[Len(l) + i + 1]
    [] OTHER                 -> NotFoundError

(* The history of a call: whether the entry was there when it began, whether
   the list has grown since, and what a call in between would have returned. *)
Call(i) ==
  [at |-> "called", index |-> i, array |-> 0, len |-> 0, there |-> i \in 0 .. header.len - 1,
   grown |-> FALSE, recent |-> {EntryAt(Responses, i)}]

GetCall(c, i) ==
  /\ ~fatal /\ pc[c] = "next" /\ stage[c] = "load" /\ get[c] = Idle
  /\ asks[c]
  /\ asks' = [asks EXCEPT ![c] = FALSE]
  /\ get' = [get EXCEPT ![c] = Call(i)]
  /\ UNCHANGED <<vars, arrays, header, kept>>

(* The receiver is copied, pointer and length in any order. *)
CopyReceiver(c) ==
  /\ ~fatal
  /\ \/ get[c].at = "called" /\ get' = [get EXCEPT ![c].array = header.array, ![c].at = "array"]
     \/ get[c].at = "called" /\ get' = [get EXCEPT ![c].len = header.len, ![c].at = "len"]
     \/ get[c].at = "array"  /\ get' = [get EXCEPT ![c].len = header.len, ![c].at = "copied"]
     \/ get[c].at = "len" /\ get' = [get EXCEPT ![c].array = header.array, ![c].at = "copied"]
  /\ UNCHANGED <<vars, arrays, header, kept, asks>>

Found(c) == Lookup(get[c].index, get[c].array, get[c].len)

(* RLock returns, and Get as well; an error ends the case. *)
GetResponse(c) ==
  /\ ~fatal /\ get[c].at = "copied"
  /\ \A d \in Clones : pc[d] # "set"
  /\ get' = [get EXCEPT ![c] = IF Found(c) = NotFoundError THEN Failed ELSE Idle]
  /\ UNCHANGED <<vars, arrays, header, kept, asks>>

(***************************************************************************)
(* AppendResponse and UpdateLastResponse                                   *)
(***************************************************************************)

Full == header.len = Len(arrays[header.array])

Grow(array) ==
  [i \in 1 .. Doubled(Len(array)) |-> IF i <= Len(array) THEN array[i] ELSE Blank]

AppendResponse(s) ==
  LET at    == header.len + 1
      array == arrays[header.array]
  IN  /\ header' = [array |-> IF Full THEN Len(arrays) + 1 ELSE header.array, len |-> at]
      /\ arrays' = IF Full THEN Append(arrays, [Grow(array) EXCEPT ![at] = s])
                           ELSE [arrays EXCEPT ![header.array][at] = s]

(* In place: whoever has a copy of the header of this array sees it. *)
UpdateLastResponse(s) ==
  /\ arrays' = [arrays EXCEPT ![header.array][header.len] = s]
  /\ UNCHANGED header

(* The calls of Get that are under way take note of the change. *)
Noted ==
  get' = [d \in Clones |->
            IF ~InGet(d) THEN get[d]
            ELSE [get[d] EXCEPT !.grown = @ \/ header' # header,
                                !.recent = @ \cup {EntryAt(Responses', get[d].index)}]]

(* The end of executeRequest, once the entries of the response are stored. *)
StoreResponse(c) ==
  /\ ~fatal /\ pc[c] = "next" /\ stage[c] = "answer" /\ todo[c] = {}
  /\ kept[c] = attempts[c]
  /\ MayWrite
  /\ IF attempts[c] = 0 THEN AppendResponse(Response(c)) ELSE UpdateLastResponse(Response(c))
  /\ Noted
  /\ kept' = [kept EXCEPT ![c] = @ + 1]
  /\ UNCHANGED <<vars, asks>>

(***************************************************************************)
(* The composition                                                         *)
(***************************************************************************)

(* A step of Store, for which a clone waits until its response is stored, or
   its templates have been given what they ask for. *)
StorageStep(c) ==
  /\ get[c] = Idle
  /\ Step(c)
  /\ stage'[c] # stage[c] /\ stage[c] = "load" => ~asks[c]
  /\ attempts'[c] # attempts[c] => kept[c] = attempts[c] + 1
  /\ asks' = [asks EXCEPT ![c] = @ \/ (stage'[c] = "load" /\ stage[c] # "load")]
  /\ UNCHANGED <<arrays, header, kept, get>>

CloneStep(c) ==
  \/ StorageStep(c)
  \/ \E i \in Indexes : GetCall(c, i)
  \/ CopyReceiver(c) \/ GetResponse(c) \/ StoreResponse(c)

DatastoreNext ==
  \/ \E c \in Clones : CloneStep(c)
  \/ \E c, d \in Clones : Clash(c, d) /\ UNCHANGED responseVars

DatastoreSpec ==
  DatastoreInit /\ [][DatastoreNext]_dvars /\ \A c \in Clones : WF_dvars(CloneStep(c))

(***************************************************************************)
(* Properties                                                              *)
(***************************************************************************)

ResponseType ==
  {Blank} \cup [by: Clones, poll: 1 .. MaxAttempts] \cup {EarlierResponse(i) : i \in 1 .. Earlier}

(* Every variable of the list of responses keeps its type. *)
ResponsesTypeOK ==
  /\ \A k \in DOMAIN arrays : arrays[k] \in Seq(ResponseType)
  /\ header.array = Len(arrays) /\ header.len \in 0 .. Len(arrays[header.array])
  /\ \A c \in Clones : kept[c] \in attempts[c] .. attempts[c] + 1 /\ asks[c] \in BOOLEAN

(* datastore.go:192: although Get reads the list with a header that it has
   copied without the lock, it returns what the entry was at some time since it
   was called: for an entry that was there by then, under its index from the
   start of the list, whatever other clones store meanwhile; and for any index
   as long as the list does not grow. *)
ReadsAreRecent ==
  \A c \in Clones :
    get[c].at = "copied" /\ (get[c].there \/ ~get[c].grown) => Found(c) \in get[c].recent

(* datastore.go:90,98,137,193: the storage and the responses share one lock;
   a clone that uses both is never left waiting for it, if the process
   lives. *)
CasesEnd == <>(fatal \/ \A c \in Clones : pc[c] = "done" \/ get[c] = Failed)
=============================================================================
