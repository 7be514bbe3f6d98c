--------------------------- MODULE HttpProxyStore ---------------------------
(***************************************************************************)
(* A store of the HTTP server's proxy: internal/httpproxy/store.go.        *)
(*                                                                         *)
(* net/http serves every connection in a goroutine of its own and the      *)
(* store has no lock.  write takes the offset, then reads the body from    *)
(* the network, then appends; append itself loads the slice and stores a   *)
(* longer one.  Two writers between load and store race for one slot: if   *)
(* the backing array has room both wrote to it, so the slot may hold the   *)
(* entry of either.  read loads the slice once for the count and once more *)
(* for the entry.  Walkers go through the store by the                     *)
(* X-Apitest-Proxy-Store-Next-Offset header they get.                      *)
(***************************************************************************)
EXTENDS Integers, Sequences

CONSTANTS
  Writers,     \* clients that write
  Walkers,     \* clients that read one entry after the other
  Visitors,    \* clients that read at any offset
  Requests,    \* what they write
  Offsets,     \* offsets the visitors ask for
  MaxEntries   \* bound on the number of writes

ASSUME ProxyAssumption == /\ MaxEntries \in Nat
                          /\ Offsets \subseteq Int
                          /\ Requests # {}
                          /\ Walkers \cap Visitors = {}

Readers == Walkers \cup Visitors

VARIABLES
  Data,     \* st.Data
  wpc,      \* where each write handler stands
  offset,   \* its offset
  request,  \* its reqData
  view,     \* the slice its append has loaded
  writes,   \* number of writes begun
  acked,    \* history: the entries answered with 200 and their offset
  rpc,      \* where each read handler stands
  roffset,  \* the offset asked for
  count,    \* the count it read
  next,     \* the next offset its client was given last
  status,   \* its last answer: "none", 200, 400, or "panic"
  seen      \* history: the entries its client was given

writeVars == <<wpc, offset, request, view, writes, acked>>
readVars  == <<rpc, roffset, count, next, status, seen>>
vars == <<Data, writeVars, readVars>>

(* Mutant: positions counted from 1. *)
StoreEntry_OneBased(o, r) == [index |-> o + 1, payload |-> r]

StoreEntry(o, r) == [index |-> o, payload |-> r]

AnyRequest == CHOOSE r \in Requests : TRUE

Init ==
  /\ Data = << >>
  /\ wpc = [w \in Writers |-> "idle"]
  /\ offset = [w \in Writers |-> 0]
  /\ request = [w \in Writers |-> AnyRequest]
  /\ view = [w \in Writers |-> << >>]
  /\ writes = 0
  /\ acked = {}
  /\ rpc = [c \in Readers |-> "idle"]
  /\ roffset = [c \in Readers |-> 0]
  /\ count = [c \in Readers |-> 0]
  /\ next = [c \in Readers |-> 0]
  /\ status = [c \in Readers |-> "none"]
  /\ seen = [c \in Readers |-> {}]

(***************************************************************************)
(* write                                                                   *)
(***************************************************************************)

(* offset := len(st.Data), before the body is read. *)
WriteBegin(w, r) ==
  /\ wpc[w] = "idle"
  /\ writes < MaxEntries
  /\ writes' = writes + 1
  /\ offset' = [offset EXCEPT ![w] = Len(Data)]
  /\ request' = [request EXCEPT ![w] = r]
  /\ wpc' = [wpc EXCEPT ![w] = "body"]
  /\ UNCHANGED <<Data, view, acked, readVars>>

BodyError(w) ==
  /\ wpc[w] = "body"
  /\ wpc' = [wpc EXCEPT ![w] = "idle"]
  /\ UNCHANGED <<Data, offset, request, view, writes, acked, readVars>>

(* The body is complete and append loads st.Data. *)
AppendLoad(w) ==
  /\ wpc[w] = "body"
  /\ view' = [view EXCEPT ![w] = Data]
  /\ wpc' = [wpc EXCEPT ![w] = "append"]
  /\ UNCHANGED <<Data, offset, request, writes, acked, readVars>>

EntryOf(w) == StoreEntry(offset[w], request[w])

(* The writers whose append goes to the same slot as that of w. *)
Racing(w) == {v \in Writers : wpc[v] = "append" /\ Len(view[v]) = Len(view[w])}

(* append stores the slice, and the client gets its offset. *)
AppendStore(w) ==
  /\ wpc[w] = "append"
  /\ \E v \in Racing(w) : Data' = Append(view[w], EntryOf(v))
  /\ acked' = acked \cup {EntryOf(w)}
  /\ wpc' = [wpc EXCEPT ![w] = "idle"]
  /\ UNCHANGED <<offset, request, view, writes, readVars>>

(***************************************************************************)
(* read                                                                    *)
(***************************************************************************)

(* What follows the offset: back to 0 after the last entry.  Mutant: back one
   entry too early. *)
NextOffset_Early(c) == IF roffset[c] + 1 >= count[c] - 1 THEN 0 ELSE roffset[c] + 1
NextOffset(c)       == IF roffset[c] + 1 >= count[c] THEN 0 ELSE roffset[c] + 1

ReadBegin(c, o) ==
  /\ rpc[c] = "idle"
  /\ roffset' = [roffset EXCEPT ![c] = o]
  /\ count' = [count EXCEPT ![c] = Len(Data)]
  /\ rpc' = [rpc EXCEPT ![c] = IF o >= count'[c] THEN "idle" ELSE "entry"]
  /\ status' = [status EXCEPT ![c] = IF o >= count'[c] THEN "400" ELSE "none"]
  /\ UNCHANGED <<Data, writeVars, next, seen>>

ReadEntry(c) ==
  /\ rpc[c] = "entry"
  /\ IF roffset[c] \in 0 .. Len(Data) - 1
       THEN /\ status' = [status EXCEPT ![c] = "200"]
            /\ next' = [next EXCEPT ![c] = NextOffset(c)]
            /\ seen' = [seen EXCEPT ![c] = @ \cup {Data[roffset[c] + 1]}]
       ELSE status' = [status EXCEPT ![c] = "panic"] /\ UNCHANGED <<next, seen>>
  /\ rpc' = [rpc EXCEPT ![c] = "idle"]
  /\ UNCHANGED <<Data, writeVars, roffset, count>>

WriteStep(w) == BodyError(w) \/ AppendLoad(w) \/ AppendStore(w)

(* A walker asks for the offset it was told last. *)
WalkStep(c) == ReadBegin(c, next[c]) \/ ReadEntry(c)

Next ==
  \/ \E w \in Writers : WriteStep(w) \/ \E r \in Requests : WriteBegin(w, r)
  \/ \E c \in Walkers : WalkStep(c)
  \/ \E c \in Visitors : ReadEntry(c) \/ \E o \in Offsets : ReadBegin(c, o)

Spec == Init /\ [][Next]_vars

(* net/http keeps serving the clients that walk through the store. *)
FairSpec ==
  /\ Spec
  /\ \A c \in Walkers : WF_vars(WalkStep(c))
  /\ \A w \in Writers : WF_vars(WriteStep(w))

(***************************************************************************)
(* Properties                                                              *)
(***************************************************************************)

EntryType == [index: Nat, payload: Requests]

(* Every variable of the store and its handlers keeps its type. *)
TypeOK ==
  /\ Data \in Seq(EntryType)
  /\ wpc \in [Writers -> {"idle", "body", "append"}]
  /\ offset \in [Writers -> Nat]
  /\ request \in [Writers -> Requests]
  /\ view \in [Writers -> Seq(EntryType)]
  /\ writes \in 0 .. MaxEntries
  /\ acked \subseteq EntryType
  /\ rpc \in [Readers -> {"idle", "entry"}]
  /\ roffset \in [Readers -> Int]
  /\ count \in [Readers -> Nat] /\ next \in [Readers -> Nat]
  /\ status \in [Readers -> {"none", "200", "400", "panic"}]
  /\ seen \in [Readers -> SUBSET EntryType]

(* store.go:66 and README.md:3003 ("the used offset as body"): a request that
   was answered with an offset is what a read at that offset returns. *)
WrittenAtItsOffset ==
  \A e \in acked : e.index < Len(Data) /\ Data[e.index + 1] = e

(* store.go:96: while no write races with another, only a negative offset
   escapes the check and makes the handler panic. *)
OnlyNegativePanics == \A c \in Readers : status[c] = "panic" => roffset[c] < 0

(* With one writer at a time the store is an append-only log. *)
Log == INSTANCE AppendLog WITH Payloads <- Requests, entries <- Data
ImplementsLog == Log!LogSpec

(* store.go:102: a client that follows the next offset, back to 0 at the end,
   gets to see every request that was acknowledged, also while others write
   and read. *)
EveryRequestRead == \A o \in 0 .. MaxEntries - 1, r \in Requests, c \in Walkers :
  StoreEntry(o, r) \in acked ~> StoreEntry(o, r) \in seen[c]
=============================================================================
