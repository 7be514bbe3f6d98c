--------------------------- MODULE Datastore_proofs ---------------------------
(***************************************************************************)
(* Proofs about the datastore, for any number of clones, any keys, any     *)
(* entries and indexes of the case and any responses stored before it.     *)
(*                                                                         *)
(* The custom storage first.  Set looks at the list and writes it back in  *)
(* two steps.  The invariant says that what it saw is not outdated while   *)
(* it holds the lock: the list still ends in the values pushed, unless the *)
(* key was deleted meanwhile.                                              *)
(*                                                                         *)
(* The datastore with its list of responses is then an implementation of   *)
(* the custom storage: the clones' steps on the responses change nothing   *)
(* of Store, and their steps on the storage are steps of Store.  So what   *)
(* is proved of Store holds for the whole.                                 *)
(*                                                                         *)
(* The responses last.  A call of Get holds a header that may be old: the  *)
(* invariant says what is still true of the array it points to.            *)
(***************************************************************************)
EXTENDS Datastore, SequenceTheorems, NaturalsInduction, WellFoundedInduction, TLAPS

(***************************************************************************)
(* The custom storage                                                      *)
(***************************************************************************)

(* Reverse keeps the length and the elements. *)
LEMMA ReverseProperties ==
  ASSUME NEW S, NEW s \in Seq(S)
  PROVE  /\ Reverse(s) \in Seq(S)
         /\ Len(Reverse(s)) = Len(s)
         /\ \A i \in 1 .. Len(s) : Reverse(s)[i] = s[Len(s) - i + 1]
<1>1. Len(s) \in Nat /\ \A i \in 1 .. Len(s) : s[Len(s) - i + 1] \in S
  <2>1. Len(s) \in Nat
    OBVIOUS
  <2>2. ASSUME NEW i \in 1 .. Len(s) PROVE s[Len(s) - i + 1] \in S
    <3>1. Len(s) - i + 1 \in 1 .. Len(s)
      BY <2>1
    <3> QED
      BY <3>1, ElementOfSeq
  <2> QED
    BY <2>1, <2>2
<1> QED
  BY <1>1 DEF Reverse

(* What it means to be a suffix, in terms of indexes. *)
LEMMA SuffixByIndex ==
  ASSUME NEW S, NEW s \in Seq(S), NEW t \in Seq(S)
  PROVE  IsSuffix(s, t) <=>
           Len(s) <= Len(t) /\ \A i \in 1 .. Len(s) : s[i] = t[Len(t) - Len(s) + i]
<1> DEFINE rs == Reverse(s)
           rt == Reverse(t)
<1>0. Len(s) \in Nat /\ Len(t) \in Nat
  OBVIOUS
<1>1. /\ rs \in Seq(S) /\ Len(rs) = Len(s)
      /\ rt \in Seq(S) /\ Len(rt) = Len(t)
      /\ \A i \in 1 .. Len(s) : rs[i] = s[Len(s) - i + 1]
      /\ \A i \in 1 .. Len(t) : rt[i] = t[Len(t) - i + 1]
  BY ReverseProperties
<1> SUFFICES ASSUME Len(s) <= Len(t)
             PROVE  IsSuffix(s, t) <=> \A i \in 1 .. Len(s) : s[i] = t[Len(t) - Len(s) + i]
  BY <1>1 DEF IsSuffix, IsPrefix
<1> HIDE DEF rs, rt
<1>2. /\ SubSeq(rs, 1, Len(s)) \in Seq(S) /\ Len(SubSeq(rs, 1, Len(s))) = Len(s)
      /\ \A i \in 1 .. Len(s) : SubSeq(rs, 1, Len(s))[i] = rs[i]
  BY <1>0, <1>1, SubSeqProperties, ElementOfSeq
<1>3. /\ SubSeq(rt, 1, Len(s)) \in Seq(S) /\ Len(SubSeq(rt, 1, Len(s))) = Len(s)
      /\ \A i \in 1 .. Len(s) : SubSeq(rt, 1, Len(s))[i] = rt[i]
  BY <1>0, <1>1, SubSeqProperties, ElementOfSeq
<1>4. SubSeq(rs, 1, Len(s)) = SubSeq(rt, 1, Len(s)) <=> \A i \in 1 .. Len(s) : rs[i] = rt[i]
  BY <1>2, <1>3, SeqEqual
<1>5. IsSuffix(s, t) <=> \A i \in 1 .. Len(s) : rs[i] = rt[i]
  BY <1>1, <1>4 DEF IsSuffix, IsPrefix, rs, rt
<1>6. ASSUME \A i \in 1 .. Len(s) : rs[i] = rt[i], NEW i \in 1 .. Len(s)
      PROVE  s[i] = t[Len(t) - Len(s) + i]
  <2>1. Len(s) - i + 1 \in 1 .. Len(s) /\ Len(s) - i + 1 \in 1 .. Len(t)
    BY <1>0
  <2>2. /\ Len(s) - (Len(s) - i + 1) + 1 = i
        /\ Len(t) - (Len(s) - i + 1) + 1 = Len(t) - Len(s) + i
    BY <1>0
  <2>3. rs[Len(s) - i + 1] = rt[Len(s) - i + 1]
    BY <1>6, <2>1
  <2>4. /\ rs[Len(s) - i + 1] = s[Len(s) - (Len(s) - i + 1) + 1]
        /\ rt[Len(s) - i + 1] = t[Len(t) - (Len(s) - i + 1) + 1]
    BY <1>1, <2>1
  <2> QED
    BY <2>2, <2>3, <2>4
<1>7. ASSUME \A i \in 1 .. Len(s) : s[i] = t[Len(t) - Len(s) + i], NEW i \in 1 .. Len(s)
      PROVE  rs[i] = rt[i]
  <2>1. Len(s) - i + 1 \in 1 .. Len(s) /\ i \in 1 .. Len(t)
    BY <1>0
  <2>2. Len(t) - Len(s) + (Len(s) - i + 1) = Len(t) - i + 1
    BY <1>0
  <2> QED
    BY <1>1, <1>7, <2>1, <2>2
<1> QED
  BY <1>5, <1>6, <1>7

(* Appending to both keeps a suffix a suffix. *)
LEMMA SuffixAppend ==
  ASSUME NEW S, NEW s \in Seq(S), NEW t \in Seq(S), NEW x \in S,
         s # << >> => IsSuffix(s, t)
  PROVE  IsSuffix(Append(s, x), Append(t, x))
<1>0. Len(s) \in Nat /\ Len(t) \in Nat
  OBVIOUS
<1>1. Len(s) <= Len(t) /\ \A i \in 1 .. Len(s) : s[i] = t[Len(t) - Len(s) + i]
  <2>1. CASE s = << >>
    BY <1>0, <2>1
  <2>2. CASE s # << >>
    BY <2>2, SuffixByIndex
  <2> QED
    BY <2>1, <2>2
<1> DEFINE sx == Append(s, x)
           tx == Append(t, x)
<1>2. /\ sx \in Seq(S) /\ Len(sx) = Len(s) + 1
      /\ tx \in Seq(S) /\ Len(tx) = Len(t) + 1
      /\ sx[Len(s) + 1] = x /\ tx[Len(t) + 1] = x
      /\ \A i \in 1 .. Len(s) : sx[i] = s[i]
      /\ \A i \in 1 .. Len(t) : tx[i] = t[i]
  BY AppendProperties
<1> HIDE DEF sx, tx
<1>3. ASSUME NEW i \in 1 .. Len(sx) PROVE sx[i] = tx[Len(tx) - Len(sx) + i]
  <2>1. CASE i = Len(s) + 1
    <3>1. Len(tx) - Len(sx) + i = Len(t) + 1
      BY <1>0, <1>2, <2>1
    <3> QED
      BY <1>2, <2>1, <3>1
  <2>2. CASE i # Len(s) + 1
    <3>1. i \in 1 .. Len(s)
      BY <1>0, <1>2, <2>2
    <3>2. Len(tx) - Len(sx) + i = Len(t) - Len(s) + i
      BY <1>0, <1>2, <3>1
    <3>3. Len(t) - Len(s) + i \in 1 .. Len(t)
      BY <1>0, <1>1, <3>1
    <3> QED
      BY <1>1, <1>2, <3>1, <3>2, <3>3
  <2> QED
    BY <2>1, <2>2
<1>4. Len(sx) <= Len(tx)
  BY <1>0, <1>1, <1>2
<1>5. IsSuffix(sx, tx)
  BY <1>2, <1>3, <1>4, SuffixByIndex
<1> QED
  BY <1>5 DEF sx, tx

(* A sequence is a suffix of itself. *)
LEMMA SuffixOfItself ==
  ASSUME NEW S, NEW s \in Seq(S)
  PROVE  IsSuffix(s, s)
<1>1. Len(s) \in Nat /\ \A i \in 1 .. Len(s) : Len(s) - Len(s) + i = i
  OBVIOUS
<1> QED
  BY <1>1, SuffixByIndex

(***************************************************************************)
(* The invariant                                                           *)
(***************************************************************************)

IsValue(v) == v \in {Absent, Scalar, Mapping} \/ \E s \in Seq(Clones) : v = ListOf(s)

EndsIn(v, s) == s # << >> => v.kind = "list" /\ IsSuffix(s, v.items)

(* Of the values, it is the lists that the property is about. *)
LEMMA ListEndsIn ==
  ASSUME NEW s \in Seq(Clones), NEW t, t # << >> => IsSuffix(t, s)
  PROVE  IsValue(ListOf(s)) /\ EndsIn(ListOf(s), t)
<1>1. ListOf(s).kind = "list" /\ ListOf(s).items = s
  BY DEF ListOf
<1> QED
  BY <1>1 DEF IsValue, EndsIn

Typed ==
  /\ storage = [k \in Keys |-> storage[k]]
  /\ \A k \in Keys : IsValue(storage[k])
  /\ pc \in [Clones -> {"next", "set", "get", "walk", "delete", "done"}]
  /\ stage \in [Clones -> {"store", "again", "load", "answer"}]
  /\ todo \in [Clones -> SUBSET (StoreMap \cup Reads \cup Gjson)]
  /\ item = [c \in Clones |-> item[c]]
  /\ seen = [c \in Clones |-> seen[c]]
  /\ attempts \in [Clones -> Nat]
  /\ fatal \in BOOLEAN /\ hasRequest \in BOOLEAN
  /\ pushed \in [Keys -> Seq(Clones)]

(* What is left to do belongs to the stage, and there is a request left. *)
InStage ==
  \A c \in Clones :
    /\ stage[c] \in {"store", "again"} => todo[c] \subseteq StoreMap
    /\ stage[c] = "answer" => todo[c] \subseteq Gjson
    /\ attempts[c] <= MaxAttempts
    /\ pc[c] # "done" => attempts[c] < MaxAttempts

Locked ==
  /\ readers = {c \in Clones : pc[c] = "get"}
  /\ \A c \in Clones : pc[c] = "set" => readers = {} /\ \A d \in Clones : pc[d] = "set" => d = c

(* The entry in hand can be stored, and what was seen is not outdated. *)
InHand ==
  \A c \in Clones :
    /\ pc[c] = "set" =>
         /\ item[c].key \in Keys /\ item[c].form \in Forms
         /\ IsValue(seen[c])
         /\ EndsIn(seen[c], pushed[item[c].key])

Kept == \A k \in Keys : EndsIn(storage[k], pushed[k])

StoreInvariant == Typed /\ InStage /\ Locked /\ InHand /\ Kept

(* Nothing is stored, pushed, locked or held at the start. *)
LEMMA InitStore == Init => StoreInvariant
<1> SUFFICES ASSUME Init PROVE StoreInvariant
  OBVIOUS
<1>1. Typed
  <2>1. storage = [k \in Keys |-> storage[k]] /\ \A k \in Keys : IsValue(storage[k])
    BY DEF Init, IsValue
  <2>2. pushed \in [Keys -> Seq(Clones)]
    BY DEF Init
  <2>3. todo \in [Clones -> SUBSET (StoreMap \cup Reads \cup Gjson)]
    BY DEF Init
  <2> QED
    BY <2>1, <2>2, <2>3 DEF Init, Typed
<1>2. InStage
  BY ConstantsAssumption DEF Init, InStage
<1>3. Locked /\ InHand /\ Kept
  BY DEF Init, Locked, InHand, Kept, EndsIn
<1> QED
  BY <1>1, <1>2, <1>3 DEF StoreInvariant

(* The end of Set: what it writes back ends in what was pushed. *)
LEMMA SetEndStep ==
  ASSUME StoreInvariant, NEW c \in Clones, SetEnd(c)
  PROVE  StoreInvariant'
<1> DEFINE k == item[c].key
           f == item[c].form
           new == Stored(seen[c], f, c)
           log == IF f = "list" THEN Append(pushed[k], c) ELSE << >>
<1>1. /\ pc[c] = "set" /\ k \in Keys /\ f \in Forms
      /\ IsValue(seen[c]) /\ EndsIn(seen[c], pushed[k])
      /\ pushed[k] \in Seq(Clones)
  BY DEF SetEnd, StoreInvariant, InHand, Typed
<1>2. IsValue(new) /\ EndsIn(new, log) /\ log \in Seq(Clones)
  <2>1. CASE f = "plain"
    BY <2>1 DEF Stored, IsValue, EndsIn
  <2>2. CASE f = "map"
    BY <2>2 DEF Stored, IsValue, EndsIn
  <2>3. CASE f = "list" /\ seen[c].kind = "list"
    <3>1. PICK s \in Seq(Clones) : seen[c] = ListOf(s)
      BY <1>1, <2>3 DEF IsValue, Absent, Scalar, Mapping
    <3>2. new = ListOf(Append(s, c)) /\ log = Append(pushed[k], c)
      BY <2>3, <3>1 DEF Stored, ListOf
    <3>3. pushed[k] # << >> => IsSuffix(pushed[k], s)
      BY <1>1, <3>1 DEF EndsIn, ListOf
    <3>4. IsSuffix(Append(pushed[k], c), Append(s, c))
      BY <1>1, <3>3, SuffixAppend
    <3>5. Append(s, c) \in Seq(Clones) /\ Append(pushed[k], c) \in Seq(Clones)
      BY <1>1
    <3> QED
      BY <3>2, <3>4, <3>5, ListEndsIn
  <2>4. CASE f = "list" /\ seen[c].kind # "list"
    <3>1. pushed[k] = << >>
      BY <1>1, <2>4 DEF EndsIn
    <3>2. new = ListOf(<<c>>) /\ log = <<c>>
      BY <2>4, <3>1 DEF Stored
    <3>3. <<c>> \in Seq(Clones)
      OBVIOUS
    <3>4. IsSuffix(<<c>>, <<c>>)
      BY <3>3, SuffixOfItself
    <3> QED
      BY <3>2, <3>3, <3>4, ListEndsIn
  <2> QED
    BY <1>1, <2>1, <2>2, <2>3, <2>4 DEF Forms
<1> HIDE DEF new, log
<1>3. /\ storage' = [storage EXCEPT ![k] = new]
      /\ pushed' = [pushed EXCEPT ![k] = log]
      /\ pc' = [pc EXCEPT ![c] = "next"]
      /\ seen' = [seen EXCEPT ![c] = Absent]
      /\ item' = [item EXCEPT ![c] = NoEntry]
      /\ UNCHANGED <<hasRequest, readers, stage, todo, attempts, fatal>>
  BY DEF SetEnd, Hold, new, log
<1>4. \A d \in Clones : pc[d] = "set" => d = c
  BY <1>1 DEF StoreInvariant, Locked
<1>5. Typed'
  BY <1>1, <1>2, <1>3 DEF StoreInvariant, Typed
<1>6. InStage'
  BY <1>1, <1>3 DEF StoreInvariant, InStage, Typed
<1>7. Locked' /\ InHand'
  BY <1>1, <1>3, <1>4 DEF StoreInvariant, Locked, InHand, Typed
<1>8. Kept'
  BY <1>1, <1>2, <1>3 DEF StoreInvariant, Kept, Typed
<1> QED
  BY <1>5, <1>6, <1>7, <1>8 DEF StoreInvariant

(* Set takes the lock: nobody else is in Get or Set, and it sees what is
   stored now. *)
LEMMA SetBeginStep ==
  ASSUME StoreInvariant, NEW c \in Clones, NEW e \in todo[c], SetBegin(c, e)
  PROVE  StoreInvariant'
<1>1. e.key \in Keys /\ e.form \in Forms
  BY ConstantsAssumption DEF SetBegin, StoreInvariant, InStage, Entries
<1>2. /\ pc[c] = "next" /\ readers = {} /\ \A d \in Clones : pc[d] # "set"
      /\ todo' = [todo EXCEPT ![c] = @ \ {e}]
      /\ item' = [item EXCEPT ![c] = e]
      /\ pc' = [pc EXCEPT ![c] = "set"]
      /\ seen' = [seen EXCEPT ![c] = storage[e.key]]
      /\ UNCHANGED <<hasRequest, storage, readers, stage, attempts, fatal, pushed>>
  BY DEF SetBegin, Pick, Hold, MayWrite
<1>3. Typed'
  BY <1>2 DEF StoreInvariant, Typed
<1>4. InStage'
  BY <1>2 DEF StoreInvariant, InStage, Typed
<1>5. Locked'
  BY <1>2 DEF StoreInvariant, Locked, Typed
<1>6. InHand'
  <2>1. IsValue(storage[e.key]) /\ EndsIn(storage[e.key], pushed[e.key])
    BY <1>1 DEF StoreInvariant, Typed, Kept
  <2>2. \A d \in Clones : pc'[d] = "set" => d = c
    BY <1>2 DEF StoreInvariant, Typed
  <2>3. item'[c] = e /\ seen'[c] = storage[e.key]
    BY <1>2 DEF StoreInvariant, Typed
  <2> QED
    BY <1>1, <1>2, <2>1, <2>2, <2>3 DEF InHand
<1>7. Kept'
  BY <1>2 DEF StoreInvariant, Kept
<1> QED
  BY <1>3, <1>4, <1>5, <1>6, <1>7 DEF StoreInvariant

(* A delete forgets what was pushed, whatever a Set in progress has seen. *)
LEMMA DeleteEndStep ==
  ASSUME StoreInvariant, NEW c \in Clones, DeleteEnd(c)
  PROVE  StoreInvariant'
<1>1. PICK gone \in SUBSET Keys :
        /\ storage' = [k \in Keys |-> IF k \in gone THEN Absent ELSE storage[k]]
        /\ pushed' = [k \in Keys |-> IF k \in gone THEN << >> ELSE pushed[k]]
  <2> DEFINE G == {k \in Keys : k = item[c].key /\ item[c].form = "plain"}
  <2>1. /\ storage' = [k \in Keys |-> IF k \in G THEN Absent ELSE storage[k]]
        /\ pushed' = [k \in Keys |-> IF k \in G THEN << >> ELSE pushed[k]]
    BY DEF DeleteEnd
  <2> HIDE DEF G
  <2>2. G \in SUBSET Keys
    BY DEF G
  <2> QED
    BY <2>1, <2>2
<1>2. /\ pc[c] = "delete"
      /\ pc' = [pc EXCEPT ![c] = "next"]
      /\ item' = [item EXCEPT ![c] = NoEntry]
      /\ UNCHANGED <<hasRequest, readers, stage, todo, seen, attempts, fatal>>
  BY DEF DeleteEnd, Hold
<1>3. Typed'
  <2>1. \A k \in Keys : IsValue(storage'[k])
    BY <1>1 DEF StoreInvariant, Typed, IsValue
  <2>2. pushed' \in [Keys -> Seq(Clones)]
    BY <1>1 DEF StoreInvariant, Typed
  <2> QED
    BY <1>1, <1>2, <2>1, <2>2 DEF StoreInvariant, Typed
<1>4. InStage' /\ Locked'
  BY <1>2 DEF StoreInvariant, InStage, Locked, Typed
<1>5. InHand'
  <2> SUFFICES ASSUME NEW d \in Clones, pc'[d] = "set"
               PROVE  /\ item'[d].key \in Keys /\ item'[d].form \in Forms
                      /\ IsValue(seen'[d])
                      /\ EndsIn(seen'[d], pushed'[item'[d].key])
    BY DEF InHand
  <2>1. d # c /\ pc[d] = "set" /\ item'[d] = item[d] /\ seen'[d] = seen[d]
    BY <1>2 DEF StoreInvariant, Typed
  <2>2. pushed'[item[d].key] \in {pushed[item[d].key], << >>} /\ item[d].key \in Keys
    BY <1>1, <2>1 DEF StoreInvariant, InHand
  <2> QED
    BY <2>1, <2>2 DEF StoreInvariant, InHand, EndsIn
<1>6. Kept'
  BY <1>1 DEF StoreInvariant, Kept, EndsIn
<1> QED
  BY <1>3, <1>4, <1>5, <1>6 DEF StoreInvariant

(* The steps that leave the storage alone and let no clone into Set. *)
LEMMA OtherStep ==
  ASSUME StoreInvariant, NEW c \in Clones,
         \/ NextStage(c) \/ GetEnd(c) \/ WalkEnd(c)
         \/ \E e \in todo[c] : NotFound(c, e) \/ DeleteBegin(c, e) \/ GetBegin(c, e)
  PROVE  StoreInvariant'
<1> USE DEF StoreInvariant
<1>1. CASE NextStage(c)
  <2>1. /\ pc[c] = "next" /\ UNCHANGED <<storage, readers, item, seen, fatal, pushed, hasRequest>>
        /\ attempts' = [attempts EXCEPT ![c] = IF stage[c] = "answer" THEN @ + 1 ELSE @]
    BY <1>1 DEF NextStage
  <2>2. CASE Finish(c)
    <3>1. pc' = [pc EXCEPT ![c] = "done"] /\ UNCHANGED <<stage, todo>>
      BY <2>2 DEF Finish
    <3>2. Typed'
      BY <2>1, <3>1 DEF Typed
    <3>3. InStage'
      BY <2>1, <3>1, ConstantsAssumption DEF Typed, InStage
    <3>4. Locked' /\ InHand' /\ Kept'
      BY <2>1, <3>1 DEF Typed, Locked, InHand, Kept
    <3> QED
      BY <3>2, <3>3, <3>4
  <2>3. CASE /\ pc' = pc
             /\ \E s \in {"again", "load", "answer"} :
                  /\ stage' = [stage EXCEPT ![c] = s]
                  /\ s = "again" => todo' = [todo EXCEPT ![c] = StoreMap]
                  /\ s = "load" => todo' = [todo EXCEPT ![c] = Reads]
                  /\ s = "answer" => todo' = [todo EXCEPT ![c] = Gjson]
             /\ stage[c] = "answer" => attempts[c] < MaxAttempts - 1
    <3>1. PICK s \in {"again", "load", "answer"} :
                  /\ stage' = [stage EXCEPT ![c] = s]
                  /\ s = "again" => todo' = [todo EXCEPT ![c] = StoreMap]
                  /\ s = "load" => todo' = [todo EXCEPT ![c] = Reads]
                  /\ s = "answer" => todo' = [todo EXCEPT ![c] = Gjson]
      BY <2>3
    <3>2. Typed'
      <4>1. todo' \in [Clones -> SUBSET (StoreMap \cup Reads \cup Gjson)]
        BY <3>1 DEF Typed
      <4>2. stage' \in [Clones -> {"store", "again", "load", "answer"}]
        BY <3>1 DEF Typed
      <4>3. attempts' \in [Clones -> Nat]
        BY <2>1 DEF Typed
      <4> QED
        BY <2>1, <2>3, <4>1, <4>2, <4>3 DEF Typed
    <3>3. InStage'
      BY <2>1, <2>3, <3>1, ConstantsAssumption DEF Typed, InStage
    <3>4. Locked' /\ InHand' /\ Kept'
      BY <2>1, <2>3 DEF Typed, Locked, InHand, Kept
    <3> QED
      BY <3>2, <3>3, <3>4
  <2> QED
    BY <1>1, <2>2, <2>3 DEF NextStage, Goto
<1>2. CASE GetEnd(c)
  <2>1. PICK next \in {"next", "walk", "done"}, held \in {item[c], NoEntry} :
          /\ pc' = [pc EXCEPT ![c] = next]
          /\ item' = [item EXCEPT ![c] = held]
    BY <1>2 DEF GetEnd, Hold
  <2>2. /\ pc[c] = "get" /\ readers' = readers \ {c}
        /\ UNCHANGED <<hasRequest, storage, stage, todo, seen, attempts, fatal, pushed>>
    BY <1>2 DEF GetEnd
  <2>3. Typed' /\ InStage'
    BY <2>1, <2>2 DEF Typed, InStage
  <2>4. Locked'
    BY <2>1, <2>2 DEF Typed, Locked
  <2>5. InHand' /\ Kept'
    BY <2>1, <2>2 DEF Typed, InHand, Kept
  <2> QED
    BY <2>3, <2>4, <2>5
<1>3. CASE WalkEnd(c)
  <2>1. /\ pc[c] = "walk" /\ pc' = [pc EXCEPT ![c] = "next"]
        /\ item' = [item EXCEPT ![c] = NoEntry]
        /\ UNCHANGED <<hasRequest, storage, readers, stage, todo, seen, attempts, fatal, pushed>>
    BY <1>3 DEF WalkEnd, Hold
  <2>2. Typed' /\ InStage'
    BY <2>1 DEF Typed, InStage
  <2>3. Locked' /\ InHand' /\ Kept'
    BY <2>1 DEF Typed, Locked, InHand, Kept
  <2> QED
    BY <2>2, <2>3
<1>4. CASE \E e \in todo[c] : NotFound(c, e)
  <2>1. PICK e \in todo[c] : NotFound(c, e)
    BY <1>4
  <2>2. /\ todo' = [todo EXCEPT ![c] = @ \ {e}]
        /\ UNCHANGED <<hasRequest, storage, readers, pc, stage, item, seen, attempts, fatal, pushed>>
    BY <2>1 DEF NotFound, Pick
  <2>3. Typed' /\ InStage'
    BY <2>2 DEF Typed, InStage
  <2>4. Locked' /\ InHand' /\ Kept'
    BY <2>2 DEF Locked, InHand, Kept
  <2> QED
    BY <2>3, <2>4
<1>5. CASE \E e \in todo[c] : DeleteBegin(c, e)
  <2>1. PICK e \in todo[c] : DeleteBegin(c, e)
    BY <1>5
  <2>2. /\ pc[c] = "next" /\ pc' = [pc EXCEPT ![c] = "delete"]
        /\ todo' = [todo EXCEPT ![c] = @ \ {e}]
        /\ item' = [item EXCEPT ![c] = e]
        /\ UNCHANGED <<hasRequest, storage, readers, stage, seen, attempts, fatal, pushed>>
    BY <2>1 DEF DeleteBegin, Pick, Hold
  <2>3. Typed' /\ InStage'
    BY <2>2 DEF Typed, InStage
  <2>4. Locked' /\ InHand' /\ Kept'
    BY <2>2 DEF Typed, Locked, InHand, Kept
  <2> QED
    BY <2>3, <2>4
<1>6. CASE \E e \in todo[c] : GetBegin(c, e)
  <2>1. PICK e \in todo[c] : GetBegin(c, e)
    BY <1>6
  <2>2. /\ pc[c] = "next" /\ pc' = [pc EXCEPT ![c] = "get"]
        /\ \A d \in Clones : pc[d] # "set"
        /\ readers' = readers \cup {c}
        /\ todo' = [todo EXCEPT ![c] = @ \ {e}]
        /\ item' = [item EXCEPT ![c] = e]
        /\ UNCHANGED <<hasRequest, storage, stage, seen, attempts, fatal, pushed>>
    BY <2>1 DEF GetBegin, Pick, Hold
  <2>3. Typed' /\ InStage'
    BY <2>2 DEF Typed, InStage
  <2>4. Locked' /\ InHand' /\ Kept'
    BY <2>2 DEF Typed, Locked, InHand, Kept
  <2> QED
    BY <2>3, <2>4
<1> QED
  BY <1>1, <1>2, <1>3, <1>4, <1>5, <1>6

(* Each step of a clone, and the end of the process, preserve the invariant. *)
LEMMA StoreStep == StoreInvariant /\ [Next]_vars => StoreInvariant'
<1> SUFFICES ASSUME StoreInvariant, [Next]_vars PROVE StoreInvariant'
  OBVIOUS
<1>1. ASSUME NEW c \in Clones, Step(c) PROVE StoreInvariant'
  BY <1>1, SetEndStep, SetBeginStep, DeleteEndStep, OtherStep DEF Step
<1>2. ASSUME NEW c \in Clones, NEW d \in Clones, Clash(c, d) PROVE StoreInvariant'
  BY <1>2 DEF Clash, StoreInvariant, Typed, InStage, Locked, InHand, Kept
<1>3. CASE UNCHANGED vars
  BY <1>3 DEF vars, StoreInvariant, Typed, InStage, Locked, InHand, Kept
<1> QED
  BY <1>1, <1>2, <1>3 DEF Next

(* The invariant holds throughout. *)
THEOREM StoreIsInvariant == Spec => []StoreInvariant
  BY InitStore, StoreStep, PTL DEF Spec

(* The types, and the lock: one clone in Set and nobody in Get meanwhile
   (datastore.go:137-138, 193-194). *)
THEOREM Store_TypeCorrect == Spec => []TypeOK
<1>1. StoreInvariant => TypeOK
  <2> SUFFICES ASSUME StoreInvariant PROVE TypeOK
    OBVIOUS
  <2> USE DEF StoreInvariant
  <2>1. ASSUME NEW k \in Keys
        PROVE  \/ storage[k] \in {Absent, Scalar, Mapping}
               \/ storage[k].kind = "list" /\ storage[k].items \in Seq(Clones)
    <3>1. ASSUME NEW s \in Seq(Clones), storage[k] = ListOf(s)
          PROVE  storage[k].kind = "list" /\ storage[k].items \in Seq(Clones)
      BY <3>1 DEF ListOf
    <3> QED
      BY <3>1 DEF Typed, IsValue
  <2>2. attempts \in [Clones -> 0 .. MaxAttempts]
    BY ConstantsAssumption DEF Typed, InStage
  <2> QED
    BY <2>1, <2>2 DEF Typed, Locked, TypeOK
<1> QED
  BY <1>1, StoreIsInvariant, PTL

(* What clones push to a list is all in it, in the order of the pushes, until
   the key is overwritten or deleted (datastore.go:137-161). *)
THEOREM Store_NoPushLost == Spec => []NoPushLost
<1>1. StoreInvariant => NoPushLost
  BY DEF StoreInvariant, Kept, EndsIn, NoPushLost
<1> QED
  BY <1>1, StoreIsInvariant, PTL

(***************************************************************************)
(* The storage as a part of the datastore                                  *)
(***************************************************************************)

(* A step of the datastore is one of the storage, or leaves it as it is. *)
LEMMA DatastoreStep == [DatastoreNext]_dvars => [Next]_vars
<1> SUFFICES ASSUME [DatastoreNext]_dvars PROVE [Next]_vars
  OBVIOUS
<1>1. ASSUME NEW c \in Clones, StorageStep(c) PROVE Next
  BY <1>1 DEF StorageStep, Next
<1>2. ASSUME NEW c \in Clones, \E i \in Indexes : GetCall(c, i) PROVE UNCHANGED vars
  BY <1>2 DEF GetCall
<1>3. ASSUME NEW c \in Clones, CopyReceiver(c) \/ GetResponse(c) PROVE UNCHANGED vars
  BY <1>3 DEF CopyReceiver, GetResponse
<1>4. ASSUME NEW c \in Clones, StoreResponse(c) PROVE UNCHANGED vars
  BY <1>4 DEF StoreResponse
<1>5. ASSUME NEW c \in Clones, NEW d \in Clones, Clash(c, d) PROVE Next
  BY <1>5 DEF Next
<1>6. CASE UNCHANGED dvars
  BY <1>6 DEF dvars
<1> QED
  BY <1>1, <1>2, <1>3, <1>4, <1>5, <1>6 DEF DatastoreNext, CloneStep

(* The composition implements the custom storage (datastore.go:90-98, 137): the
   responses share nothing with it but the lock. *)
THEOREM Datastore_ImplementsStore == DatastoreSpec => Init /\ [][Next]_vars
<1>1. DatastoreInit => Init
  BY DEF DatastoreInit
<1> QED
  BY <1>1, DatastoreStep, PTL DEF DatastoreSpec

(* What clones push to a list is all in it, also while they store and read
   responses (datastore.go:137-161). *)
THEOREM Datastore_NoPushLost == DatastoreSpec => []NoPushLost
<1>1. StoreInvariant => NoPushLost
  BY DEF StoreInvariant, Kept, EndsIn, NoPushLost
<1> QED
  BY <1>1, Datastore_ImplementsStore, InitStore, StoreStep, PTL

(***************************************************************************)
(* Arrays                                                                  *)
(***************************************************************************)

(* A set of natural numbers that is not empty has a least one. *)
LEMMA LeastNat ==
  ASSUME NEW T \in SUBSET Nat, T # {}
  PROVE  \E n \in T : \A m \in T : n <= m
<1> DEFINE R == OpToRel(<, Nat)
<1>1. IsWellFoundedOn(R, Nat)
  BY NatLessThanWellFounded
<1>2. \A m, n \in Nat : m < n => <<m, n>> \in R
  BY DEF OpToRel
<1> HIDE DEF R
<1>3. PICK n \in T : \A m \in T : ~ (<<m, n>> \in R)
  BY <1>1, WFMin
<1>4. ASSUME NEW m \in T PROVE n <= m
  <2>1. m \in Nat /\ n \in Nat
    OBVIOUS
  <2>2. ~(m < n)
    BY <1>2, <1>3, <2>1
  <2> QED
    BY <2>1, <2>2
<1> QED
  BY <1>4

(* What is true of 0, and of each number if it is of the one before, is true
   of all. *)
LEMMA Inductive ==
  ASSUME NEW T \in SUBSET Nat, 0 \in T, \A n \in T : n + 1 \in T
  PROVE  T = Nat
<1> SUFFICES ASSUME T # Nat PROVE FALSE
  OBVIOUS
<1>1. PICK n \in Nat \ T : \A m \in Nat \ T : n <= m
  <2>1. Nat \ T \in SUBSET Nat /\ Nat \ T # {}
    OBVIOUS
  <2> QED
    BY <2>1, LeastNat
<1>2. n # 0 /\ n - 1 \in Nat /\ n - 1 < n /\ (n - 1) + 1 = n
  OBVIOUS
<1>3. n - 1 \in T
  BY <1>1, <1>2
<1> QED
  BY <1>1, <1>2, <1>3

(* The capacity of an array of n entries, which was filled one by one, is large
   enough for them. *)
LEMMA CapacitySuffices ==
  ASSUME NEW n \in Nat
  PROVE  Capacity(n) \in Nat /\ Capacity(n) >= n
<1> DEFINE After(m, f) == IF m = 0 THEN 0 ELSE IF m <= f[m - 1] THEN f[m - 1] ELSE Doubled(f[m - 1])
           Sizes(k) == {f \in [0 .. k -> Nat] : \A m \in 0 .. k : f[m] = After(m, f)}
           IsSize(f) == f = [m \in 0 .. n |-> After(m, f)]
<1>1. Sizes(n) # {}
  <2> DEFINE T == {k \in Nat : Sizes(k) # {}}
  <2>1. Sizes(0) # {}
    <3>1. [m \in 0 .. 0 |-> 0] \in Sizes(0)
      OBVIOUS
    <3> QED
      BY <3>1
  <2>2. ASSUME NEW k \in Nat, NEW old \in Sizes(k) PROVE Sizes(k + 1) # {}
    <3> DEFINE f == [m \in 0 .. k + 1 |-> IF m = k + 1 THEN After(m, old) ELSE old[m]]
    <3>1. f \in [0 .. k + 1 -> Nat]
      BY DEF Doubled
    <3>2. ASSUME NEW m \in 0 .. k + 1 PROVE f[m] = After(m, f)
      OBVIOUS
    <3> QED
      BY <3>1, <3>2
  <2> HIDE DEF Sizes
  <2>3. 0 \in T /\ T \in SUBSET Nat
    BY <2>1
  <2>4. \A k \in T : k + 1 \in T
    BY <2>2
  <2> HIDE DEF T
  <2>5. n \in T
    BY <2>3, <2>4, Inductive
  <2> QED
    BY <2>5 DEF T
<1>2. \E f : IsSize(f)
  <2>1. PICK f \in Sizes(n) : TRUE
    BY <1>1
  <2>2. f = [m \in 0 .. n |-> f[m]] /\ \A m \in 0 .. n : f[m] = After(m, f)
    BY <2>1
  <2> HIDE DEF After
  <2>3. IsSize(f)
    BY <2>2
  <2> QED
    BY <2>3
<1>3. PICK f : IsSize(f) /\ Capacity(n) = f[n]
  <2>1. Capacity(n) = (CHOOSE f : IsSize(f))[n]
    BY DEF Capacity
  <2> HIDE DEF IsSize
  <2> QED
    BY <1>2, <2>1
<1>4. ASSUME NEW m \in Nat PROVE m <= n => f[m] \in Nat /\ f[m] >= m
  <2> DEFINE T == {k \in Nat : k <= n => f[k] \in Nat /\ f[k] >= k}
  <2>1. 0 \in T
    BY <1>3
  <2>2. ASSUME NEW k \in T PROVE k + 1 \in T
    <3>1. k + 1 <= n => f[k + 1] = After(k + 1, f)
      BY <1>3
    <3>2. k + 1 <= n => f[k] \in Nat /\ f[k] >= k
      OBVIOUS
    <3>3. k \in Nat
      OBVIOUS
    <3> QED
      BY <3>1, <3>2, <3>3 DEF Doubled
  <2> HIDE DEF T
  <2>3. T \in SUBSET Nat
    BY DEF T
  <2>4. m \in T
    BY <2>1, <2>2, <2>3, Inductive
  <2> QED
    BY <2>4 DEF T
<1> QED
  BY <1>3, <1>4

(***************************************************************************)
(* The responses                                                           *)
(***************************************************************************)

ResponsesIn(as, h) == SubSeq(as[h.array], 1, h.len)

(* The header is that of the newest array. *)
WellFormed(as, h) ==
  /\ as \in Seq(Seq(ResponseType))
  /\ h.array = Len(as) /\ h.array \in 1 .. Len(as) /\ h.len \in 0 .. Len(as[h.array])

CallType ==
  [at: {"called", "array", "len", "copied"}, index: Indexes, array: Nat, len: Nat,
   there: BOOLEAN, grown: BOOLEAN, recent: SUBSET (ResponseType \cup {NotFoundError})]

(* What a call of Get holds is no longer than the list, and an array in which
   the entry it asks for, if it was there, is as it was since the call: the
   array is the current one, or nobody changes it any more. *)
CallIntact(g, as, h) ==
  /\ EntryAt(ResponsesIn(as, h), g.index) \in g.recent
  /\ g.there => g.index \in 0 .. h.len - 1
  /\ g.at \in {"len", "copied"} =>
       g.len <= h.len /\ (g.there => g.index < g.len) /\ (~g.grown => g.len = h.len)
  /\ g.at \in {"array", "copied"} =>
       /\ g.array \in 1 .. h.array /\ (~g.grown => g.array = h.array)
       /\ g.there => g.index < Len(as[g.array]) /\ as[g.array][g.index + 1] \in g.recent

ResponsesIntact ==
  /\ WellFormed(arrays, header)
  /\ kept \in [Clones -> Nat] /\ asks \in [Clones -> BOOLEAN]
  /\ \A c \in Clones : kept[c] \in attempts[c] .. attempts[c] + 1
  /\ get \in [Clones -> {Idle, Failed} \cup CallType]
  /\ \A c \in Clones : InGet(c) => CallIntact(get[c], arrays, header)

DatastoreInvariant == StoreInvariant /\ ResponsesIntact

(* The entries of a list that is the start of an array. *)
LEMMA EntryOfStart ==
  ASSUME NEW S, NEW a \in Seq(S), NEW n \in 0 .. Len(a), NEW i \in Int
  PROVE  /\ i \in 0 .. n - 1 => EntryAt(SubSeq(a, 1, n), i) = a[i + 1]
         /\ i \in -n .. -1 => EntryAt(SubSeq(a, 1, n), i) = a[n + i + 1]
         /\ i \notin -n .. n - 1 => EntryAt(SubSeq(a, 1, n), i) = NotFoundError
<1>1. Len(SubSeq(a, 1, n)) = n /\ \A j \in 1 .. n : SubSeq(a, 1, n)[j] = a[j]
  BY SubSeqProperties
<1>2. i \in 0 .. n - 1 => i + 1 \in 1 .. n
  OBVIOUS
<1>3. i \in -n .. -1 => n + i + 1 \in 1 .. n
  OBVIOUS
<1> QED
  BY <1>1, <1>2, <1>3 DEF EntryAt

(* So the entries are responses, or there is none. *)
LEMMA EntryIsResponse ==
  ASSUME NEW S, NEW a \in Seq(S), NEW n \in 0 .. Len(a), NEW i \in Int
  PROVE  EntryAt(SubSeq(a, 1, n), i) \in S \cup {NotFoundError}
<1>1. \A j \in 1 .. Len(a) : a[j] \in S
  BY ElementOfSeq
<1>2. CASE i \in 0 .. n - 1
  BY <1>1, <1>2, EntryOfStart
<1>3. CASE i \in -n .. -1
  <2>1. n + i + 1 \in 1 .. Len(a)
    BY <1>3
  <2> QED
    BY <1>1, <1>3, <2>1, EntryOfStart
<1>4. CASE i \notin -n .. n - 1
  BY <1>4, EntryOfStart
<1> QED
  BY <1>2, <1>3, <1>4

(* The array of a header, and its length. *)
LEMMA CurrentArray ==
  ASSUME NEW as, NEW h, WellFormed(as, h)
  PROVE  /\ as[h.array] \in Seq(ResponseType)
         /\ h.array \in Nat /\ h.len \in Nat
         /\ Len(as[h.array]) \in Nat /\ h.len \in 0 .. Len(as[h.array])
<1>1. as[h.array] \in Seq(ResponseType)
  BY ElementOfSeq DEF WellFormed
<1>2. h.len \in 0 .. Len(as[h.array])
  BY DEF WellFormed
<1>3. Len(as[h.array]) \in Nat
  BY <1>1, LenProperties
<1>4. h.array \in Nat
  <2>1. PICK n \in Nat : n = Len(as)
    BY LenProperties DEF WellFormed
  <2>2. h.array \in 1 .. n
    BY <2>1 DEF WellFormed
  <2>3. \A m \in 1 .. n : m \in Nat
    OBVIOUS
  <2> QED
    BY <2>2, <2>3, Zenon
<1>5. h.len \in Nat
  <2>1. \A n \in Nat : \A m \in 0 .. n : m \in Nat
    OBVIOUS
  <2> QED
    BY <1>2, <1>3, <2>1, Zenon
<1> QED
  BY <1>1, <1>2, <1>3, <1>4, <1>5

(* With a header that is not old, Get finds what the index stands for. *)
LEMMA LookupOfCurrent ==
  ASSUME WellFormed(arrays, header), NEW i \in Int
  PROVE  Lookup(i, header.array, header.len) = EntryAt(ResponsesIn(arrays, header), i)
<1> DEFINE a == arrays[header.array]
           n == header.len
<1>1. a \in Seq(ResponseType) /\ n \in 0 .. Len(a) /\ Len(a) \in Nat
  BY CurrentArray
<1> DEFINE e == EntryAt(SubSeq(a, 1, n), i)
<1>2. /\ i \in 0 .. n - 1 => e = a[i + 1]
      /\ i \in -n .. -1 => e = a[n + i + 1]
      /\ i \notin -n .. n - 1 => e = NotFoundError
  BY <1>1, EntryOfStart
<1>3. /\ i \in 0 .. n - 1 => Lookup(i, header.array, n) = a[i + 1]
      /\ i \in -n .. -1 => Lookup(i, header.array, n) = a[n + i + 1]
      /\ i \notin -n .. n - 1 => Lookup(i, header.array, n) = NotFoundError
  BY <1>1 DEF Lookup
<1> HIDE DEF a, n, e
<1>4. Lookup(i, header.array, n) = e
  <2>1. i \in 0 .. n - 1 \/ i \in -n .. -1 \/ i \notin -n .. n - 1
    BY <1>1
  <2> QED
    BY <1>2, <1>3, <2>1
<1> QED
  BY <1>4 DEF ResponsesIn, a, n, e

(* A list that is appended to or changed at its end: what a call of Get holds
   stays intact, as the call takes note of the change. *)
LEMMA CallSurvives ==
  ASSUME NEW as, NEW h, WellFormed(as, h), NEW as2, NEW h2, WellFormed(as2, h2),
         h.array <= h2.array, h.len <= h2.len,
         \A k \in 1 .. h.array : Len(as2[k]) = Len(as[k]) /\ (k # h2.array => as2[k] = as[k]),
         NEW g \in CallType, CallIntact(g, as, h),
         NEW g2 \in CallType, g2.index = g.index, g2.at = g.at, g2.array = g.array,
         g2.len = g.len, g2.there = g.there, ~g2.grown => ~g.grown /\ h2 = h,
         g2.recent = g.recent \cup {EntryAt(ResponsesIn(as2, h2), g.index)}
  PROVE  CallIntact(g2, as2, h2)
<1> DEFINE i == g.index
           e == EntryAt(ResponsesIn(as2, h2), i)
<1>0. /\ h.array \in Nat /\ h.len \in Nat /\ h2.array \in Nat /\ h2.len \in Nat
      /\ i \in Int /\ g.len \in Nat /\ g.array \in Nat
  <2>1. h.array \in Nat /\ h.len \in Nat
    BY CurrentArray
  <2>2. h2.array \in Nat /\ h2.len \in Nat
    BY CurrentArray
  <2>3. i \in Int /\ g.len \in Nat /\ g.array \in Nat
    BY ResponsesAssumption DEF CallType
  <2> QED
    BY <2>1, <2>2, <2>3
<1>1. g.there => i \in 0 .. h2.len - 1
  BY <1>0 DEF CallIntact
<1>2. g.at \in {"len", "copied"} =>
        g.len <= h2.len /\ (g.there => i < g.len) /\ (~g2.grown => g.len = h2.len)
  BY <1>0 DEF CallIntact
<1>3. ASSUME g.at \in {"array", "copied"}
      PROVE  /\ g.array \in 1 .. h2.array /\ (~g2.grown => g.array = h2.array)
             /\ g.there => i < Len(as2[g.array]) /\ as2[g.array][i + 1] \in g2.recent
  <2>1. g.array \in 1 .. h.array /\ (~g.grown => g.array = h.array)
        /\ (g.there => i < Len(as[g.array]) /\ as[g.array][i + 1] \in g.recent)
    BY <1>3 DEF CallIntact
  <2>2. g.array \in 1 .. h2.array /\ (~g2.grown => g.array = h2.array)
    BY <1>0, <2>1
  <2>3. g.there => i < Len(as2[g.array])
    BY <2>1
  <2>4. CASE g.array # h2.array
    BY <2>1, <2>2, <2>3, <2>4
  <2>5. CASE g.array = h2.array
    <3>1. as2[h2.array] \in Seq(ResponseType) /\ h2.len \in 0 .. Len(as2[h2.array])
      BY CurrentArray
    <3>2. g.there => e = as2[h2.array][i + 1]
      BY <1>0, <1>1, <3>1, EntryOfStart DEF ResponsesIn
    <3> QED
      BY <2>2, <2>3, <2>5, <3>2
  <2> QED
    BY <2>4, <2>5
<1> QED
  BY <1>1, <1>2, <1>3 DEF CallIntact

(* Get begins, and its call sees the list as it is. *)
LEMMA GetCallStep ==
  ASSUME ResponsesIntact, NEW c \in Clones, NEW i \in Indexes, GetCall(c, i)
  PROVE  ResponsesIntact'
<1> DEFINE e == EntryAt(ResponsesIn(arrays, header), i)
           g == Call(i)
<1>1. /\ asks' = [asks EXCEPT ![c] = FALSE]
      /\ get' = [get EXCEPT ![c] = g]
      /\ arrays' = arrays /\ header' = header /\ kept' = kept /\ attempts' = attempts
  BY DEF GetCall, vars
<1>2. g = [at |-> "called", index |-> i, array |-> 0, len |-> 0, there |-> i \in 0 .. header.len - 1,
           grown |-> FALSE, recent |-> {e}]
  BY DEF Call, Responses, ResponsesIn
<1>3. e \in ResponseType \cup {NotFoundError}
  <2>1. i \in Int
    BY ResponsesAssumption
  <2> QED
    BY <2>1, CurrentArray, EntryIsResponse DEF ResponsesIntact, ResponsesIn
<1> HIDE DEF e, g
<1>4. g \in CallType
  BY <1>2, <1>3 DEF CallType
<1>5. CallIntact(g, arrays, header)
  BY <1>2 DEF CallIntact, e
<1> QED
  BY <1>1, <1>4, <1>5 DEF ResponsesIntact, InGet

(* The receiver is copied: what is copied is current. *)
LEMMA CopyReceiverStep ==
  ASSUME ResponsesIntact, NEW c \in Clones, CopyReceiver(c)
  PROVE  ResponsesIntact'
<1> DEFINE g == get[c]
<1>1. g.at \in {"called", "array", "len"}
  BY DEF CopyReceiver
<1>2. g \in CallType /\ CallIntact(g, arrays, header)
  <2>1. g \in {Idle, Failed} \cup CallType
    BY DEF ResponsesIntact
  <2> QED
    BY <1>1, <2>1 DEF ResponsesIntact, Idle, Failed, InGet
<1>3. header.array \in Nat /\ header.len \in Nat
  BY CurrentArray DEF ResponsesIntact
<1> DEFINE Taken(g2) ==
             /\ g2 \in CallType /\ g2.index = g.index /\ g2.there = g.there
             /\ g2.grown = g.grown /\ g2.recent = g.recent
             /\ \/ g.at = "called" /\ g2.at = "array" /\ g2.array = header.array
                \/ g.at = "called" /\ g2.at = "len" /\ g2.len = header.len
                \/ g.at = "array" /\ g2.at = "copied" /\ g2.array = g.array /\ g2.len = header.len
                \/ g.at = "len" /\ g2.at = "copied" /\ g2.len = g.len /\ g2.array = header.array
<1>4. PICK g2 : get' = [get EXCEPT ![c] = g2] /\ Taken(g2)
  <2> DEFINE pointer(at) == [g EXCEPT !.array = header.array, !.at = at]
             length(at) == [g EXCEPT !.len = header.len, !.at = at]
  <2>1. CASE g.at = "called" /\ get' = [get EXCEPT ![c].array = header.array, ![c].at = "array"]
    <3>1. get' = [get EXCEPT ![c] = pointer("array")]
      BY <2>1 DEF ResponsesIntact
    <3>2. Taken(pointer("array"))
      BY <1>2, <1>3, <2>1 DEF CallType
    <3> QED
      BY <3>1, <3>2
  <2>2. CASE g.at = "called" /\ get' = [get EXCEPT ![c].len = header.len, ![c].at = "len"]
    <3>1. get' = [get EXCEPT ![c] = length("len")]
      BY <2>2 DEF ResponsesIntact
    <3>2. Taken(length("len"))
      BY <1>2, <1>3, <2>2 DEF CallType
    <3> QED
      BY <3>1, <3>2
  <2>3. CASE g.at = "array" /\ get' = [get EXCEPT ![c].len = header.len, ![c].at = "copied"]
    <3>1. get' = [get EXCEPT ![c] = length("copied")]
      BY <2>3 DEF ResponsesIntact
    <3>2. Taken(length("copied"))
      BY <1>2, <1>3, <2>3 DEF CallType
    <3> QED
      BY <3>1, <3>2
  <2>4. CASE g.at = "len" /\ get' = [get EXCEPT ![c].array = header.array, ![c].at = "copied"]
    <3>1. get' = [get EXCEPT ![c] = pointer("copied")]
      BY <2>4 DEF ResponsesIntact
    <3>2. Taken(pointer("copied"))
      BY <1>2, <1>3, <2>4 DEF CallType
    <3> QED
      BY <3>1, <3>2
  <2> QED
    BY <2>1, <2>2, <2>3, <2>4 DEF CopyReceiver
<1>5. arrays' = arrays /\ header' = header /\ kept' = kept /\ asks' = asks /\ attempts' = attempts
  BY DEF CopyReceiver, vars
<1>6. CallIntact(g2, arrays, header)
  <2>1. header.array \in 1 .. header.array /\ arrays[header.array] \in Seq(ResponseType)
        /\ header.len \in 0 .. Len(arrays[header.array])
    <3>1. header.array \in 1 .. Len(arrays) /\ header.array = Len(arrays)
      BY DEF ResponsesIntact, WellFormed
    <3> QED
      BY <3>1, CurrentArray DEF ResponsesIntact
  <2>2. EntryAt(ResponsesIn(arrays, header), g.index) \in g.recent
    BY <1>2 DEF CallIntact
  <2>3. g.there => g.index < Len(arrays[header.array]) /\ arrays[header.array][g.index + 1] \in g.recent
    <3>1. g.there => g.index \in 0 .. header.len - 1
      BY <1>2 DEF CallIntact
    <3> QED
      BY <1>3, <2>1, <2>2, <3>1, EntryOfStart DEF ResponsesIn
  <2>4. CASE g.at = "called" /\ g2.at = "array" /\ g2.array = header.array
    BY <1>2, <1>4, <2>1, <2>3, <2>4 DEF CallIntact
  <2>5. CASE g.at = "called" /\ g2.at = "len" /\ g2.len = header.len
    BY <1>2, <1>3, <1>4, <2>5 DEF CallIntact
  <2>6. CASE g.at = "array" /\ g2.at = "copied" /\ g2.array = g.array /\ g2.len = header.len
    BY <1>2, <1>3, <1>4, <2>6 DEF CallIntact
  <2>7. CASE g.at = "len" /\ g2.at = "copied" /\ g2.len = g.len /\ g2.array = header.array
    BY <1>2, <1>4, <2>1, <2>3, <2>7 DEF CallIntact
  <2> QED
    BY <1>4, <2>4, <2>5, <2>6, <2>7
<1> QED
  BY <1>4, <1>5, <1>6 DEF ResponsesIntact, InGet

(* An entry of an array is replaced, or nothing if there is no such entry. *)
LEMMA EntryReplaced ==
  ASSUME NEW S, NEW a \in Seq(S), NEW n \in Nat, NEW e \in S
  PROVE  [a EXCEPT ![n] = e] \in Seq(S) /\ Len([a EXCEPT ![n] = e]) = Len(a)
<1> DEFINE b == [j \in 1 .. Len(a) |-> IF j = n THEN e ELSE a[j]]
<1>1. [a EXCEPT ![n] = e] = b
  OBVIOUS
<1>2. Len(a) \in Nat /\ \A j \in 1 .. Len(a) : a[j] \in S
  BY ElementOfSeq
<1>3. b \in [1 .. Len(a) -> S]
  BY <1>2
<1> HIDE DEF b
<1>4. b \in Seq(S) /\ Len(b) = Len(a)
  BY <1>2, <1>3, IsASeq, LenProperties
<1> QED
  BY <1>1, <1>4

(* AppendResponse and UpdateLastResponse keep the list well formed, and change
   no array but the one that is the list then. *)
LEMMA ListChanged ==
  ASSUME WellFormed(arrays, header), NEW e \in ResponseType,
         AppendResponse(e) \/ UpdateLastResponse(e)
  PROVE  /\ WellFormed(arrays', header')
         /\ header.array <= header'.array /\ header.len <= header'.len
         /\ \A k \in 1 .. header.array :
              Len(arrays'[k]) = Len(arrays[k]) /\ (k # header'.array => arrays'[k] = arrays[k])
<1> DEFINE m == header.array
           n == header.len
           a == arrays[m]
           size == Len(a)
           T == Seq(ResponseType)
<1>1. m \in Nat /\ n \in Nat /\ a \in T /\ size \in Nat /\ n \in 0 .. size
  BY CurrentArray
<1>2. arrays \in Seq(T) /\ Len(arrays) = m /\ m \in 1 .. Len(arrays)
  BY DEF WellFormed
<1>3. ASSUME NEW b \in T, Len(b) = size, NEW k \in Nat, k <= size, n <= k,
             arrays' = [arrays EXCEPT ![m] = b], header'.array = m, header'.len = k
      PROVE  /\ WellFormed(arrays', header')
             /\ m <= header'.array /\ n <= header'.len
             /\ \A j \in 1 .. m : Len(arrays'[j]) = Len(arrays[j]) /\ (j # header'.array => arrays'[j] = arrays[j])
  <2>1. /\ arrays' \in Seq(T) /\ Len(arrays') = Len(arrays) /\ arrays'[m] = b
        /\ \A j \in 1 .. m : j # m => arrays'[j] = arrays[j]
    BY <1>2, <1>3, ExceptSeq
  <2>2. k \in 0 .. Len(b)
    BY <1>1, <1>3
  <2>3. WellFormed(arrays', header')
    BY <1>2, <1>3, <2>1, <2>2 DEF WellFormed
  <2>4. \A j \in 1 .. m : Len(arrays'[j]) = Len(arrays[j])
    BY <1>3, <2>1
  <2> QED
    BY <1>1, <1>3, <2>1, <2>3, <2>4
<1>4. CASE AppendResponse(e) /\ Full
  <2> DEFINE b == [Grow(a) EXCEPT ![n + 1] = e]
  <2>1. n = size /\ n + 1 <= Doubled(size) /\ Doubled(size) \in Nat
    BY <1>1, <1>4 DEF Full, Doubled
  <2>2. Grow(a) \in T /\ Len(Grow(a)) = Doubled(size)
    <3>1. Grow(a) \in [1 .. Doubled(size) -> ResponseType]
      <4>1. \A i \in 1 .. size : a[i] \in ResponseType
        BY <1>1, ElementOfSeq
      <4> QED
        BY <1>1, <2>1, <4>1 DEF Grow, ResponseType
    <3> QED
      BY <2>1, <3>1, IsASeq, LenProperties
  <2>3. b \in T /\ Len(b) = Doubled(size)
    BY <1>1, <2>1, <2>2, EntryReplaced
  <2>4. arrays' = Append(arrays, b) /\ header'.array = m + 1 /\ header'.len = n + 1
    BY <1>2, <1>4 DEF AppendResponse
  <2> HIDE DEF b
  <2>5. /\ arrays' \in Seq(T) /\ Len(arrays') = m + 1 /\ arrays'[m + 1] = b
        /\ \A j \in 1 .. m : arrays'[j] = arrays[j]
    BY <1>1, <1>2, <2>3, <2>4, AppendProperties
  <2>6. WellFormed(arrays', header')
    BY <1>1, <2>1, <2>3, <2>4, <2>5 DEF WellFormed
  <2> QED
    BY <1>1, <2>4, <2>5, <2>6
<1>5. CASE AppendResponse(e) /\ ~Full
  <2> DEFINE b == [a EXCEPT ![n + 1] = e]
             k == n + 1
  <2>1. k <= size /\ k \in Nat /\ n <= k
    BY <1>1, <1>5 DEF Full
  <2>2. arrays' = [arrays EXCEPT ![m] = b] /\ header'.array = m /\ header'.len = k
    BY <1>5 DEF AppendResponse
  <2>3. b \in T /\ Len(b) = size
    BY <1>1, <2>1, EntryReplaced
  <2> HIDE DEF b, k
  <2> QED
    BY <1>3, <2>1, <2>2, <2>3
<1>6. CASE UpdateLastResponse(e)
  <2>1. arrays' = [arrays EXCEPT ![m] = [a EXCEPT ![n] = e]] /\ header' = header
    BY <1>6 DEF UpdateLastResponse
  <2> QED
    BY <1>1, <1>3, <2>1, EntryReplaced
<1> QED
  BY <1>4, <1>5, <1>6

(* A response is stored, and the calls of Get that are under way take note. *)
LEMMA StoreResponseStep ==
  ASSUME StoreInvariant, ResponsesIntact, NEW c \in Clones, StoreResponse(c)
  PROVE  ResponsesIntact'
<1> DEFINE s == Response(c)
<1>1. s \in ResponseType
  <2>1. kept[c] = attempts[c] /\ attempts[c] \in Nat /\ attempts[c] < MaxAttempts /\ MaxAttempts \in Nat
    BY ConstantsAssumption DEF StoreResponse, StoreInvariant, Typed, InStage
  <2>2. kept[c] + 1 \in 1 .. MaxAttempts
    BY <2>1
  <2> QED
    BY <2>2 DEF Response, ResponseType
<1>2. AppendResponse(s) \/ UpdateLastResponse(s)
  BY DEF StoreResponse
<1> HIDE DEF s
<1>3. /\ WellFormed(arrays, header) /\ WellFormed(arrays', header')
      /\ header.array <= header'.array /\ header.len <= header'.len
      /\ \A k \in 1 .. header.array :
           Len(arrays'[k]) = Len(arrays[k]) /\ (k # header'.array => arrays'[k] = arrays[k])
  BY <1>1, <1>2, ListChanged DEF ResponsesIntact
<1>4. kept' \in [Clones -> Nat] /\ \A d \in Clones : kept'[d] \in attempts'[d] .. attempts'[d] + 1
  <2>1. kept' = [kept EXCEPT ![c] = @ + 1] /\ attempts' = attempts /\ kept[c] = attempts[c]
    BY DEF StoreResponse, vars
  <2>2. attempts[c] \in Nat
    BY DEF StoreInvariant, Typed
  <2> QED
    BY <2>1, <2>2 DEF ResponsesIntact
<1>5. ASSUME NEW d \in Clones
      PROVE  get'[d] \in {Idle, Failed} \cup CallType /\ (InGet(d)' => CallIntact(get'[d], arrays', header'))
  <2>0. get'[d] = IF ~InGet(d) THEN get[d]
                  ELSE [get[d] EXCEPT !.grown = @ \/ header' # header,
                                      !.recent = @ \cup {EntryAt(Responses', get[d].index)}]
    BY DEF StoreResponse, Noted
  <2>1. CASE ~InGet(d)
    BY <2>0, <2>1 DEF ResponsesIntact, InGet
  <2>2. CASE InGet(d)
    <3> DEFINE g == get[d]
               e == EntryAt(ResponsesIn(arrays', header'), g.index)
               grown == g.grown \/ header' # header
               g2 == [g EXCEPT !.grown = grown, !.recent = g.recent \cup {e}]
    <3>1. g \in CallType /\ CallIntact(g, arrays, header)
      BY <2>2 DEF ResponsesIntact, InGet, Idle, Failed
    <3>2. get'[d] = g2
      BY <2>0, <2>2 DEF Responses, ResponsesIn
    <3>3. e \in ResponseType \cup {NotFoundError}
      <4>1. g.index \in Int
        BY <3>1, ResponsesAssumption DEF CallType
      <4>2. /\ arrays'[header'.array] \in Seq(ResponseType)
            /\ header'.len \in 0 .. Len(arrays'[header'.array])
        BY <1>3, CurrentArray
      <4> QED
        BY <4>1, <4>2, EntryIsResponse DEF ResponsesIn
    <3> HIDE DEF e
    <3>4. /\ g2 \in CallType /\ g2.index = g.index /\ g2.at = g.at /\ g2.array = g.array
          /\ g2.len = g.len /\ g2.there = g.there /\ (~g2.grown => ~g.grown /\ header' = header)
          /\ g2.recent = g.recent \cup {e}
      <4>1. grown \in BOOLEAN
        OBVIOUS
      <4> HIDE DEF grown
      <4>2. g2 \in CallType /\ g2.grown = grown /\ g2.recent = g.recent \cup {e}
        BY <3>1, <3>3, <4>1 DEF CallType
      <4>3. /\ g2.index = g.index /\ g2.at = g.at /\ g2.array = g.array
            /\ g2.len = g.len /\ g2.there = g.there
        BY <3>1 DEF CallType
      <4> QED
        BY <4>2, <4>3 DEF grown
    <3> HIDE DEF g2
    <3>5. CallIntact(g2, arrays', header')
      BY <1>3, <3>1, <3>4, CallSurvives DEF e
    <3> QED
      BY <3>2, <3>4, <3>5
  <2> QED
    BY <2>1, <2>2
<1>6. get' \in [Clones -> {Idle, Failed} \cup CallType]
  <2>1. DOMAIN get' = Clones /\ get' = [d \in Clones |-> get'[d]]
    BY DEF StoreResponse, Noted
  <2> QED
    BY <1>5, <2>1
<1>7. asks' = asks
  BY DEF StoreResponse
<1> QED
  BY <1>3, <1>4, <1>5, <1>6, <1>7 DEF ResponsesIntact

(* A step of the storage takes no response away, and counts a request only if
   its response was stored. *)
LEMMA StorageOnlyStep ==
  ASSUME StoreInvariant, ResponsesIntact, NEW c \in Clones, StorageStep(c)
  PROVE  ResponsesIntact'
<1>1. /\ attempts'[c] # attempts[c] => kept[c] = attempts[c] + 1
      /\ asks' = [asks EXCEPT ![c] = @ \/ (stage'[c] = "load" /\ stage[c] # "load")]
      /\ arrays' = arrays /\ header' = header /\ kept' = kept /\ get' = get
  BY DEF StorageStep
<1>2. attempts' = attempts \/ attempts' = [attempts EXCEPT ![c] = @ + 1]
  <2>1. CASE NextStage(c)
    BY <2>1 DEF NextStage, StoreInvariant, Typed
  <2>2. CASE SetEnd(c) \/ DeleteEnd(c) \/ GetEnd(c) \/ WalkEnd(c)
    BY <2>2 DEF SetEnd, DeleteEnd, GetEnd, WalkEnd
  <2>3. ASSUME NEW e \in todo[c], SetBegin(c, e) \/ NotFound(c, e) \/ DeleteBegin(c, e) \/ GetBegin(c, e)
        PROVE  attempts' = attempts
    BY <2>3 DEF SetBegin, NotFound, DeleteBegin, GetBegin
  <2> QED
    BY <2>1, <2>2, <2>3 DEF StorageStep, Step
<1>3. \A d \in Clones : kept[d] \in attempts'[d] .. attempts'[d] + 1
  <2>1. attempts \in [Clones -> Nat] /\ \A d \in Clones : kept[d] \in attempts[d] .. attempts[d] + 1
    BY DEF ResponsesIntact, StoreInvariant, Typed
  <2>2. CASE attempts' = attempts
    BY <2>1, <2>2
  <2>3. CASE attempts' = [attempts EXCEPT ![c] = @ + 1]
    <3>1. attempts'[c] = attempts[c] + 1 /\ \A d \in Clones : d # c => attempts'[d] = attempts[d]
      BY <2>1, <2>3
    <3>2. attempts[c] \in Nat /\ kept[c] = attempts[c] + 1
      BY <1>1, <2>1, <3>1
    <3> QED
      BY <2>1, <3>1, <3>2
  <2> QED
    BY <1>2, <2>2, <2>3
<1>4. asks' \in [Clones -> BOOLEAN]
  BY <1>1 DEF ResponsesIntact
<1> QED
  BY <1>1, <1>3, <1>4 DEF ResponsesIntact, InGet

(* The list at the start is that of the cases before. *)
LEMMA InitDatastore == DatastoreInit => DatastoreInvariant
<1> SUFFICES ASSUME DatastoreInit PROVE DatastoreInvariant
  OBVIOUS
<1> DEFINE size == Capacity(Earlier)
           a == [i \in 1 .. size |-> IF i <= Earlier THEN EarlierResponse(i) ELSE Blank]
<1>1. size \in Nat /\ Earlier \in 0 .. size /\ Earlier \in Nat
  BY ResponsesAssumption, CapacitySuffices
<1>2. a \in Seq(ResponseType) /\ Len(a) = size
  <2> HIDE DEF size
  <2>1. a \in [1 .. size -> ResponseType]
    BY <1>1 DEF ResponseType
  <2> QED
    BY <1>1, <2>1, IsASeq, LenProperties
<1> HIDE DEF size, a
<1>3. WellFormed(arrays, header)
  <2>1. arrays = <<a>> /\ header.array = 1 /\ header.len = Earlier
    BY DEF DatastoreInit, a, size
  <2>2. arrays \in Seq(Seq(ResponseType)) /\ Len(arrays) = 1 /\ arrays[1] = a
    BY <1>2, <2>1
  <2> QED
    BY <1>1, <1>2, <2>1, <2>2 DEF WellFormed
<1>4. /\ kept = [c \in Clones |-> 0] /\ asks = [c \in Clones |-> FALSE] /\ get = [c \in Clones |-> Idle]
      /\ attempts = [c \in Clones |-> 0]
  BY DEF DatastoreInit, Init
<1> QED
  BY <1>3, <1>4, InitStore DEF DatastoreInvariant, ResponsesIntact, InGet, Idle, DatastoreInit

(* Every step of the datastore keeps the invariant. *)
LEMMA DatastoreInvariantStep == DatastoreInvariant /\ [DatastoreNext]_dvars => DatastoreInvariant'
<1> SUFFICES ASSUME DatastoreInvariant, [DatastoreNext]_dvars PROVE DatastoreInvariant'
  OBVIOUS
<1> USE DEF DatastoreInvariant
<1>1. StoreInvariant'
  BY DatastoreStep, StoreStep
<1>2. ASSUME NEW c \in Clones, GetResponse(c) PROVE ResponsesIntact'
  <2>1. PICK g \in {Idle, Failed} : get' = [get EXCEPT ![c] = g]
    BY <1>2 DEF GetResponse
  <2>2. arrays' = arrays /\ header' = header /\ kept' = kept /\ asks' = asks /\ attempts' = attempts
    BY <1>2 DEF GetResponse, vars
  <2> QED
    BY <2>1, <2>2 DEF ResponsesIntact, InGet, Idle, Failed
<1>3. ASSUME NEW c \in Clones, CloneStep(c) PROVE ResponsesIntact'
  BY <1>2, <1>3, StorageOnlyStep, GetCallStep, CopyReceiverStep, StoreResponseStep DEF CloneStep
<1>4. ASSUME NEW c \in Clones, NEW d \in Clones, Clash(c, d), UNCHANGED responseVars
      PROVE  ResponsesIntact'
  BY <1>4 DEF Clash, responseVars, ResponsesIntact, InGet
<1>5. ASSUME UNCHANGED dvars PROVE ResponsesIntact'
  BY <1>5 DEF dvars, vars, responseVars, ResponsesIntact, InGet
<1> QED
  BY <1>1, <1>3, <1>4, <1>5 DEF DatastoreNext

(* The invariant holds throughout. *)
THEOREM DatastoreIsInvariant == DatastoreSpec => []DatastoreInvariant
  BY InitDatastore, DatastoreInvariantStep, PTL DEF DatastoreSpec

(* Every variable of the list of responses keeps its type, and its header is
   that of the newest array (datastore.go:90-106). *)
THEOREM Datastore_TypeCorrect == DatastoreSpec => []ResponsesTypeOK
<1>1. DatastoreInvariant => ResponsesTypeOK
  <2> SUFFICES ASSUME DatastoreInvariant PROVE ResponsesTypeOK
    OBVIOUS
  <2>1. \A k \in DOMAIN arrays : arrays[k] \in Seq(ResponseType)
    BY ElementOfSeq DEF DatastoreInvariant, ResponsesIntact, WellFormed
  <2>2. header.array = Len(arrays) /\ header.len \in 0 .. Len(arrays[header.array])
    BY DEF DatastoreInvariant, ResponsesIntact, WellFormed
  <2>3. \A c \in Clones : kept[c] \in attempts[c] .. attempts[c] + 1 /\ asks[c] \in BOOLEAN
    BY DEF DatastoreInvariant, ResponsesIntact
  <2> QED
    BY <2>1, <2>2, <2>3 DEF ResponsesTypeOK
<1> QED
  BY <1>1, DatastoreIsInvariant, PTL

(* Although Get reads the list with a header that it copied without the lock,
   it returns what the entry was at some time since it was called
   (datastore.go:192), for any number of clones that store responses meanwhile,
   any index and any length of the list. *)
THEOREM Datastore_ReadsAreRecent == DatastoreSpec => []ReadsAreRecent
<1>1. DatastoreInvariant => ReadsAreRecent
  <2> SUFFICES ASSUME DatastoreInvariant, NEW c \in Clones,
                      get[c].at = "copied", get[c].there \/ ~get[c].grown
               PROVE  Found(c) \in get[c].recent
    BY DEF ReadsAreRecent
  <2> DEFINE g == get[c]
  <2>1. WellFormed(arrays, header) /\ g \in CallType /\ CallIntact(g, arrays, header)
    BY DEF DatastoreInvariant, ResponsesIntact, InGet, Idle, Failed
  <2>2. g.index \in Int /\ g.len \in Nat /\ g.array \in Nat
    BY <2>1, ResponsesAssumption DEF CallType
  <2>3. CASE ~g.grown
    <3>1. g.len = header.len /\ g.array = header.array
      BY <2>1, <2>3 DEF CallIntact
    <3>2. EntryAt(ResponsesIn(arrays, header), g.index) \in g.recent
      BY <2>1 DEF CallIntact
    <3> QED
      BY <2>1, <2>2, <3>1, <3>2, LookupOfCurrent DEF Found
  <2>4. CASE g.there
    <3>1. /\ g.index \in 0 .. header.len - 1 /\ g.index < g.len
          /\ g.index < Len(arrays[g.array]) /\ arrays[g.array][g.index + 1] \in g.recent
      BY <2>1, <2>4 DEF CallIntact
    <3>2. Lookup(g.index, g.array, g.len) = arrays[g.array][g.index + 1]
      BY <2>2, <3>1 DEF Lookup
    <3> QED
      BY <3>1, <3>2 DEF Found
  <2> QED
    BY <2>3, <2>4
<1> QED
  BY <1>1, DatastoreIsInvariant, PTL
=============================================================================
