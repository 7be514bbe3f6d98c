---------------------------- MODULE Loader_proofs ----------------------------
(***************************************************************************)
(* Proofs about the loading of a suite, for any files, any delimiters that *)
(* they declare or are written with, any manifest, and whatever the files  *)
(* load with a host and without it.                                        *)
(*                                                                         *)
(* The stack of frames is the invariant: where each frame's delimiters,    *)
(* host and file come from, and which kinds of frames sit on which.  A     *)
(* rendered file may change the delimiters of its owner, the innermost     *)
(* frame that is not rendered, and of no other; so a frame that has a      *)
(* loader of its own finds below it the loader it was copied from, below a *)
(* file of collect responses if it is an entry of one.                     *)
(***************************************************************************)
EXTENDS Loader, SequenceTheorems, NaturalsInduction, WellFoundedInduction, TLAPS

(***************************************************************************)
(* Numbers and sequences                                                   *)
(***************************************************************************)

(* What is true of 0, and of each number if it is of the one before, is true
   of all. *)
LEMMA Inductive ==
  ASSUME NEW T \in SUBSET Nat, 0 \in T, \A n \in T : n + 1 \in T
  PROVE  T = Nat
<1> SUFFICES ASSUME T # Nat PROVE FALSE
  OBVIOUS
<1> DEFINE R == OpToRel(<, Nat)
           U == Nat \ T
<1>1. IsWellFoundedOn(R, Nat)
  BY NatLessThanWellFounded
<1>2. \A m, n \in Nat : m < n => <<m, n>> \in R
  BY DEF OpToRel
<1> HIDE DEF R
<1>3. U \in SUBSET Nat /\ U # {}
  OBVIOUS
<1>4. PICK n \in U : \A m \in U : ~ (<<m, n>> \in R)
  BY <1>1, <1>3, WFMin
<1>5. n # 0 /\ n \in Nat /\ n - 1 \in Nat /\ n - 1 < n /\ (n - 1) + 1 = n
  BY <1>4
<1>6. n - 1 \in T
  BY <1>2, <1>4, <1>5
<1> QED
  BY <1>4, <1>5, <1>6

(* A sequence is one over its own elements. *)
LEMMA OwnElements ==
  ASSUME NEW S, NEW s \in Seq(S)
  PROVE  s \in Seq(Range(s))
<1>1. DOMAIN s = 1 .. Len(s) /\ Len(s) \in Nat
  BY LenProperties
<1>2. s \in [1 .. Len(s) -> Range(s)]
  BY <1>1, LenProperties DEF Range
<1> QED
  BY <1>1, <1>2, SeqDef

(* An element of a sequence is replaced. *)
LEMMA Replaced ==
  ASSUME NEW s, s \in Seq(Range(s)), NEW k \in 1 .. Len(s), NEW e
  PROVE  LET t == [s EXCEPT ![k] = e] IN
         /\ t \in Seq(Range(t)) /\ Len(t) = Len(s) /\ t[k] = e
         /\ \A i \in 1 .. Len(s) : i # k => t[i] = s[i]
<1> DEFINE t == [s EXCEPT ![k] = e]
           T == Range(s) \cup {e}
<1>1. s \in Seq(T) /\ e \in T
  OBVIOUS
<1>2. t \in Seq(T) /\ Len(t) = Len(s)
  BY <1>1, ExceptSeq
<1>3. t \in Seq(Range(t))
  BY <1>2, OwnElements
<1> QED
  BY <1>1, <1>2, <1>3

(* An element is appended. *)
LEMMA Appended ==
  ASSUME NEW s, s \in Seq(Range(s)), NEW e
  PROVE  LET t == Append(s, e) IN
         /\ t \in Seq(Range(t)) /\ Len(t) = Len(s) + 1 /\ t[Len(s) + 1] = e
         /\ \A i \in 1 .. Len(s) : t[i] = s[i]
<1> DEFINE t == Append(s, e)
           T == Range(s) \cup {e}
<1>1. s \in Seq(T) /\ e \in T
  OBVIOUS
<1>2. t \in Seq(T) /\ Len(t) = Len(s) + 1
  BY <1>1, AppendProperties
<1>3. t \in Seq(Range(t))
  BY <1>2, OwnElements
<1> QED
  BY <1>1, <1>2, <1>3

(* A beginning of a sequence. *)
LEMMA Begun ==
  ASSUME NEW s, s \in Seq(Range(s)), NEW k \in 0 .. Len(s)
  PROVE  LET t == SubSeq(s, 1, k) IN
         /\ t \in Seq(Range(t)) /\ Len(t) = k
         /\ \A i \in 1 .. k : t[i] = s[i]
<1> DEFINE t == SubSeq(s, 1, k)
<1>1. 1 \in Int /\ k \in Int /\ k \in Nat /\ \A i \in 1 .. k : s[i] \in Range(s)
  BY LenProperties
<1>2. /\ t \in Seq(Range(s)) /\ Len(t) = IF 1 <= k THEN k - 1 + 1 ELSE 0
      /\ \A i \in 1 .. k - 1 + 1 : t[i] = s[1 + i - 1]
  BY <1>1, SubSeqProperties
<1> HIDE DEF t
<1>3. Len(t) = k /\ \A i \in 1 .. k : t[i] = s[i]
  BY <1>1, <1>2
<1>4. t \in Seq(Range(t))
  BY <1>2, OwnElements
<1> QED
  BY <1>3, <1>4 DEF t

(***************************************************************************)
(* The stack                                                               *)
(***************************************************************************)

Kinds == {"manifest", "render", "test", "collect", "data"}

IsFrame(f) ==
  f \in [kind: Kinds, file: Files, dir: {f.dir}, part: {"template", "items"}, next: Nat \ {0},
         used: Delims, delims: Delims, given: Delims, host: Hosts, plain: BOOLEAN]

RenderedBy(hd, loc, d) == IF hd[loc].declares # NoDelims THEN hd[loc].declares ELSE d

(* A frame of files with the delimiters hd, in a pass with the host h: it has parsed
   its template with its own delimiters or those it was given. *)
Sound(hd, h, f) ==
  /\ IsFrame(f)
  /\ f.used = RenderedBy(hd, f.file, f.given)
  /\ f.plain => f.dir = Dir(f.file)
  /\ f.host = h
  /\ f.part = "items" => f.kind \in {"manifest", "test", "collect"}

TestIn(fr, i) == IF fr[i].kind = "collect" THEN i - 1 ELSE i

ReferencesOf(h, loc) == Range(Tree[loc].includes[h]) \cup {r.path : r \in Range(Tree[loc].items[h])}

PathIn(wd, path, dir) ==
  CASE path.base = "dot" -> Join(wd, path.steps)
    [] path.base = "abs" -> Join(<< >>, path.steps)
    [] path.base = "plain" -> Join(dir, path.steps)

(* A frame with a loader of its own was given the delimiters of the test's. *)
Sits(fr, h, wd, i) ==
  /\ fr[i].kind # "manifest"
  /\ fr[i].kind = "render" => fr[i - 1].part = "template"
  /\ fr[i].kind \in {"test", "collect"} => fr[i - 1].kind \in {"manifest", "test"}
  /\ fr[i].kind = "data" => fr[i - 1].kind \in {"manifest", "test", "collect"}
  /\ fr[i].kind # "render" => fr[TestIn(fr, i - 1)].delims = fr[i].given
  /\ \E path \in ReferencesOf(h, fr[i - 1].file) : fr[i].file = PathIn(wd, path, fr[i - 1].dir)

Stack(fr, hd, h, wd) ==
  /\ fr \in Seq(Range(fr))
  /\ \A i \in 1 .. Len(fr) :
       /\ Sound(hd, h, fr[i])
       /\ i = 1 => fr[i].kind = "manifest" /\ fr[i].given = DefaultDelims
       /\ i > 1 => Sits(fr, h, wd, i)

(* The frames whose loaders matter to one are below it. *)
LEMMA Below ==
  ASSUME NEW fr, NEW hd, NEW h, NEW wd, Stack(fr, hd, h, wd), NEW i \in 1 .. Len(fr), i > 1
  PROVE  /\ Sits(fr, h, wd, i) /\ Len(fr) \in Nat
         /\ i - 1 \in 1 .. Len(fr) /\ TestIn(fr, i - 1) \in 1 .. Len(fr) /\ TestIn(fr, i - 1) < i
         /\ fr[i].kind # "render" => fr[TestIn(fr, i - 1)].kind \in {"manifest", "test"}
<1>1. Len(fr) \in Nat /\ i - 1 \in 1 .. Len(fr) /\ i - 1 < i /\ Sits(fr, h, wd, i)
  BY LenProperties DEF Stack
<1>2. CASE fr[i - 1].kind = "collect"
  <2>1. i - 1 > 1 /\ Sits(fr, h, wd, i - 1)
    BY <1>1, <1>2 DEF Stack
  <2>2. fr[i - 2].kind \in {"manifest", "test"}
    BY <1>1, <1>2, <2>1 DEF Sits
  <2> QED
    BY <1>1, <1>2, <2>1, <2>2 DEF TestIn
<1>3. CASE fr[i - 1].kind # "collect"
  <2>1. Sits(fr, h, wd, i) /\ fr[i].kind \in Kinds
    BY DEF Stack, Sound, IsFrame
  <2>2. fr[i].kind # "render" => fr[i - 1].kind \in {"manifest", "test"}
    BY <1>3, <2>1 DEF Sits, Kinds
  <2> QED
    BY <1>1, <1>3, <2>2 DEF TestIn
<1> QED
  BY <1>2, <1>3

(* A frame is replaced by one that differs in how far it is, or, if only rendered
   files are above it, in the delimiters of its loader. *)
LEMMA FrameReplaced ==
  ASSUME NEW fr, NEW hd, NEW h, NEW wd, Stack(fr, hd, h, wd), NEW k \in 1 .. Len(fr), NEW e,
         Sound(hd, h, e), e.kind = fr[k].kind, e.file = fr[k].file, e.dir = fr[k].dir,
         e.given = fr[k].given, e.part = fr[k].part \/ k = Len(fr),
         e.delims = fr[k].delims \/ \A i \in k + 1 .. Len(fr) : fr[i].kind = "render"
  PROVE  Stack([fr EXCEPT ![k] = e], hd, h, wd)
<1> DEFINE t == [fr EXCEPT ![k] = e]
           n == Len(fr)
<1>1. /\ t \in Seq(Range(t)) /\ Len(t) = n /\ t[k] = e /\ n \in Nat
      /\ \A i \in 1 .. n : i # k => t[i] = fr[i]
  BY Replaced, LenProperties DEF Stack
<1> HIDE DEF t
<1>2. \A i \in 1 .. n : /\ t[i].kind = fr[i].kind /\ t[i].file = fr[i].file /\ t[i].dir = fr[i].dir
                        /\ t[i].given = fr[i].given /\ Sound(hd, h, t[i])
                        /\ (i < n => t[i].part = fr[i].part)
  BY <1>1 DEF Stack
<1>3. ASSUME NEW i \in 1 .. n, i > 1 PROVE Sits(t, h, wd, i)
  <2>0. /\ Sits(fr, h, wd, i) /\ i - 1 \in 1 .. n
        /\ TestIn(fr, i - 1) \in 1 .. n /\ TestIn(fr, i - 1) < i
    BY <1>3, Below
  <2>1. Sits(fr, h, wd, i) /\ i - 1 \in 1 .. n /\ i - 1 < n /\ TestIn(fr, i - 1) \in 1 .. n
    BY <1>1, <2>0
  <2>2. TestIn(t, i - 1) = TestIn(fr, i - 1)
    BY <1>2, <2>1 DEF TestIn
  <2>3. ASSUME t[i].kind # "render" PROVE t[TestIn(t, i - 1)].delims = t[i].given
    <3>1. fr[TestIn(fr, i - 1)].delims = t[i].given
      BY <1>2, <2>1, <2>3 DEF Sits
    <3>2. CASE k = TestIn(fr, i - 1)
      <4>1. i \in k + 1 .. n /\ fr[i].kind # "render"
        BY <1>1, <1>2, <2>0, <2>3, <3>2
      <4> QED
        BY <1>1, <2>2, <3>1, <3>2, <4>1
    <3>3. CASE k # TestIn(fr, i - 1)
      BY <1>1, <2>1, <2>2, <3>1, <3>3
    <3> QED
      BY <3>2, <3>3
  <2> QED
    BY <1>2, <2>1, <2>3 DEF Sits
<1>4. \A i \in 1 .. n : i = 1 => t[i].kind = "manifest" /\ t[i].given = DefaultDelims
  BY <1>2 DEF Stack
<1> QED
  BY <1>1, <1>2, <1>3, <1>4 DEF Stack, t

(* A frame is pushed. *)
LEMMA FramePushed ==
  ASSUME NEW fr, NEW hd, NEW h, NEW wd, Stack(fr, hd, h, wd), fr # << >>, NEW f,
         Sound(hd, h, f), Sits(Append(fr, f), h, wd, Len(fr) + 1)
  PROVE  Stack(Append(fr, f), hd, h, wd)
<1> DEFINE t == Append(fr, f)
           n == Len(fr)
<1>1. /\ t \in Seq(Range(t)) /\ Len(t) = n + 1 /\ t[n + 1] = f
      /\ \A i \in 1 .. n : t[i] = fr[i]
  BY Appended DEF Stack
<1>2. n \in Nat \ {0} /\ Sits(t, h, wd, n + 1)
  BY EmptySeq, LenProperties DEF Stack
<1> HIDE DEF t
<1>3. ASSUME NEW i \in 1 .. n, i > 1 PROVE Sits(t, h, wd, i)
  <2>1. /\ Sits(fr, h, wd, i) /\ i - 1 \in 1 .. n /\ TestIn(fr, i - 1) \in 1 .. n
    BY <1>3, Below
  <2>2. TestIn(t, i - 1) = TestIn(fr, i - 1)
    BY <1>1, <2>1 DEF TestIn
  <2> QED
    BY <1>1, <2>1, <2>2 DEF Sits
<1>4. ASSUME NEW i \in 1 .. n + 1
      PROVE  /\ Sound(hd, h, t[i])
             /\ i = 1 => t[i].kind = "manifest" /\ t[i].given = DefaultDelims
             /\ i > 1 => Sits(t, h, wd, i)
  <2>1. CASE i = n + 1
    BY <1>1, <1>2, <2>1
  <2>2. CASE i # n + 1
    <3>1. i \in 1 .. n /\ t[i] = fr[i]
      BY <1>1, <1>2, <2>2
    <3> QED
      BY <1>3, <3>1 DEF Stack
  <2> QED
    BY <2>1, <2>2
<1> QED
  BY <1>1, <1>4 DEF Stack, t

(* The innermost frames are dropped. *)
LEMMA FramesDropped ==
  ASSUME NEW fr, NEW hd, NEW h, NEW wd, Stack(fr, hd, h, wd), NEW k \in 0 .. Len(fr)
  PROVE  /\ Stack(SubSeq(fr, 1, k), hd, h, wd) /\ Len(SubSeq(fr, 1, k)) = k
         /\ \A i \in 1 .. k : SubSeq(fr, 1, k)[i] = fr[i]
<1> DEFINE t == SubSeq(fr, 1, k)
<1>1. /\ t \in Seq(Range(t)) /\ Len(t) = k
      /\ \A i \in 1 .. k : t[i] = fr[i]
  BY Begun DEF Stack
<1>2. Len(fr) \in Nat /\ k \in Nat /\ k <= Len(fr)
  BY LenProperties DEF Stack
<1> HIDE DEF t
<1>3. ASSUME NEW i \in 1 .. k, i > 1 PROVE Sits(t, h, wd, i)
  <2>1. i \in 1 .. Len(fr)
    BY <1>2
  <2>2. /\ Sits(fr, h, wd, i) /\ i - 1 \in 1 .. k /\ TestIn(fr, i - 1) \in 1 .. k
    <3>1. /\ Sits(fr, h, wd, i) /\ i - 1 \in 1 .. Len(fr) /\ TestIn(fr, i - 1) \in 1 .. Len(fr)
          /\ TestIn(fr, i - 1) < i
      BY <1>3, <2>1, Below
    <3> QED
      BY <1>2, <3>1
  <2>3. TestIn(t, i - 1) = TestIn(fr, i - 1)
    BY <1>1, <2>2 DEF TestIn
  <2> QED
    BY <1>1, <2>2, <2>3 DEF Sits
<1>4. \A i \in 1 .. k : i \in 1 .. Len(fr) /\ t[i] = fr[i]
  BY <1>1, <1>2
<1>5. Stack(t, hd, h, wd)
  BY <1>1, <1>3, <1>4 DEF Stack
<1> QED
  BY <1>1, <1>5 DEF t

(* No file is in hand. *)
LEMMA NoFrames == ASSUME NEW hd, NEW h, NEW wd PROVE Stack(<< >>, hd, h, wd)
  BY EmptySeq DEF Stack

(* The manifest is in hand. *)
LEMMA FirstFrame ==
  ASSUME NEW hd, NEW h, NEW wd, NEW f, Sound(hd, h, f), f.kind = "manifest",
         f.given = DefaultDelims
  PROVE  Stack(<<f>>, hd, h, wd) /\ Len(<<f>>) = 1
<1>1. <<f>> \in Seq({f}) /\ Len(<<f>>) = 1 /\ <<f>>[1] = f
  OBVIOUS
<1>2. <<f>> \in Seq(Range(<<f>>))
  BY <1>1, OwnElements
<1>3. \A i \in 1 .. 1 : i = 1 /\ ~ (i > 1)
  OBVIOUS
<1> QED
  BY <1>1, <1>2, <1>3 DEF Stack

(***************************************************************************)
(* Owners                                                                  *)
(***************************************************************************)

IsOwner(fr, i, j) ==
  j \in 1 .. i /\ fr[j].kind # "render" /\ \A h \in j + 1 .. i : fr[h].kind = "render"

(* Each frame has an owner, because the manifest has a loader. *)
LEMMA OwnerExists ==
  ASSUME NEW fr, fr[1].kind # "render", NEW i \in Nat \ {0}
  PROVE  \E j : IsOwner(fr, i, j)
<1> DEFINE T == {n \in Nat : \E j : IsOwner(fr, n + 1, j)}
<1>1. 0 \in T
  <2>1. IsOwner(fr, 1, 1)
    BY DEF IsOwner
  <2> QED
    BY <2>1
<1>2. ASSUME NEW n \in T PROVE n + 1 \in T
  <2>1. PICK j : IsOwner(fr, n + 1, j)
    OBVIOUS
  <2>2. CASE fr[n + 2].kind = "render"
    <3>1. IsOwner(fr, n + 2, j)
      BY <2>1, <2>2 DEF IsOwner
    <3> QED
      BY <3>1
  <2>3. CASE fr[n + 2].kind # "render"
    <3>1. IsOwner(fr, n + 2, n + 2)
      BY <2>3 DEF IsOwner
    <3> QED
      BY <3>1
  <2> QED
    BY <2>2, <2>3
<1>3. T \in SUBSET Nat
  OBVIOUS
<1> HIDE DEF T
<1>4. i - 1 \in T
  BY <1>1, <1>2, <1>3, Inductive
<1> QED
  BY <1>4 DEF T

(***************************************************************************)
(* The steps                                                               *)
(***************************************************************************)

PassHost == IF pass = 1 THEN NoHost ELSE ReplaceHost

(* While a manifest is being rendered, no test has begun; a suite runs in the second
   pass; at the end nothing is in hand.  The host is known as of that pass. *)
Rendering ==
  /\ pc = "load" => /\ \A i \in 1 .. Len(frames) : /\ frames[i].part = "template"
                                                   /\ frames[i].kind \in {"manifest", "render"}
                    /\ pass = 0 => frames = << >>
  /\ pc = "run" => pass = 2
  /\ pc \in {"done", "failed"} => frames = << >>
  /\ frames # << >> => host = PassHost
  /\ pc = "load" /\ frames = << >> => host = IF pass = 0 THEN NoHost ELSE ReplaceHost

LoaderInvariant ==
  /\ header \in Headers
  /\ pc \in {"load", "run", "done", "failed"}
  /\ pass \in 0 .. 2
  /\ host \in Hosts
  /\ Stack(frames, header, PassHost, cwd)
  /\ Rendering

(* A new frame, where a file is rendered with the loader it is given. *)
LEMMA NewFrame ==
  ASSUME header \in Headers, NEW kind \in Kinds, NEW loc \in Files, NEW dir,
         NEW loader, loader.delims \in Delims, loader.host \in Hosts,
         NEW plain \in BOOLEAN, plain => dir = Dir(loc)
  PROVE  LET f == Frame(kind, loc, dir, loader, plain) IN
         /\ Sound(header, loader.host, f) /\ f.kind = kind /\ f.file = loc /\ f.dir = dir
         /\ f.given = loader.delims /\ f.part = "template" /\ f.used \in Delims
<1>1. header[loc] \in Header
  BY HeadersAssumption
<1>2. Rendered(loc, loader.delims) \in Delims
  BY <1>1 DEF Rendered, Header
<1> QED
  BY <1>2 DEF Frame, IsFrame, Kinds, Rendered, RenderedBy, Sound

(* The innermost frame. *)
LEMMA TopFrame ==
  ASSUME LoaderInvariant, frames # << >>
  PROVE  /\ Len(frames) \in Nat \ {0} /\ Top = frames[Len(frames)]
         /\ Sound(header, PassHost, Top) /\ IsFrame(Top) /\ PassHost \in Hosts /\ host = PassHost
         /\ Top.kind = "manifest" <=> Len(frames) = 1
<1> DEFINE n == Len(frames)
<1>1. n \in Nat \ {0} /\ n \in 1 .. n /\ Top = frames[n] /\ PassHost \in Hosts /\ host = PassHost
  BY EmptySeq, LenProperties DEF LoaderInvariant, Stack, Top, PassHost, Hosts, Rendering
<1>2. Sound(header, PassHost, frames[n])
  BY <1>1 DEF LoaderInvariant, Stack
<1>3. frames[n].kind = "manifest" <=> n = 1
  <2>1. n = 1 \/ n > 1
    <3>1. n \in Nat \ {0}
      BY <1>1
    <3> HIDE DEF n
    <3> QED
      BY <3>1
  <2>2. n = 1 => frames[n].kind = "manifest"
    <3>1. 1 \in 1 .. n
      BY <1>1
    <3>2. frames[1].kind = "manifest"
      BY <3>1 DEF LoaderInvariant, Stack
    <3> QED
      BY <3>2
  <2>3. n > 1 => frames[n].kind # "manifest"
    BY <1>1 DEF LoaderInvariant, Stack, Sits
  <2> QED
    BY <2>1, <2>2, <2>3
<1> QED
  BY <1>1, <1>2, <1>3 DEF Sound

(* The frame whose loader renders frame i. *)
LEMMA OwnerFrame ==
  ASSUME LoaderInvariant, NEW i \in 1 .. Len(frames)
  PROVE  /\ IsOwner(frames, i, Owner(i)) /\ Owner(i) \in 1 .. Len(frames)
         /\ frames[i].kind # "render" => Owner(i) = i
         /\ frames[i].kind = "render" => i > 1 /\ Owner(i) = Owner(i - 1)
         /\ LoaderOf(i).delims \in Delims /\ LoaderOf(i).delims = frames[Owner(i)].delims
         /\ LoaderOf(i).host = PassHost
<1>1. Len(frames) \in Nat /\ i \in Nat \ {0} /\ 1 \in 1 .. Len(frames)
  BY LenProperties DEF LoaderInvariant, Stack
<1>2. frames[1].kind = "manifest"
  BY <1>1 DEF LoaderInvariant, Stack
<1>3. ASSUME NEW j \in 1 .. Len(frames), NEW h, IsOwner(frames, j, h) PROVE Owner(j) = h
  <2>1. \A g : IsOwner(frames, j, g) => g = h
    BY <1>1, <1>3 DEF IsOwner
  <2> QED
    BY <1>3, <2>1, Zenon DEF Owner, IsOwner
<1>4. \A j \in 1 .. Len(frames) : IsOwner(frames, j, Owner(j))
  <2> SUFFICES ASSUME NEW j \in 1 .. Len(frames) PROVE IsOwner(frames, j, Owner(j))
    OBVIOUS
  <2>1. PICK h : IsOwner(frames, j, h)
    BY <1>1, <1>2, OwnerExists
  <2> QED
    BY <1>3, <2>1
<1>5. ASSUME frames[i].kind # "render" PROVE Owner(i) = i
  <2>1. IsOwner(frames, i, i)
    BY <1>1, <1>5 DEF IsOwner
  <2> QED
    BY <1>3, <2>1
<1>6. ASSUME frames[i].kind = "render" PROVE i > 1 /\ Owner(i) = Owner(i - 1)
  <2>1. i > 1 /\ i - 1 \in 1 .. Len(frames)
    BY <1>1, <1>2, <1>6
  <2>2. IsOwner(frames, i, Owner(i - 1))
    BY <1>1, <1>4, <1>6, <2>1 DEF IsOwner
  <2> QED
    BY <1>3, <2>1, <2>2
<1>7. Owner(i) \in 1 .. Len(frames)
  BY <1>1, <1>4 DEF IsOwner
<1>8. Sound(header, PassHost, frames[Owner(i)])
  BY <1>7 DEF LoaderInvariant, Stack
<1> QED
  BY <1>4, <1>5, <1>6, <1>7, <1>8 DEF LoaderOf, Sound, IsFrame

(* The loader of the test whose file is in hand. *)
LEMMA TestLoader ==
  ASSUME LoaderInvariant, frames # << >>, Top.kind \in {"manifest", "test", "collect"}
  PROVE  LET loader == LoaderOf(TestOf(Len(frames))) IN
         /\ loader.delims \in Delims /\ loader.host = PassHost
         /\ loader.delims = frames[TestIn(frames, Len(frames))].delims
<1> DEFINE n == Len(frames)
           t == TestIn(frames, n)
<1>1. n \in Nat \ {0} /\ Top = frames[n] /\ (Top.kind = "manifest" <=> n = 1) /\ TestOf(n) = t
  BY TopFrame DEF TestOf, TestIn
<1>2. t \in 1 .. n /\ frames[t].kind # "render"
  <2>1. CASE Top.kind = "collect"
    <3>0. n # 1
      BY <1>1, <2>1
    <3>1. n > 1 /\ n \in 1 .. n /\ n - 1 \in 1 .. n
      BY <1>1, <3>0
    <3>2. Sits(frames, PassHost, cwd, n)
      BY <3>1 DEF LoaderInvariant, Stack
    <3> QED
      BY <1>1, <2>1, <3>1, <3>2 DEF Sits, TestIn
  <2>2. CASE Top.kind # "collect"
    BY <1>1, <2>2 DEF TestIn
  <2> QED
    BY <2>1, <2>2
<1> HIDE DEF t
<1>3. Owner(t) = t
  BY <1>2, OwnerFrame
<1> QED
  BY <1>1, <1>2, <1>3, OwnerFrame DEF t

(* What the innermost template calls, or its items refer to, is one of its
   references. *)
LEMMA Referred ==
  ASSUME LoaderInvariant, frames # << >>
  PROVE  /\ AtCall => Calls(Top)[Top.next] \in ReferencesOf(PassHost, Top.file)
         /\ AtItem => /\ Items[Top.next].path \in ReferencesOf(PassHost, Top.file)
                      /\ Items[Top.next].kind \in {"test", "collect", "data"}
<1> DEFINE inc == Tree[Top.file].includes[PassHost]
           its == Tree[Top.file].items[PassHost]
<1>1. Top.file \in Files /\ Top.host = PassHost /\ Top.next \in Nat \ {0} /\ PassHost \in Hosts
  BY TopFrame DEF Sound, IsFrame
<1>2. inc \in Seq(Path) /\ its \in Seq(Item) /\ Items = its
  BY <1>1, FilesAssumption DEF File, Items, This
<1>3. ReferencesOf(PassHost, Top.file) = Range(inc) \cup {r.path : r \in Range(its)}
  BY DEF ReferencesOf
<1> HIDE DEF inc, its
<1>4. /\ Len(inc) \in Nat /\ DOMAIN inc = 1 .. Len(inc)
      /\ Len(its) \in Nat /\ DOMAIN its = 1 .. Len(its)
  BY <1>2, LenProperties
<1>5. ASSUME AtCall PROVE Calls(Top)[Top.next] \in Range(inc)
  <2>1. Top.next <= Len(Calls(Top))
    BY <1>5 DEF AtCall
  <2>2. Calls(Top) = inc \/ Calls(Top) = << >>
    BY <1>1 DEF Calls, inc
  <2>3. Calls(Top) = inc
    <3> SUFFICES ASSUME Calls(Top) = << >> PROVE FALSE
      BY <2>2
    <3>1. Top.next <= 0
      BY <2>1
    <3> QED
      BY <1>1, <3>1
  <2>4. Top.next \in DOMAIN inc
    BY <1>1, <1>4, <2>1, <2>3
  <2> QED
    BY <2>3, <2>4 DEF Range
<1>6. ASSUME AtItem PROVE its[Top.next] \in Range(its) /\ its[Top.next] \in Item
  <2>1. Top.next \in 1 .. Len(its)
    BY <1>1, <1>2, <1>4, <1>6 DEF AtItem
  <2> QED
    BY <1>2, <1>4, <2>1, ElementOfSeq DEF Range
<1> QED
  BY <1>2, <1>3, <1>5, <1>6 DEF Item

(* The frames s are the ones in hand, but for how far they are and the delimiters
   of some. *)
Like(s) ==
  /\ Stack(s, header, PassHost, cwd) /\ Len(s) = Len(frames) /\ s # << >>
  /\ \A i \in 1 .. Len(frames) : /\ s[i].kind = frames[i].kind /\ s[i].part = frames[i].part
                                 /\ s[i].file = frames[i].file /\ s[i].dir = frames[i].dir

(* The innermost frame goes on to its next call or reference. *)
LEMMA AdvanceStack ==
  ASSUME LoaderInvariant, frames # << >>
  PROVE  /\ Like(Advance(frames))
         /\ \A i \in 1 .. Len(frames) : Advance(frames)[i].delims = frames[i].delims
<1> DEFINE n == Len(frames)
           e == [Top EXCEPT !.next = @ + 1]
           fr == [frames EXCEPT ![n] = e]
<1>1. /\ n \in Nat \ {0} /\ n \in 1 .. n /\ Sound(header, PassHost, Top) /\ Top = frames[n]
      /\ Stack(frames, header, PassHost, cwd)
  BY TopFrame DEF LoaderInvariant
<1>2. /\ Sound(header, PassHost, e) /\ e.kind = Top.kind /\ e.file = Top.file /\ e.dir = Top.dir
      /\ e.given = Top.given /\ e.delims = Top.delims /\ e.part = Top.part
  BY <1>1 DEF IsFrame, Sound
<1>3. Advance(frames) = fr
  BY <1>1 DEF Advance
<1> HIDE DEF e
<1>4. Stack(fr, header, PassHost, cwd)
  BY <1>1, <1>2, FrameReplaced
<1>5. Len(fr) = n /\ fr[n] = e /\ \A i \in 1 .. n : i # n => fr[i] = frames[i]
  BY <1>1, Replaced DEF Stack
<1> HIDE DEF fr
<1>6. fr # << >>
  BY <1>1, <1>5
<1> QED
  BY <1>1, <1>2, <1>3, <1>4, <1>5, <1>6 DEF Like

(* A file is entered. *)
LEMMA PushStack ==
  ASSUME LoaderInvariant, frames # << >>, NEW s, Like(s), NEW f, Sound(header, PassHost, f),
         f.kind # "manifest",
         f.kind = "render" => Top.part = "template",
         f.kind \in {"test", "collect"} => Top.kind \in {"manifest", "test"},
         f.kind = "data" => Top.kind \in {"manifest", "test", "collect"},
         f.kind # "render" => f.given = s[TestIn(frames, Len(frames))].delims,
         NEW path \in ReferencesOf(PassHost, Top.file), f.file = PathIn(cwd, path, Top.dir)
  PROVE  /\ Stack(Append(s, f), header, PassHost, cwd)
         /\ Len(Append(s, f)) = Len(frames) + 1 /\ Append(s, f)[Len(frames) + 1] = f
         /\ \A i \in 1 .. Len(frames) : Append(s, f)[i] = s[i]
<1> DEFINE n == Len(frames)
           t == Append(s, f)
<1>1. n \in Nat \ {0} /\ n \in 1 .. n /\ Top = frames[n] /\ (n + 1) - 1 = n
  BY TopFrame
<1>2. /\ s # << >> /\ Len(s) = n /\ Stack(s, header, PassHost, cwd)
      /\ s[n].kind = Top.kind /\ s[n].part = Top.part /\ s[n].file = Top.file /\ s[n].dir = Top.dir
  BY <1>1 DEF Like
<1>3. Len(t) = n + 1 /\ t[n + 1] = f /\ \A i \in 1 .. n : t[i] = s[i]
  BY <1>2, Appended DEF Stack
<1> HIDE DEF t
<1>4. TestIn(t, n) = TestIn(frames, n)
  BY <1>1, <1>2, <1>3 DEF TestIn
<1>5. f.kind # "render" => TestIn(frames, n) \in 1 .. n
  <2>1. Top.kind = "collect" => n # 1
    BY TopFrame
  <2> QED
    BY <1>1, <2>1 DEF TestIn
<1>6. Sits(t, PassHost, cwd, n + 1)
  BY <1>1, <1>2, <1>3, <1>4, <1>5 DEF Sits
<1>7. Stack(t, header, PassHost, cwd)
  BY <1>2, <1>6, FramePushed DEF t
<1> QED
  BY <1>3, <1>7 DEF t

(* The innermost file is parsed. *)
LEMMA ParsedStack ==
  ASSUME LoaderInvariant, frames # << >>, Top.kind \in {"manifest", "test", "collect"},
         NEW wd, wd = cwd \/ Len(frames) = 1
  PROVE  Stack(Parsed, header, PassHost, wd) /\ Len(Parsed) = Len(frames)
<1> DEFINE n == Len(frames)
           e == [Top EXCEPT !.part = "items", !.next = 1]
<1>1. /\ n \in Nat \ {0} /\ n \in 1 .. n /\ Sound(header, PassHost, Top) /\ Top = frames[n]
      /\ Stack(frames, header, PassHost, cwd)
  BY TopFrame DEF LoaderInvariant
<1>2. /\ Sound(header, PassHost, e) /\ e.kind = Top.kind /\ e.file = Top.file /\ e.dir = Top.dir
      /\ e.given = Top.given /\ e.delims = Top.delims
  <2>1. IsFrame(Top)
    BY <1>1 DEF Sound
  <2>2. /\ IsFrame(e) /\ e.kind = Top.kind /\ e.file = Top.file /\ e.dir = Top.dir
        /\ e.given = Top.given /\ e.delims = Top.delims /\ e.used = Top.used
        /\ e.plain = Top.plain /\ e.host = Top.host
    <3>1. 1 \in Nat \ {0} /\ "items" \in {"template", "items"}
      OBVIOUS
    <3>2. /\ e.kind = Top.kind /\ e.file = Top.file /\ e.dir = Top.dir /\ e.given = Top.given
          /\ e.delims = Top.delims /\ e.used = Top.used /\ e.plain = Top.plain /\ e.host = Top.host
      BY <2>1 DEF IsFrame
    <3>3. IsFrame(e)
      BY <2>1, <3>1, <3>2 DEF IsFrame
    <3> QED
      BY <3>2, <3>3
  <2> HIDE DEF e
  <2>3. e.kind \in {"manifest", "test", "collect"}
    BY <2>2
  <2>4. e.used = RenderedBy(header, e.file, e.given) /\ (e.plain => e.dir = Dir(e.file))
    BY <1>1, <2>2 DEF Sound
  <2>5. e.host = PassHost
    BY <1>1, <2>2 DEF Sound
  <2> QED
    BY <2>2, <2>3, <2>4, <2>5 DEF Sound
<1>3. Parsed = [frames EXCEPT ![n] = e]
  BY <1>1 DEF Parsed
<1> HIDE DEF e
<1>4. Stack(Parsed, header, PassHost, cwd)
  BY <1>1, <1>2, <1>3, FrameReplaced
<1>5. Len(Parsed) = n
  BY <1>1, <1>3, Replaced DEF Stack
<1>6. n = 1 => Stack(Parsed, header, PassHost, wd)
  <2> SUFFICES ASSUME n = 1 PROVE Stack(Parsed, header, PassHost, wd)
    OBVIOUS
  <2>1. \A i \in 1 .. 1 : ~ (i > 1)
    OBVIOUS
  <2> QED
    BY <1>4, <1>5, <2>1 DEF Stack
<1> QED
  BY <1>4, <1>5, <1>6

(* At the start nothing is in hand. *)
LEMMA InitLoader == Init => LoaderInvariant
<1> SUFFICES ASSUME Init PROVE LoaderInvariant
  OBVIOUS
<1>1. Len(frames) = 0 /\ Stack(frames, header, PassHost, cwd)
  BY NoFrames, EmptySeq DEF Init
<1> QED
  BY <1>1 DEF Init, LoaderInvariant, Rendering, Hosts

(* A pass over the manifest begins. *)
LEMMA LoadManifestKeeps ==
  ASSUME LoaderInvariant, LoadManifest
  PROVE  LoaderInvariant'
<1> DEFINE plain == TRUE
           f == Frame("manifest", Manifest, ManifestDir, NewLoader, plain)
<1>0. plain \in BOOLEAN
  OBVIOUS
<1> HIDE DEF plain
<1>1. /\ pass' = pass + 1 /\ frames' = <<f>> /\ frames = << >>
      /\ UNCHANGED <<header, cwd, pc, host>> /\ pc = "load" /\ pass < 2
  BY DEF LoadManifest, plain
<1>2. host = PassHost' /\ NewLoader.host = PassHost' /\ NewLoader.delims = DefaultDelims
  BY <1>1 DEF LoaderInvariant, Rendering, PassHost, NewLoader
<1>3. /\ Sound(header, NewLoader.host, f) /\ f.kind = "manifest" /\ f.file = Manifest
      /\ f.given = DefaultDelims /\ f.part = "template"
  <2>1. /\ header \in Headers /\ "manifest" \in Kinds /\ Manifest \in Files
        /\ NewLoader.delims \in Delims /\ NewLoader.host \in Hosts /\ ManifestDir = Dir(Manifest)
    BY <1>1, <1>2, FilesAssumption, DelimsAssumption
       DEF LoaderInvariant, Kinds, ManifestDir, NewLoader
  <2> QED
    BY <1>0, <1>2, <2>1, NewFrame
<1> HIDE DEF f
<1>4. Stack(<<f>>, header, PassHost', cwd) /\ Len(<<f>>) = 1
  BY <1>2, <1>3, FirstFrame
<1>5. Rendering'
  <2>1. \A i \in 1 .. 1 : i = 1
    OBVIOUS
  <2> QED
    BY <1>1, <1>2, <1>3, <1>4, <2>1 DEF Rendering, LoaderInvariant
<1> QED
  BY <1>1, <1>4, <1>5 DEF LoaderInvariant

(* While frames are in hand they keep the host of the pass. *)
LEMMA StackKeeps ==
  ASSUME LoaderInvariant, frames # << >>, UNCHANGED <<header, pc, pass, host>>,
         frames' # << >>, Stack(frames', header, PassHost, cwd'),
         pc = "load" => \A i \in 1 .. Len(frames') : /\ frames'[i].part = "template"
                                                     /\ frames'[i].kind \in {"manifest", "render"}
  PROVE  LoaderInvariant'
<1>1. PassHost' = PassHost
  BY DEF PassHost
<1>2. Rendering'
  BY <1>1 DEF LoaderInvariant, Rendering
<1> QED
  BY <1>1, <1>2 DEF LoaderInvariant

(* A file is rendered by the template in hand. *)
LEMMA FileRenderKeeps ==
  ASSUME LoaderInvariant, FileRender
  PROVE  LoaderInvariant'
<1> DEFINE n == Len(frames)
           path == Calls(Top)[Top.next]
           loc == LocalPath(path, Top.dir)
           plain == Top.plain /\ path.base = "plain"
           f == Frame("render", loc, RenderDir(path), LoaderOf(n), plain)
           ad == Advance(frames)
           own == Owner(n)
           e == [ad[own] EXCEPT !.delims = f.used]
           mid == [ad EXCEPT ![own] = e]
           fr == Append(mid, f)
<1>1. /\ frames # << >> /\ loc \in Files /\ Top.part = "template" /\ AtCall
      /\ UNCHANGED <<header, cwd, pc, pass, host>>
  BY DEF FileRender, AtCall, Exists
<1>2. frames' = fr
  BY DEF FileRender
<1>3. n \in Nat \ {0} /\ n \in 1 .. n /\ IsFrame(Top) /\ Top = frames[n] /\ PassHost \in Hosts
  BY <1>1, TopFrame
<1>4. /\ own \in 1 .. n /\ \A i \in own + 1 .. n : frames[i].kind = "render"
      /\ LoaderOf(n).delims \in Delims /\ LoaderOf(n).host = PassHost
  BY <1>3, OwnerFrame DEF IsOwner
<1>5. plain \in BOOLEAN /\ (plain => RenderDir(path) = Dir(loc)) /\ loc = PathIn(cwd, path, Top.dir)
  BY <1>3 DEF IsFrame, RenderDir, LocalPath, PathIn
<1>6. path \in ReferencesOf(PassHost, Top.file)
  BY <1>1, Referred
<1> HIDE DEF loc, plain, path, own
<1>7. /\ Sound(header, PassHost, f) /\ f.kind = "render" /\ f.file = loc /\ f.used \in Delims
      /\ f.part = "template"
  <2>1. header \in Headers /\ "render" \in Kinds
    BY DEF LoaderInvariant, Kinds
  <2> QED
    BY <1>1, <1>3, <1>4, <1>5, <2>1, NewFrame
<1> HIDE DEF f
<1>8. Like(ad)
  BY <1>1, AdvanceStack
<1> HIDE DEF ad
<1>9. /\ Stack(ad, header, PassHost, cwd) /\ Len(ad) = n /\ Sound(header, PassHost, ad[own])
      /\ \A i \in own + 1 .. n : ad[i].kind = "render"
  <2>1. Stack(ad, header, PassHost, cwd) /\ Len(ad) = n
    BY <1>8 DEF Like
  <2>2. \A i \in own + 1 .. n : i \in 1 .. n
    BY <1>4
  <2>3. \A i \in own + 1 .. n : ad[i].kind = "render"
    BY <1>4, <1>8, <2>2 DEF Like
  <2> QED
    BY <1>4, <2>1, <2>3 DEF Stack
<1>10. /\ Sound(header, PassHost, e) /\ e.kind = ad[own].kind /\ e.file = ad[own].file
       /\ e.dir = ad[own].dir /\ e.given = ad[own].given /\ e.part = ad[own].part
  BY <1>7, <1>9 DEF IsFrame, Sound
<1> HIDE DEF e
<1>11. Stack(mid, header, PassHost, cwd)
  BY <1>4, <1>9, <1>10, FrameReplaced
<1>12. Len(mid) = n /\ mid[own] = e /\ \A i \in 1 .. n : i # own => mid[i] = ad[i]
  BY <1>4, <1>9, Replaced DEF Stack
<1> HIDE DEF mid
<1>13. mid # << >>
  BY <1>3, <1>12
<1>14. Like(mid)
  <2>1. ASSUME NEW i \in 1 .. n
        PROVE  /\ mid[i].kind = frames[i].kind /\ mid[i].part = frames[i].part
               /\ mid[i].file = frames[i].file /\ mid[i].dir = frames[i].dir
    BY <1>8, <1>10, <1>12 DEF Like
  <2> QED
    BY <1>11, <1>12, <1>13, <2>1 DEF Like
<1>15. /\ Stack(fr, header, PassHost, cwd) /\ Len(fr) = n + 1 /\ fr[n + 1] = f
       /\ \A i \in 1 .. n : fr[i] = mid[i]
  BY <1>1, <1>5, <1>6, <1>7, <1>14, PushStack
<1> HIDE DEF fr
<1>16. fr # << >>
  BY <1>3, <1>15
<1>17. pc = "load" => \A i \in 1 .. Len(fr) : /\ fr[i].part = "template"
                                              /\ fr[i].kind \in {"manifest", "render"}
  <2> SUFFICES ASSUME pc = "load", NEW i \in 1 .. n + 1
               PROVE  fr[i].part = "template" /\ fr[i].kind \in {"manifest", "render"}
    BY <1>15
  <2>1. CASE i = n + 1
    BY <1>7, <1>15, <2>1
  <2>2. CASE i # n + 1
    <3>1. i \in 1 .. n
      BY <1>3, <2>2
    <3> QED
      BY <1>14, <1>15, <3>1 DEF Like, LoaderInvariant, Rendering
  <2> QED
    BY <2>1, <2>2
<1> QED
  BY <1>1, <1>2, <1>15, <1>16, <1>17, StackKeeps

(* Frames are dropped, but not the first. *)
LEMMA DropKeeps ==
  ASSUME LoaderInvariant, frames # << >>, NEW k \in 1 .. Len(frames),
         frames' = SubSeq(frames, 1, k), UNCHANGED <<header, cwd, pc, pass, host>>
  PROVE  LoaderInvariant'
<1>1. Len(frames) \in Nat /\ k \in 0 .. Len(frames) /\ Stack(frames, header, PassHost, cwd)
  BY TopFrame DEF LoaderInvariant
<1>2. /\ Stack(frames', header, PassHost, cwd) /\ Len(frames') = k
      /\ \A i \in 1 .. k : frames'[i] = frames[i]
  BY <1>1, FramesDropped
<1>3. frames' # << >>
  BY <1>2
<1>4. \A i \in 1 .. k : i \in 1 .. Len(frames)
  BY <1>1
<1>5. pc = "load" => \A i \in 1 .. Len(frames') : /\ frames'[i].part = "template"
                                                  /\ frames'[i].kind \in {"manifest", "render"}
  BY <1>2, <1>4 DEF LoaderInvariant, Rendering
<1> QED
  BY <1>2, <1>3, <1>5, StackKeeps

(* Nothing is in hand any more. *)
LEMMA EmptyKeeps ==
  ASSUME LoaderInvariant, frames' = << >>, UNCHANGED <<header, cwd, pass>>,
         pc' \in {"done", "failed"} \/ (pc' = pc /\ pc = "load" /\ pass = 1),
         host' = host \/ host' = ReplaceHost, pc' = "load" => host' = ReplaceHost
  PROVE  LoaderInvariant'
<1>1. Stack(frames', header, PassHost', cwd) /\ Len(frames') = 0
  BY NoFrames, EmptySeq
<1>2. Rendering'
  BY <1>1 DEF LoaderInvariant, Rendering
<1> QED
  BY <1>1, <1>2 DEF LoaderInvariant, Hosts

(* A test, a request or a response is begun: only in a running suite. *)
LEMMA EnterKeeps ==
  ASSUME LoaderInvariant, AtItem, NEW s, Like(s), NEW f, Sound(header, PassHost, f),
         f.kind \in {"test", "collect", "data"}, Top.kind = "collect" => f.kind = "data",
         Top.kind \in {"manifest", "test", "collect"},
         f.given = s[TestIn(frames, Len(frames))].delims,
         f.file = LocalPath(Items[Top.next].path, Top.dir),
         frames' = Enter(s, f), UNCHANGED <<header, cwd, pc, pass, host>>
  PROVE  LoaderInvariant'
<1> DEFINE path == Items[Top.next].path
           t == Append(s, f)
<1>1. frames # << >> /\ Top.part = "items" /\ frames' = t
  BY DEF AtItem, Enter
<1>2. path \in ReferencesOf(PassHost, Top.file) /\ f.file = PathIn(cwd, path, Top.dir)
  BY <1>1, Referred DEF LocalPath, PathIn
<1> HIDE DEF path
<1>3. Stack(t, header, PassHost, cwd) /\ Len(t) = Len(frames) + 1
  BY <1>1, <1>2, PushStack
<1> HIDE DEF t
<1>4. pc # "load" /\ t # << >>
  <2>1. Len(frames) \in Nat \ {0} /\ Len(frames) \in 1 .. Len(frames) /\ Top = frames[Len(frames)]
    BY <1>1, TopFrame
  <2>2. pc # "load"
    BY <1>1, <2>1 DEF LoaderInvariant, Rendering
  <2> QED
    BY <1>3, <2>1, <2>2
<1> QED
  BY <1>1, <1>3, <1>4, StackKeeps

(* A path of a test: one that is begun by its manifest, or by another test. *)
LEMMA TestRefKeeps ==
  ASSUME LoaderInvariant, TestRef
  PROVE  LoaderInvariant'
<1> DEFINE n == Len(frames)
           path == Items[Top.next].path
           loc == LocalPath(path, Top.dir)
           dir == Dir(Join(Top.dir, path.steps))
           plain == Top.plain /\ path.base = "plain"
           loader == buildLoader(LoaderOf(n))
           f == Frame("test", loc, dir, loader, plain)
           s == Advance(frames)
<1>1. /\ AtItem /\ frames # << >> /\ Top.kind # "collect" /\ Top.part = "items" /\ loc \in Files
      /\ frames' = Enter(s, f) /\ UNCHANGED <<header, cwd, pc, pass, host>>
  BY DEF TestRef, Exists, AtItem
<1>2. /\ n \in Nat \ {0} /\ n \in 1 .. n /\ IsFrame(Top) /\ Top = frames[n] /\ host = PassHost
      /\ PassHost \in Hosts /\ Top.kind \in {"manifest", "test"}
  BY <1>1, TopFrame DEF Sound
<1>3. /\ loader.delims \in Delims /\ loader.host = PassHost
      /\ loader.delims = frames[TestIn(frames, n)].delims /\ TestIn(frames, n) = n
  <2>1. TestOf(n) = n /\ TestIn(frames, n) = n
    BY <1>1, <1>2 DEF TestOf, TestIn
  <2> QED
    BY <1>1, <1>2, <2>1, TestLoader DEF buildLoader
<1>4. plain \in BOOLEAN /\ (plain => dir = Dir(loc))
  BY <1>2 DEF IsFrame, LocalPath
<1> HIDE DEF plain, dir, loader
<1>5. /\ Sound(header, PassHost, f) /\ f.kind = "test" /\ f.file = loc /\ f.given = loader.delims
  <2>1. header \in Headers /\ "test" \in Kinds
    BY DEF LoaderInvariant, Kinds
  <2> HIDE DEF loc
  <2> QED
    BY <1>1, <1>2, <1>3, <1>4, <2>1, NewFrame
<1> HIDE DEF f
<1>6. Like(s) /\ s[TestIn(frames, n)].delims = f.given
  BY <1>1, <1>2, <1>3, <1>5, AdvanceStack
<1> HIDE DEF s
<1> QED
  BY <1>1, <1>2, <1>5, <1>6, EnterKeeps

(* A path of a request or response, in a case or a file of collect responses. *)
LEMMA DataRefKeeps ==
  ASSUME LoaderInvariant, DataRef
  PROVE  LoaderInvariant'
<1> DEFINE n == Len(frames)
           path == Items[Top.next].path
           loc == LocalPath(path, Top.dir)
           kind == IF Top.kind = "collect" THEN "data" ELSE Items[Top.next].kind
           loader == LoaderOf(TestOf(n))
           plain == FALSE
           f == Frame(kind, loc, Top.dir, loader, plain)
<1>1. /\ AtItem /\ frames # << >> /\ Top.part = "items" /\ kind # "test" /\ loc \in Files
      /\ frames' = Enter(frames, f) /\ UNCHANGED <<header, cwd, pc, pass, host>>
  BY DEF DataRef, Exists, AtItem
<1>2. /\ n \in Nat \ {0} /\ PassHost \in Hosts /\ Top.kind \in {"manifest", "test", "collect"}
  BY <1>1, TopFrame DEF Sound
<1>3. /\ loader.delims \in Delims /\ loader.host = PassHost
      /\ loader.delims = frames[TestIn(frames, n)].delims
  BY <1>1, <1>2, TestLoader
<1>4. kind \in {"collect", "data"} /\ (Top.kind = "collect" => kind = "data")
  BY <1>1, Referred
<1>5. plain \in BOOLEAN /\ ~plain
  OBVIOUS
<1> HIDE DEF plain, loader, kind
<1>6. /\ Sound(header, PassHost, f) /\ f.kind = kind /\ f.file = loc /\ f.given = loader.delims
  <2>1. header \in Headers /\ kind \in Kinds
    BY <1>4 DEF LoaderInvariant, Kinds
  <2> HIDE DEF loc
  <2> QED
    BY <1>1, <1>2, <1>3, <1>5, <2>1, NewFrame
<1> HIDE DEF f
<1>7. Like(frames)
  BY <1>1 DEF Like, LoaderInvariant
<1> QED
  BY <1>1, <1>2, <1>3, <1>4, <1>6, <1>7, EnterKeeps

(* A file is parsed, and its items are begun. *)
LEMMA ParseKeeps ==
  ASSUME LoaderInvariant, ParseManifest \/ ParseItems
  PROVE  LoaderInvariant'
<1>1. /\ frames # << >> /\ Top.kind \in {"manifest", "test", "collect"} /\ frames' = Parsed
      /\ UNCHANGED <<header, pass, host>> /\ Len(frames) \in Nat \ {0}
      /\ Top = frames[Len(frames)] /\ (Top.kind = "manifest" <=> Len(frames) = 1)
  BY TopFrame DEF ParseManifest, ParseItems, AtEnd
<1>2. cwd' = cwd \/ Len(frames) = 1
  BY <1>1 DEF ParseManifest, ParseItems
<1>3. Stack(frames', header, PassHost, cwd') /\ Len(frames') = Len(frames)
  BY <1>1, <1>2, ParsedStack
<1>4. PassHost' = PassHost /\ host = PassHost /\ frames' # << >>
  BY <1>1, <1>3, TopFrame DEF PassHost
<1>5. pc' = "run" /\ pass = 2
  <2>1. CASE ParseManifest
    BY <2>1 DEF ParseManifest
  <2>2. CASE ParseItems
    <3>1. Len(frames) \in 1 .. Len(frames) /\ Top.kind \notin {"manifest", "render"} /\ pc' = pc
      BY <1>1, <2>2 DEF ParseItems
    <3> QED
      BY <1>1, <3>1 DEF LoaderInvariant, Rendering
  <2> QED
    BY <2>1, <2>2
<1>6. Rendering'
  BY <1>1, <1>4, <1>5 DEF Rendering
<1> QED
  BY <1>1, <1>3, <1>4, <1>5, <1>6 DEF LoaderInvariant

(* The innermost file is done. *)
LEMMA ReturnKeeps ==
  ASSUME LoaderInvariant, ReturnText \/ ReturnItems
  PROVE  LoaderInvariant'
<1> DEFINE n == Len(frames)
<1>1. /\ frames # << >> /\ frames' = SubSeq(frames, 1, n - 1)
      /\ UNCHANGED <<header, cwd, pass, host>> /\ n \in Nat \ {0} /\ Top = frames[n] /\ (Top.kind = "manifest" <=> n = 1)
  BY TopFrame DEF ReturnText, ReturnItems, AtEnd, Front
<1>2. CASE Top.kind = "manifest"
  <2>1. pc' = "done" /\ n = 1
    BY <1>1, <1>2 DEF ReturnText, ReturnItems
  <2>2. frames' = << >>
    <3>1. frames' = SubSeq(frames, 1, 0) /\ 0 \in 0 .. Len(frames)
      BY <1>1, <2>1
    <3>2. Stack(frames', header, PassHost, cwd) /\ Len(frames') = 0
      BY <3>1, FramesDropped DEF LoaderInvariant
    <3> QED
      BY <3>2, EmptySeq DEF Stack
  <2> QED
    BY <1>1, <2>1, <2>2, EmptyKeeps
<1>3. CASE Top.kind # "manifest"
  <2>1. pc' = pc
    BY <1>3 DEF ReturnText, ReturnItems
  <2>2. n - 1 \in 1 .. n
    <3>1. n \in Nat \ {0} /\ n # 1
      BY <1>1, <1>3
    <3> HIDE DEF n
    <3> QED
      BY <3>1
  <2> QED
    BY <1>1, <2>1, <2>2, DropKeeps
<1> QED
  BY <1>2, <1>3

(* Every step keeps the invariant. *)
LEMMA LoaderInvariantStep == LoaderInvariant /\ [Next]_vars => LoaderInvariant'
<1> SUFFICES ASSUME LoaderInvariant, [Next]_vars PROVE LoaderInvariant'
  OBVIOUS
<1>1. CASE LoadManifest
  BY <1>1, LoadManifestKeeps
<1>2. CASE FileRender
  BY <1>2, FileRenderKeeps
<1>3. CASE ReturnText \/ ReturnItems
  BY <1>3, ReturnKeeps
<1>4. CASE ParseFirstManifest
  <2>1. frames # << >> /\ frames' = << >> /\ UNCHANGED <<header, cwd, pc, pass>> /\ pass = 1
        /\ host' = ReplaceHost
    BY <1>4 DEF ParseFirstManifest, AtEnd
  <2>2. pc = "load"
    BY <2>1 DEF LoaderInvariant, Rendering
  <2> QED
    BY <2>1, <2>2, EmptyKeeps
<1>5. CASE ParseManifest \/ ParseItems
  BY <1>5, ParseKeeps
<1>6. CASE TestRef
  BY <1>6, TestRefKeeps
<1>7. CASE DataRef
  BY <1>7, DataRefKeeps
<1>8. CASE Proceed
  <2>1. /\ AtItem /\ frames # << >> /\ frames' = Advance(frames)
        /\ UNCHANGED <<header, cwd, pc, pass, host>>
    BY <1>8 DEF Proceed, AtItem
  <2>2. Like(frames')
    BY <2>1, AdvanceStack
  <2>3. pc = "load" => \A i \in 1 .. Len(frames') : /\ frames'[i].part = "template"
                                                    /\ frames'[i].kind \in {"manifest", "render"}
    BY <2>2 DEF Like, LoaderInvariant, Rendering
  <2>4. frames' # << >> /\ Stack(frames', header, PassHost, cwd)
    BY <2>2 DEF Like
  <2> QED
    BY <2>1, <2>3, <2>4, StackKeeps
<1>9. CASE Forgive
  <2>1. PICK i \in 1 .. Len(frames) - 1 : frames' = SubSeq(frames, 1, i)
    BY <1>9 DEF Forgive
  <2>2. Len(frames) \in Nat /\ UNCHANGED <<header, cwd, pc, pass, host>>
    BY <1>9, LenProperties DEF Forgive, LoaderInvariant, Stack
  <2>3. i \in 1 .. Len(frames) /\ frames # << >>
    BY <2>1, <2>2
  <2> QED
    BY <2>1, <2>2, <2>3, DropKeeps
<1>10. CASE Fail
  <2>1. frames' = << >> /\ pc' = "failed" /\ UNCHANGED <<header, cwd, pass, host>>
    BY <1>10 DEF Fail
  <2> QED
    BY <2>1, EmptyKeeps
<1>11. CASE UNCHANGED vars
  BY <1>11 DEF vars, LoaderInvariant, Rendering, PassHost
<1> QED
  BY <1>1, <1>2, <1>3, <1>4, <1>5, <1>6, <1>7, <1>8, <1>9, <1>10, <1>11 DEF Next, Step

(* The loader's invariant holds throughout: each file in hand was reached from the
   one below it, and got the loader that the code gives it. *)
THEOREM LoaderIsInvariant == Spec => []LoaderInvariant
  BY InitLoader, LoaderInvariantStep, PTL DEF Spec

(***************************************************************************)
(* What the stack says                                                     *)
(***************************************************************************)

(* The frames are numbered from the manifest. *)
LEMMA FrameNumbers ==
  ASSUME LoaderInvariant
  PROVE  /\ DOMAIN frames = 1 .. Len(frames) /\ Len(frames) \in Nat
         /\ \A i \in 1 .. Len(frames) : /\ Sound(header, PassHost, frames[i]) /\ IsFrame(frames[i])
                                        /\ i > 1 => Sits(frames, PassHost, cwd, i)
                                        /\ frames[i].kind = "manifest" <=> i = 1
<1>1. DOMAIN frames = 1 .. Len(frames) /\ Len(frames) \in Nat
  BY LenProperties DEF LoaderInvariant, Stack
<1>2. ASSUME NEW i \in 1 .. Len(frames) PROVE frames[i].kind = "manifest" <=> i = 1
  <2>1. i = 1 => frames[i].kind = "manifest"
    BY DEF LoaderInvariant, Stack
  <2>2. i > 1 => frames[i].kind # "manifest"
    BY DEF LoaderInvariant, Stack, Sits
  <2> QED
    BY <1>1, <2>1, <2>2
<1> QED
  BY <1>1, <1>2 DEF LoaderInvariant, Stack, Sound

(* Type correctness. *)
THEOREM Loader_TypeCorrect == Spec => []TypeOK
<1>1. LoaderInvariant => TypeOK
  <2> SUFFICES ASSUME LoaderInvariant PROVE TypeOK
    OBVIOUS
  <2>1. ASSUME NEW i \in DOMAIN frames
        PROVE  /\ frames[i].kind \in {"manifest", "render", "test", "collect", "data"}
               /\ frames[i].file \in Files
               /\ {frames[i].used, frames[i].delims, frames[i].given} \subseteq Delims
               /\ frames[i].kind = "manifest" <=> i = 1
    <3>1. i \in 1 .. Len(frames) /\ IsFrame(frames[i])
      BY FrameNumbers
    <3>2. frames[i].kind = "manifest" <=> i = 1
      BY <3>1, FrameNumbers
    <3> QED
      BY <3>1, <3>2 DEF IsFrame, Kinds
  <2> QED
    BY <2>1 DEF LoaderInvariant, TypeOK
<1> QED
  BY <1>1, LoaderIsInvariant, PTL

(* A plain relative path is taken from the directory of the file it is written
   in, however the file was reached (template_funcs.go:380,
   api_testsuite.go:283), unless that file is a request or a response. *)
THEOREM Loader_DirIsWhereItLies == Spec => []DirIsWhereItLies
<1>1. LoaderInvariant => DirIsWhereItLies
  BY FrameNumbers DEF Sound, DirIsWhereItLies
<1> QED
  BY <1>1, LoaderIsInvariant, PTL

(* When a test, request or response is done, the loader of the test that refers to
   it is as it was: what any number of nested files declare and render does not
   reach it, nor what a file of collect responses does on the way
   (template_loader.go:90, api_testcase.go:200, :600). *)
THEOREM Loader_LeakConfined == Spec => []LeakConfined
<1>1. LoaderInvariant => LeakConfined
  <2> SUFFICES ASSUME LoaderInvariant, NEW i \in 2 .. Len(frames), frames[i].kind # "render"
               PROVE  frames[TestOf(i - 1)].delims = frames[i].given
    BY DEF LeakConfined
  <2>1. i \in 1 .. Len(frames) /\ i > 1
    BY FrameNumbers
  <2>2. Sits(frames, PassHost, cwd, i) /\ TestOf(i - 1) = TestIn(frames, i - 1)
    BY <2>1, FrameNumbers DEF TestOf, TestIn
  <2> QED
    BY <2>2 DEF Sits
<1> QED
  BY <1>1, LoaderIsInvariant, PTL

(* The host of the command line is known to every file that is loaded to run the
   suite, at any depth, and none is loaded there but by references of files that
   were rendered with it; the first pass over the manifest knows none
   (api_testsuite.go:142, :276, :480). *)
THEOREM Loader_HostReplaced == Spec => []HostReplaced
<1>1. LoaderInvariant => HostReplaced
  <2> SUFFICES ASSUME LoaderInvariant PROVE HostReplaced
    OBVIOUS
  <2>1. \A i \in DOMAIN frames : frames[i].host = IF pass = 1 THEN NoHost ELSE ReplaceHost
    BY FrameNumbers DEF Sound, PassHost
  <2>2. ASSUME pc = "run", NEW i \in 2 .. Len(frames)
        PROVE  \E path \in References(frames[i - 1].file) :
                 frames[i].file = LocalPath(path, frames[i - 1].dir)
    <3>1. pass = 2 /\ PassHost = ReplaceHost /\ i \in 1 .. Len(frames) /\ i > 1
      BY <2>2, FrameNumbers DEF LoaderInvariant, Rendering, PassHost
    <3>2. Sits(frames, ReplaceHost, cwd, i)
      BY <3>1, FrameNumbers
    <3> QED
      BY <3>2 DEF Sits, References, ReferencesOf, LocalPath, PathIn
  <2> QED
    BY <2>1, <2>2 DEF HostReplaced
<1> QED
  BY <1>1, LoaderIsInvariant, PTL

(* The frame whose delimiters frame i goes on with. *)
Source(i) == IF frames[i].kind = "render" THEN i - 1 ELSE TestOf(i - 1)

(* Where nothing is overridden, a file that declares no delimiters is parsed with
   those of the frame it goes on from: the one that renders it, or the test. *)
LEMMA Inherited ==
  ASSUME LoaderInvariant, NoOverride, NEW i \in 2 .. Len(frames),
         header[frames[i].file].declares = NoDelims
  PROVE  /\ Source(i) \in 1 .. Len(frames) /\ Source(i) < i
         /\ frames[i].used = frames[Source(i)].used
<1>1. i \in 1 .. Len(frames) /\ i > 1 /\ i - 1 \in 1 .. Len(frames) /\ i - 1 < i
  BY FrameNumbers
<1>2. Sits(frames, PassHost, cwd, i) /\ Sound(header, PassHost, frames[i])
  BY <1>1, FrameNumbers
<1>3. \A j \in 1 .. Len(frames) : frames[j].kind # "collect" \/ frames[j].part = "template"
        => frames[Owner(j)].delims = frames[j].used
  BY FrameNumbers DEF NoOverride
<1>4. CASE frames[i].kind = "render"
  <2>1. Owner(i) = Owner(i - 1)
    BY <1>1, <1>4, OwnerFrame
  <2>2. frames[i - 1].part = "template"
    BY <1>2, <1>4 DEF Sits
  <2>3. frames[Owner(i)].delims = frames[i].used /\ frames[Owner(i - 1)].delims = frames[i - 1].used
    BY <1>1, <1>3, <1>4, <2>2
  <2> QED
    BY <1>1, <1>4, <2>1, <2>3 DEF Source
<1>5. CASE frames[i].kind # "render"
  <2> DEFINE t == TestIn(frames, i - 1)
  <2>1. TestOf(i - 1) = t
    BY DEF TestOf, TestIn
  <2>2. t \in 1 .. Len(frames) /\ t < i /\ frames[t].kind \in {"manifest", "test"}
    BY <1>1, <1>5, Below DEF LoaderInvariant
  <2>3. frames[t].delims = frames[i].given
    BY <1>2, <1>5 DEF Sits
  <2> HIDE DEF t
  <2>4. Owner(t) = t
    BY <2>2, OwnerFrame
  <2>5. frames[t].delims = frames[t].used
    BY <1>3, <2>2, <2>4
  <2>6. frames[i].used = frames[i].given
    BY <1>2 DEF Sound, RenderedBy
  <2> QED
    BY <1>5, <2>1, <2>2, <2>3, <2>5, <2>6 DEF Source
<1> QED
  BY <1>4, <1>5

(* The frames whose declaration may be that of frame i. *)
Own(i) == {j \in 1 .. i : /\ header[frames[j].file].declares # NoDelims
                          /\ frames[j].kind = "collect" => Owner(i) = j}

Declared(S) == IF S = {} THEN DefaultDelims
               ELSE header[frames[CHOOSE j \in S : \A h \in S : h <= j].file].declares

(* They are the same for the frame it goes on from, if it declares nothing. *)
LEMMA OwnInherited ==
  ASSUME LoaderInvariant, NEW i \in 2 .. Len(frames), header[frames[i].file].declares = NoDelims
  PROVE  Own(i) = Own(Source(i))
<1>1. i \in 1 .. Len(frames) /\ i > 1 /\ i - 1 \in 1 .. Len(frames) /\ i - 1 < i /\ i \in Nat
  BY FrameNumbers
<1>2. CASE frames[i].kind = "render"
  <2>1. Owner(i) = Owner(i - 1) /\ Source(i) = i - 1
    BY <1>1, <1>2, OwnerFrame DEF Source
  <2>2. \A j \in 1 .. i : header[frames[j].file].declares # NoDelims => j \in 1 .. i - 1
    BY <1>1
  <2> QED
    BY <1>1, <2>1, <2>2 DEF Own
<1>3. CASE frames[i].kind # "render"
  <2> DEFINE t == TestIn(frames, i - 1)
  <2>1. Source(i) = t
    BY <1>3 DEF Source, TestOf, TestIn
  <2>2. t \in 1 .. Len(frames) /\ t < i /\ frames[t].kind \in {"manifest", "test"}
    BY <1>1, <1>3, Below DEF LoaderInvariant
  <2>3. t = i - 1 \/ (t = i - 2 /\ frames[i - 1].kind = "collect")
    BY <1>1 DEF TestIn
  <2> HIDE DEF t
  <2>4. Owner(i) = i /\ Owner(t) = t
    BY <1>1, <1>3, <2>2, OwnerFrame
  <2>5. ASSUME NEW j \in Own(i) PROVE j \in Own(t)
    <3>1. j \in 1 .. i /\ header[frames[j].file].declares # NoDelims /\ j # i
      BY <2>5 DEF Own
    <3>2. frames[j].kind # "collect"
      BY <2>4, <2>5, <3>1 DEF Own
    <3>3. j \in 1 .. t
      BY <1>1, <2>2, <2>3, <3>1, <3>2
    <3> QED
      BY <3>1, <3>2, <3>3 DEF Own
  <2>6. ASSUME NEW j \in Own(t) PROVE j \in Own(i)
    <3>1. j \in 1 .. t /\ header[frames[j].file].declares # NoDelims /\ j \in 1 .. i
      BY <1>1, <2>2, <2>6 DEF Own
    <3>2. frames[j].kind # "collect"
      BY <2>2, <2>4, <2>6 DEF Own
    <3> QED
      BY <3>1, <3>2 DEF Own
  <2> QED
    BY <2>1, <2>5, <2>6
<1> QED
  BY <1>2, <1>3

(* A file that declares delimiters is parsed with them; the others, as long as
   no rendered file has overridden them, with those of the innermost file
   around them that declares some (template_loader.go:86, README.md:540), for
   any depth of nesting; the entries of a file of collect responses with those of
   the test, whatever that file declares (api_testcase.go:200, :600). *)
THEOREM Loader_DelimsInherited == Spec => []DelimsInherited
<1>1. LoaderInvariant => DelimsInherited
  <2> SUFFICES ASSUME LoaderInvariant, NoOverride
               PROVE  \A i \in 1 .. Len(frames) : frames[i].used = Documented(i)
    BY FrameNumbers DEF DelimsInherited
  <2> DEFINE Agrees(i) == frames[i].used = Documented(i)
             T == {n \in Nat : \A i \in 1 .. n : i <= Len(frames) => Agrees(i)}
  <2>1. \A i \in 1 .. Len(frames) : Documented(i) = Declared(Own(i))
    BY Zenon DEF Documented, Declared, Own
  <2>2. ASSUME NEW i \in 1 .. Len(frames), header[frames[i].file].declares # NoDelims
        PROVE  Agrees(i)
    <3>1. frames[i].used = header[frames[i].file].declares
      BY <2>2, FrameNumbers DEF Sound, RenderedBy
    <3>2. i \in Nat /\ (frames[i].kind = "collect" => Owner(i) = i)
      BY OwnerFrame
    <3>3. i \in Own(i) /\ \A h \in Own(i) : h <= i /\ h \in Nat
      BY <2>2, <3>2 DEF Own
    <3>4. \A j \in Own(i) : (\A h \in Own(i) : h <= j) => j = i
      BY <3>2, <3>3
    <3>5. (CHOOSE j \in Own(i) : \A h \in Own(i) : h <= j) = i
      BY <3>3, <3>4, Zenon
    <3>6. Declared(Own(i)) = header[frames[i].file].declares
      BY <3>3, <3>5 DEF Declared
    <3> QED
      BY <2>1, <3>1, <3>6
  <2>3. ASSUME NEW i \in 1 .. Len(frames), header[frames[i].file].declares = NoDelims, i = 1
        PROVE  Agrees(i)
    <3>1. Own(i) = {}
      BY <2>3 DEF Own
    <3>2. frames[i].given = DefaultDelims
      BY <2>3 DEF LoaderInvariant, Stack
    <3>3. frames[i].used = frames[i].given
      BY <2>3, FrameNumbers DEF Sound, RenderedBy
    <3> QED
      BY <2>1, <3>1, <3>2, <3>3 DEF Declared
  <2>4. ASSUME NEW i \in 2 .. Len(frames), header[frames[i].file].declares = NoDelims,
               Agrees(Source(i))
        PROVE  Agrees(i)
    <3>1. /\ Source(i) \in 1 .. Len(frames) /\ frames[i].used = frames[Source(i)].used
          /\ i \in 1 .. Len(frames)
      BY <2>4, Inherited, FrameNumbers
    <3>2. Own(i) = Own(Source(i))
      BY <2>4, OwnInherited
    <3> QED
      BY <2>1, <2>4, <3>1, <3>2
  <2> HIDE DEF Agrees
  <2>5. 0 \in T
    OBVIOUS
  <2>6. ASSUME NEW n \in T PROVE n + 1 \in T
    <3> SUFFICES ASSUME NEW i \in 1 .. n + 1, i <= Len(frames) PROVE Agrees(i)
      OBVIOUS
    <3>1. i \in 1 .. Len(frames) /\ n \in Nat /\ (i = 1 \/ i \in 2 .. Len(frames))
      BY FrameNumbers
    <3>2. CASE header[frames[i].file].declares # NoDelims
      BY <2>2, <3>1, <3>2
    <3>3. CASE header[frames[i].file].declares = NoDelims /\ i = 1
      BY <2>3, <3>1, <3>3
    <3>4. CASE header[frames[i].file].declares = NoDelims /\ i \in 2 .. Len(frames)
      <4>1. Source(i) \in 1 .. Len(frames) /\ Source(i) < i
        BY <3>4, Inherited
      <4>2. Source(i) \in 1 .. n /\ Source(i) <= Len(frames)
        BY <3>1, <4>1, FrameNumbers
      <4>3. Agrees(Source(i))
        BY <4>2
      <4> QED
        BY <2>4, <3>4, <4>3
    <3> QED
      BY <3>1, <3>2, <3>3, <3>4
  <2>7. T = Nat
    <3>1. T \in SUBSET Nat
      OBVIOUS
    <3> HIDE DEF T
    <3> QED
      BY <2>5, <2>6, <3>1, Inductive
  <2>8. ASSUME NEW i \in 1 .. Len(frames) PROVE Agrees(i)
    <3>1. Len(frames) \in T
      <4> HIDE DEF T
      <4> QED
        BY <2>7, FrameNumbers
    <3>2. i <= Len(frames)
      BY FrameNumbers
    <3> QED
      BY <3>1, <3>2
  <2> QED
    BY <2>8 DEF Agrees
<1> QED
  BY <1>1, LoaderIsInvariant, PTL

=============================================================================
