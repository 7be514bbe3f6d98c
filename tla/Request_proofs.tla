---------------------------- MODULE Request_proofs ----------------------------
(***************************************************************************)
(* Proofs about the building and sending of requests, for any number of    *)
(* senders, any requests and any number of redirects.                      *)
(*                                                                         *)
(* What the client does with a request depends on the client's policy and  *)
(* jar at the time: the invariant says that the client a sender uses still *)
(* has what its own request asked for.  That is so for every sender with a *)
(* copy of the client, and for one that uses the shared one alone.         *)
(*                                                                         *)
(* What a request is built of depends on the order of the maps: the        *)
(* invariant says, for every name and by the entries that the loops have   *)
(* taken so far, what stands under it and that nothing else does.          *)
(***************************************************************************)
EXTENDS Request, SequenceTheorems, TLAPS

(***************************************************************************)
(* The client                                                              *)
(***************************************************************************)

(* A request with a jar never uses the shared client, and the others never a
   jar. *)
JarKept ==
  /\ ~shared.jar
  /\ \A s \in Senders :
       /\ s \in JarSenders /\ sending[s] => own[s].jar
       /\ withJar[s] = (s \in JarSenders /\ (sending[s] \/ answer[s] # "none"))

ClientInvariant == TypeOK /\ JarKept

(* The redirect policy of the client that s uses is that of its request. *)
PolicyKept(s) ==
  /\ sending[s] => ClientOf(s).stop = noRedirect[s]
  /\ noRedirect[s] => hops[s] = 0

(* What Send does to the clients. *)
LEMMA SendStep ==
  ASSUME ClientInvariant, NEW s \in Senders, NEW nr \in BOOLEAN, Send(s, nr)
  PROVE  ClientInvariant'
<1> USE DEF ClientInvariant
<1>1. /\ sending' = [sending EXCEPT ![s] = TRUE]
      /\ noRedirect' = [noRedirect EXCEPT ![s] = nr]
      /\ hops' = [hops EXCEPT ![s] = 0]
      /\ withJar' = [withJar EXCEPT ![s] = ClientOf(s)'.jar]
      /\ answer' = [answer EXCEPT ![s] = "none"]
  BY DEF Send
<1>2. /\ shared' \in Client /\ own' \in [Senders -> Client] /\ ~shared'.jar
      /\ s \in JarSenders => own'[s].jar
      /\ \A t \in Senders : t # s => own'[t] = own[t]
  <2>1. CASE s \in JarSenders
    <3> DEFINE c == [jar |-> TRUE, stop |-> nr]
    <3>1. c \in Client /\ c.jar
      BY DEF Client
    <3>2. own' = [own EXCEPT ![s] = c] /\ shared' = shared
      BY <2>1 DEF Send, SetClient
    <3> HIDE DEF c
    <3> QED
      BY <3>1, <3>2 DEF TypeOK, JarKept
  <2>2. CASE s \notin JarSenders
    BY <2>2 DEF Send, SetClient, TypeOK, Client, JarKept
  <2> QED
    BY <2>1, <2>2
<1>3. ClientOf(s)'.jar = (s \in JarSenders)
  BY <1>2 DEF ClientOf, Client
<1>4. TypeOK'
  <2>1. /\ sending' \in [Senders -> BOOLEAN] /\ noRedirect' \in [Senders -> BOOLEAN]
        /\ answer' \in [Senders -> {"none", "final", "redirect", "error"}]
    BY <1>1 DEF TypeOK
  <2>2. hops' \in [Senders -> 0 .. HopLimit - 1]
    BY <1>1, ClientAssumption DEF TypeOK
  <2>3. withJar' \in [Senders -> BOOLEAN]
    BY <1>1, <1>3 DEF TypeOK
  <2> QED
    BY <1>2, <2>1, <2>2, <2>3 DEF TypeOK
<1>5. JarKept'
  BY <1>1, <1>2, <1>3 DEF JarKept, TypeOK
<1> QED
  BY <1>4, <1>5

(* What a step of the exchange does: it ends, or follows a redirect. *)
LEMMA ExchangeStep ==
  ASSUME ClientInvariant, NEW s \in Senders, Exchange(s)
  PROVE  ClientInvariant'
<1> USE DEF ClientInvariant
<1>1. ASSUME NEW a \in {"final", "redirect", "error"}, sending[s], Finish(s, a),
             UNCHANGED <<shared, own, noRedirect, hops, withJar>>
      PROVE  ClientInvariant'
  BY <1>1 DEF Finish, TypeOK, JarKept
<1>2. CASE FollowRedirect(s)
  <2>1. /\ sending[s] /\ hops' = [hops EXCEPT ![s] = @ + 1] /\ hops[s] < HopLimit - 1
        /\ withJar' = [withJar EXCEPT ![s] = @ \/ ClientOf(s).jar]
        /\ UNCHANGED <<shared, own, sending, noRedirect, answer>>
    BY <1>2 DEF FollowRedirect
  <2>2. withJar' = withJar
    BY <2>1 DEF TypeOK, JarKept, ClientOf, Client
  <2>3. hops' \in [Senders -> 0 .. HopLimit - 1]
    BY <2>1, ClientAssumption DEF TypeOK
  <2> QED
    BY <2>1, <2>2, <2>3 DEF TypeOK, JarKept
<1> QED
  BY <1>1, <1>2 DEF Exchange, Final, StopAtRedirect, SendError

(* Nobody has sent anything at the start. *)
LEMMA InitClient == Init => ClientInvariant
<1> SUFFICES ASSUME Init PROVE ClientInvariant
  OBVIOUS
<1>1. shared \in Client /\ ~shared.jar
  BY DEF Init, Client
<1>2. own = [s \in Senders |-> shared]
  BY DEF Init
<1>3. /\ sending = [s \in Senders |-> FALSE] /\ noRedirect = [s \in Senders |-> FALSE]
      /\ hops = [s \in Senders |-> 0] /\ withJar = [s \in Senders |-> FALSE]
      /\ answer = [s \in Senders |-> "none"]
  BY DEF Init
<1>4. TypeOK
  BY <1>1, <1>2, <1>3, ClientAssumption DEF TypeOK
<1>5. JarKept
  BY <1>1, <1>3 DEF JarKept
<1> QED
  BY <1>4, <1>5 DEF ClientInvariant

(* Every step of the client keeps the invariant. *)
LEMMA ClientStep == ClientInvariant /\ [Next]_vars => ClientInvariant'
<1> SUFFICES ASSUME ClientInvariant, [Next]_vars PROVE ClientInvariant'
  OBVIOUS
<1>1. CASE UNCHANGED vars
  BY <1>1 DEF vars, ClientInvariant, TypeOK, JarKept
<1> QED
  BY <1>1, SendStep, ExchangeStep DEF Next

(* Other senders do not touch the client that s uses, if it is a copy or s is
   the only one without a copy. *)
LEMMA PolicyStep ==
  ASSUME NEW s \in Senders, s \in JarSenders \/ \A t \in Senders \ JarSenders : t = s
  PROVE  ClientInvariant /\ PolicyKept(s) /\ [Next]_vars => PolicyKept(s)'
<1> SUFFICES ASSUME ClientInvariant, PolicyKept(s), [Next]_vars PROVE PolicyKept(s)'
  OBVIOUS
<1> USE DEF ClientInvariant
<1>1. ASSUME NEW t \in Senders, NEW nr \in BOOLEAN, Send(t, nr) PROVE PolicyKept(s)'
  <2>1. /\ sending' = [sending EXCEPT ![t] = TRUE] /\ hops' = [hops EXCEPT ![t] = 0]
        /\ noRedirect' = [noRedirect EXCEPT ![t] = nr] /\ SetClient(t, nr)
    BY <1>1 DEF Send
  <2>2. CASE t = s
    <3>1. ClientOf(s)'.stop = nr
      <4>1. CASE s \in JarSenders
        BY <2>1, <2>2, <4>1 DEF SetClient, ClientOf, TypeOK
      <4>2. CASE s \notin JarSenders
        BY <2>1, <2>2, <4>2 DEF SetClient, ClientOf, TypeOK, Client
      <4> QED
        BY <4>1, <4>2
    <3> QED
      BY <2>1, <2>2, <3>1 DEF PolicyKept, TypeOK
  <2>3. CASE t # s
    <3>1. ClientOf(s)' = ClientOf(s)
      BY <2>1, <2>3 DEF SetClient, ClientOf, TypeOK
    <3> QED
      BY <2>1, <2>3, <3>1 DEF PolicyKept, TypeOK
  <2> QED
    BY <2>2, <2>3
<1>2. ASSUME NEW t \in Senders, Exchange(t) PROVE PolicyKept(s)'
  <2>1. shared' = shared /\ own' = own /\ noRedirect' = noRedirect
    BY <1>2 DEF Exchange, Final, StopAtRedirect, FollowRedirect, SendError
  <2>2. ClientOf(s)' = ClientOf(s)
    BY <2>1 DEF ClientOf
  <2>3. CASE FollowRedirect(t)
    BY <2>1, <2>2, <2>3 DEF FollowRedirect, PolicyKept, TypeOK
  <2>4. CASE ~FollowRedirect(t)
    <3>1. hops' = hops /\ (sending'[s] => sending[s])
      BY <1>2, <2>4 DEF Exchange, Final, StopAtRedirect, SendError, Finish, TypeOK
    <3> QED
      BY <2>1, <2>2, <3>1 DEF PolicyKept
  <2> QED
    BY <2>3, <2>4
<1>3. CASE UNCHANGED vars
  BY <1>3 DEF vars, PolicyKept, ClientOf
<1> QED
  BY <1>1, <1>2, <1>3 DEF Next

(* The invariant of the client holds throughout; its first part is that every
   variable of clients and senders keeps its type (request.go:330-365). *)
THEOREM Client_IsInvariant == Spec => []ClientInvariant
  BY InitClient, ClientStep, PTL DEF Spec

(* Cookies of the jar travel only with requests of a suite that has opted in
   (request.go:337). *)
THEOREM Client_JarOnlyForOptedIn == Spec => []JarOnlyForOptedIn
<1>1. ClientInvariant => JarOnlyForOptedIn
  BY DEF ClientInvariant, JarKept, JarOnlyForOptedIn, TypeOK
<1> QED
  BY <1>1, Client_IsInvariant, PTL

(* What NoRedirectHonoured says, for the senders with a client of their own. *)
JarPolicyHonoured == \A s \in JarSenders : noRedirect[s] => hops[s] = 0

(* A request with no_redirect of a suite with a cookie jar follows none,
   however many others send requests (request.go:337-345). *)
THEOREM Client_JarPolicyHonoured == Spec => []JarPolicyHonoured
<1> DEFINE Kept == \A s \in JarSenders : PolicyKept(s)
<1>1. Init => Kept
  BY ClientAssumption DEF Init, PolicyKept
<1>2. ClientInvariant /\ Kept /\ [Next]_vars => Kept'
  BY PolicyStep, ClientAssumption
<1>3. Kept => JarPolicyHonoured
  BY DEF PolicyKept, JarPolicyHonoured
<1> QED
  BY <1>1, <1>2, <1>3, Client_IsInvariant, PTL DEF Spec

(* And so does every request with no_redirect, if at most one sender uses the
   shared client (request.go:344, README.md:222).  Without that it is false, as
   two senders of one suite show. *)
THEOREM Client_NoRedirectHonoured ==
  ASSUME \A s, t \in Senders \ JarSenders : s = t
  PROVE  Spec => []NoRedirectHonoured
<1> DEFINE Kept == \A s \in Senders : PolicyKept(s)
<1>1. Init => Kept
  BY DEF Init, PolicyKept
<1>2. ClientInvariant /\ Kept /\ [Next]_vars => Kept'
  BY PolicyStep
<1>3. Kept => NoRedirectHonoured
  BY DEF PolicyKept, NoRedirectHonoured
<1> QED
  BY <1>1, <1>2, <1>3, Client_IsInvariant, PTL DEF Spec

(***************************************************************************)
(* Header maps                                                             *)
(***************************************************************************)

(* If nothing was there but under that name, nothing is but what is put. *)
LEMMA PutReplaces ==
  ASSUME NEW h, NEW m, NEW old, OnlyAt(h, m, old), NEW vs
  PROVE  OnlyAt(Put(h, m, vs), m, vs)
<1> DEFINE h2 == Put(h, m, vs)
<1>1. Get(h2, m) = vs /\ DOMAIN h2 = DOMAIN h \cup {m} /\ \A k \in DOMAIN h : k # m => h2[k] = h[k]
  BY DEF Put, Get
<1> HIDE DEF h2
<1>2. OnlyAt(h2, m, vs)
  BY <1>1 DEF OnlyAt
<1> QED
  BY <1>2 DEF h2

(* Other names are left alone. *)
LEMMA PutElsewhere ==
  ASSUME NEW h, NEW m, NEW old, OnlyAt(h, m, old), NEW k, Canonical[k] # Canonical[m], NEW vs
  PROVE  OnlyAt(Put(h, k, vs), m, old)
<1> DEFINE h2 == Put(h, k, vs)
<1>1. k # m
  OBVIOUS
<1>2. Get(h2, m) = old
  BY <1>1 DEF Put, Get, OnlyAt
<1>3. DOMAIN h2 = DOMAIN h \cup {k} /\ \A j \in DOMAIN h : j # k => h2[j] = h[j]
  BY DEF Put, Get
<1> HIDE DEF h2
<1>4. OnlyAt(h2, m, old)
  BY <1>2, <1>3 DEF OnlyAt
<1> QED
  BY <1>4 DEF h2

(* Deleting leaves nothing, or other names alone. *)
LEMMA DelHere ==
  ASSUME NEW h, NEW n, NEW old, OnlyAt(h, Canonical[n], old)
  PROVE  OnlyAt(Del(h, n), Canonical[n], << >>)
  BY DEF Del, Get, OnlyAt

(* Deleting a name leaves alone what is under other names. *)
LEMMA DelElsewhere ==
  ASSUME NEW h, NEW n, NEW m, NEW old, OnlyAt(h, m, old), Canonical[n] # m
  PROVE  OnlyAt(Del(h, n), m, old)
  BY DEF Del, Get, OnlyAt

(***************************************************************************)
(* Building a request                                                      *)
(***************************************************************************)

HeaderNames(r) ==
  (Names(r) \cup {"Content-Type", "Authorization"}) \ {"Cookie", "X-Test-Set-Cookies"}

(* What stands under the name n in the header h, when the loops over the parts
   of r still have the entries in t to take. *)
ExpectedAt(r, t, h, n) ==
  IF n \in DOMAIN r.header \ t.header
    THEN \E m \in Spellings(n) : OnlyAt(h, m, OwnValues(r.header[n]))
    ELSE OnlyAt(h, Canonical[n],
                IF n \in DOMAIN r.headerStore \ t.headerStore
                  THEN StoredOrDefault(r, n) ELSE Get(StartHeader(r), Canonical[n]))

HeaderBuilt(r, t, h) == Unambiguous(r) => \A n \in HeaderNames(r) : ExpectedAt(r, t, h, n)

(* The cookies taken are parts of one value. *)
TakenCookies(r, t) == {n \in DOMAIN r.cookies \ t.cookies : r.cookies[n] # NilCookie}

CookiesBuilt(r, t, h) == Unambiguous(r) /\ TakenCookies(r, t) # {} =>
  \E v : /\ Get(h, "Cookie") = <<v>> /\ v # Whole("")
         /\ \A n \in TakenCookies(r, t) : <<n, CookieValue(r.cookies[n])>> \in v

(* The cookies that the server is to set are taken one after the other. *)
SetCookiesBuilt(r, t, h) ==
  LET S  == {Whole(c) : c \in Range(r.setCookies)}
      vs == Get(h, "X-Test-Set-Cookies") IN
  /\ r.setCookies \in Seq(Range(r.setCookies))
  /\ \E k \in 0 .. Len(r.setCookies) :
       /\ t.setCookies = k + 1 .. Len(r.setCookies)
       /\ Unambiguous(r) /\ "X-Test-Set-Cookies" \notin Names(r) =>
            /\ vs \in Seq(S) /\ Len(vs) = k
            /\ \A i \in 1 .. k : vs[i] = Whole(r.setCookies[i])

(* What stands in the query under a name that the test's own loop has not set. *)
QueryBuilt(r, t, q) == \A n :
  Get(q, n) = IF n \in DOMAIN r.params \ t.params THEN <<r.params[n].text>>
              ELSE IF n \in DOMAIN r.paramStore \ t.paramStore THEN StoredParam(r.paramStore[n])
              ELSE << >>

(* A loop begins when the one before it is done. *)
Ordered(r, t) ==
  /\ t.params = DOMAIN r.params \/ t.paramStore = {}
  /\ t.header = DOMAIN r.header \/ t.headerStore = {}
  /\ t.cookies = DOMAIN r.cookies \/ (t.headerStore = {} /\ t.header = {})

LegalRequest(r) ==
  /\ DOMAIN r.header \cup DOMAIN r.headerStore \subseteq DOMAIN Canonical
  /\ \A n \in DOMAIN r.cookies :
       r.cookies[n] = NilCookie \/ r.cookies[n].store \in {""} \cup DOMAIN StoreValue

SenderIntact(b, r, t, h, q) ==
  /\ b \in BOOLEAN /\ r.noRedirect \in BOOLEAN /\ DOMAIN t = Parts
  /\ b => /\ LegalRequest(r) /\ Ordered(r, t)
          /\ HeaderBuilt(r, t, h) /\ CookiesBuilt(r, t, h) /\ SetCookiesBuilt(r, t, h)
          /\ QueryBuilt(r, t, q)

BySender(f) == f = [s \in Senders |-> f[s]]

BuildInvariant ==
  /\ BySender(building) /\ BySender(request) /\ BySender(todo) /\ BySender(header) /\ BySender(query)
  /\ \A s \in Senders, p \in Parts : todo[s][p] \subseteq DOMAIN request[s][p]
  /\ \A s \in Senders : SenderIntact(building[s], request[s], todo[s], header[s], query[s])

Without(t, p, n) == [t EXCEPT ![p] = @ \ {n}]

(* Names of a request that is not ambiguous are not spellings of one. *)
LEMMA NamesApart ==
  ASSUME NEW r, LegalRequest(r), Unambiguous(r), NEW n \in HeaderNames(r)
  PROVE  /\ n \in DOMAIN Canonical /\ Canonical[n] \in Spellings(n) /\ n \in Spellings(n)
         /\ Canonical[Canonical[n]] = Canonical[n]
         /\ Canonical[n] # "Cookie" /\ Canonical[n] # "X-Test-Set-Cookies"
         /\ \A m \in Names(r) : m # n => Canonical[m] # Canonical[n]
<1>1. n \in Names(r) \cup OwnNames /\ n # "Cookie" /\ n # "X-Test-Set-Cookies"
  BY DEF HeaderNames, OwnNames
<1>2. n \in DOMAIN Canonical
  BY <1>1, NamesAssumption DEF Names, LegalRequest
<1>3. \A m \in Names(r) \cup OwnNames : m # n => Canonical[m] # Canonical[n]
  BY <1>1 DEF Unambiguous
<1>4. /\ "Cookie" \in OwnNames /\ Canonical["Cookie"] = "Cookie"
      /\ "X-Test-Set-Cookies" \in OwnNames /\ Canonical["X-Test-Set-Cookies"] = "X-Test-Set-Cookies"
  BY NamesAssumption DEF OwnNames
<1> QED
  BY <1>1, <1>2, <1>3, <1>4, NamesAssumption DEF Spellings

(* A name of a request that is not ambiguous is a spelling of the name of the
   cookies to set only if it is that name. *)
LEMMA SetCookiesApart ==
  ASSUME NEW r, Unambiguous(r), NEW n \in Names(r), "X-Test-Set-Cookies" \notin Names(r)
  PROVE  Canonical[n] # "X-Test-Set-Cookies"
<1>1. "X-Test-Set-Cookies" \in OwnNames /\ Canonical["X-Test-Set-Cookies"] = "X-Test-Set-Cookies"
  BY NamesAssumption DEF OwnNames
<1>2. n # "X-Test-Set-Cookies"
  OBVIOUS
<1> QED
  BY <1>1, <1>2 DEF Unambiguous

(* What is not put under the name of the cookies to set leaves them alone. *)
LEMMA SetCookiesKept ==
  ASSUME NEW r, NEW t, NEW h, SetCookiesBuilt(r, t, h),
         NEW t2, t2.setCookies = t.setCookies, NEW h2,
         Unambiguous(r) /\ "X-Test-Set-Cookies" \notin Names(r) =>
           Get(h2, "X-Test-Set-Cookies") = Get(h, "X-Test-Set-Cookies")
  PROVE  SetCookiesBuilt(r, t2, h2)
  BY DEF SetCookiesBuilt

(* The header at the start has only the defaults, under canonical names. *)
LEMMA StartHeaderOnly ==
  ASSUME NEW r, NEW c, Canonical[c] = c
  PROVE  /\ OnlyAt(StartHeader(r), c, Get(StartHeader(r), c))
         /\ c \notin OwnNames => Get(StartHeader(r), c) = << >>
<1> DEFINE h == StartHeader(r)
<1>1. Canonical["User-Agent"] = "User-Agent" /\ Canonical["Authorization"] = "Authorization"
      /\ Canonical["Content-Type"] = "Content-Type"
  BY NamesAssumption DEF OwnNames
<1>2. DOMAIN h = {"User-Agent", "Authorization", "Content-Type"}
  BY <1>1 DEF StartHeader, Set, Put
<1>3. c \notin OwnNames => c \notin DOMAIN h
  BY <1>2 DEF OwnNames
<1> HIDE DEF h
<1>4. \A k \in DOMAIN h \ {c} : Canonical[k] = Canonical[c] => h[k] = << >>
  BY <1>1, <1>2
<1> QED
  BY <1>3, <1>4 DEF OnlyAt, Get, h

(* What an entry of a part leaves to do. *)
LEMMA WithoutEntry ==
  ASSUME NEW t, DOMAIN t = Parts, NEW p \in Parts, NEW n
  PROVE  /\ DOMAIN Without(t, p, n) = Parts /\ Without(t, p, n)[p] = t[p] \ {n}
         /\ \A p2 \in Parts : p2 # p => Without(t, p, n)[p2] = t[p2]
  BY DEF Without

(* An entry of "header_from_store" is taken. *)
LEMMA HeaderFromStoreTaken ==
  ASSUME NEW r, NEW t, NEW h, NEW q, SenderIntact(TRUE, r, t, h, q),
         NEW n \in t.headerStore, n \in DOMAIN r.headerStore,
         NEW h2 \in HeaderFromStore(h, n, r.headerStore[n])
  PROVE  SenderIntact(TRUE, r, Without(t, "headerStore", n), h2, q)
<1> DEFINE t2 == Without(t, "headerStore", n)
           c == Canonical[n]
           v == StoreValue[r.headerStore[n].key]
<1> USE DEF SenderIntact
<1>1. /\ DOMAIN t2 = Parts /\ t2.headerStore = t.headerStore \ {n}
      /\ t2.header = t.header /\ t2.params = t.params /\ t2.paramStore = t.paramStore
      /\ t2.cookies = t.cookies /\ t2.setCookies = t.setCookies
  BY WithoutEntry DEF Parts
<1> HIDE DEF t2
<1>2. t.header = DOMAIN r.header /\ t.cookies = DOMAIN r.cookies
  BY DEF Ordered
<1>3. Ordered(r, t2) /\ QueryBuilt(r, t2, q) /\ CookiesBuilt(r, t2, h2)
  BY <1>1, <1>2 DEF Ordered, QueryBuilt, CookiesBuilt, TakenCookies
<1>4. h2 = h \/ \E vs : h2 = Put(h, c, vs)
  BY DEF HeaderFromStore, Set, Add
<1>6. SetCookiesBuilt(r, t2, h2)
  <2>1. ASSUME Unambiguous(r), "X-Test-Set-Cookies" \notin Names(r)
        PROVE  Get(h2, "X-Test-Set-Cookies") = Get(h, "X-Test-Set-Cookies")
    <3>1. c # "X-Test-Set-Cookies"
      BY <2>1, SetCookiesApart DEF Names
    <3> QED
      BY <1>4, <3>1 DEF Put, Get
  <2> QED
    BY <1>1, <2>1, SetCookiesKept
<1>5. ASSUME Unambiguous(r), NEW k \in HeaderNames(r) PROVE ExpectedAt(r, t2, h2, k)
  <2>0. ExpectedAt(r, t, h, k) /\ k \notin DOMAIN r.header \ t.header
    BY <1>2, <1>5 DEF HeaderBuilt
  <2>1. CASE k # n
    <3>1. n \in Names(r) /\ Canonical[k] # c /\ Canonical[Canonical[k]] = Canonical[k]
      BY <1>5, <2>1, NamesApart DEF Names
    <3>2. Canonical[c] = c
      BY NamesAssumption DEF LegalRequest
    <3>3. ASSUME NEW vs, OnlyAt(h, Canonical[k], vs) PROVE OnlyAt(h2, Canonical[k], vs)
      BY <1>4, <3>1, <3>2, <3>3, PutElsewhere
    <3> QED
      BY <1>1, <2>0, <2>1, <3>3 DEF ExpectedAt
  <2>2. CASE k = n
    <3> DEFINE default == Get(StartHeader(r), c)
    <3>1. OnlyAt(h, c, default)
      BY <2>0, <2>2 DEF ExpectedAt
    <3>2. OnlyAt(h2, c, StoredOrDefault(r, n))
      <4>1. CASE v.kind = "missing"
        BY <3>1, <4>1 DEF HeaderFromStore, StoredOrDefault
      <4>2. CASE v.kind = "list"
        <5>0. h2 = Add(h, n, Strings(v.items))
          BY <4>2 DEF HeaderFromStore
        <5>1. h2 = Put(h, c, default \o Strings(v.items))
          BY <3>1, <5>0 DEF Add, OnlyAt
        <5>2. StoredOrDefault(r, n) = default \o Strings(v.items)
          BY <4>2 DEF StoredOrDefault
        <5> QED
          BY <3>1, <5>1, <5>2, PutReplaces
      <4>3. CASE v.kind = "text" /\ v.text = ""
        BY <3>1, <4>3 DEF HeaderFromStore, StoredOrDefault
      <4>4. CASE v.kind = "text" /\ v.text # ""
        <5>1. h2 = Put(h, c, <<Whole(v.text)>>)
          BY <4>4 DEF HeaderFromStore, Set
        <5>2. StoredOrDefault(r, n) = <<Whole(v.text)>>
          BY <4>4 DEF StoredOrDefault
        <5> QED
          BY <3>1, <5>1, <5>2, PutReplaces
      <4>5. CASE v.kind \notin {"missing", "list", "text"}
        BY <4>5 DEF HeaderFromStore
      <4> QED
        BY <4>1, <4>2, <4>3, <4>4, <4>5
    <3> QED
      BY <1>1, <2>0, <2>2, <3>2 DEF ExpectedAt
  <2> QED
    BY <2>1, <2>2
<1> QED
  BY <1>1, <1>3, <1>5, <1>6 DEF HeaderBuilt, t2

(* An entry of "header" is taken. *)
LEMMA HeaderTaken ==
  ASSUME NEW r, NEW t, NEW h, NEW q, SenderIntact(TRUE, r, t, h, q),
         NEW n \in t.header, n \in DOMAIN r.header, t.headerStore = {},
         NEW h2 \in OwnHeader(h, n, r.header[n])
  PROVE  SenderIntact(TRUE, r, Without(t, "header", n), h2, q)
<1> DEFINE t2 == Without(t, "header", n)
           c == Canonical[n]
           v == r.header[n]
<1> USE DEF SenderIntact
<1>1. /\ DOMAIN t2 = Parts /\ t2.header = t.header \ {n}
      /\ t2.headerStore = t.headerStore /\ t2.params = t.params /\ t2.paramStore = t.paramStore
      /\ t2.cookies = t.cookies /\ t2.setCookies = t.setCookies
  BY WithoutEntry DEF Parts
<1> HIDE DEF t2
<1>2. t.cookies = DOMAIN r.cookies
  BY DEF Ordered
<1>3. Ordered(r, t2) /\ QueryBuilt(r, t2, q) /\ CookiesBuilt(r, t2, h2)
  BY <1>1, <1>2 DEF Ordered, QueryBuilt, CookiesBuilt, TakenCookies
<1>4. Canonical[c] = c
  BY NamesAssumption DEF LegalRequest
<1>5. h2 = Del(h, n) \/ \E k, vs : Canonical[k] = c /\ h2 = Put(h, k, vs)
  BY <1>4 DEF OwnHeader, Set
<1>7. SetCookiesBuilt(r, t2, h2)
  <2>1. ASSUME Unambiguous(r), "X-Test-Set-Cookies" \notin Names(r)
        PROVE  Get(h2, "X-Test-Set-Cookies") = Get(h, "X-Test-Set-Cookies")
    <3>1. /\ c # "X-Test-Set-Cookies"
          /\ Canonical["X-Test-Set-Cookies"] = "X-Test-Set-Cookies"
      BY <2>1, SetCookiesApart, NamesAssumption DEF Names, OwnNames
    <3> QED
      BY <1>5, <3>1 DEF Put, Get, Del
  <2> QED
    BY <1>1, <2>1, SetCookiesKept
<1>6. ASSUME Unambiguous(r), NEW k \in HeaderNames(r) PROVE ExpectedAt(r, t2, h2, k)
  <2>0. ExpectedAt(r, t, h, k)
    BY <1>6 DEF HeaderBuilt
  <2>1. CASE k # n
    <3>1. n \in Names(r) /\ Canonical[k] # c /\ Canonical[Canonical[k]] = Canonical[k]
      BY <1>6, <2>1, NamesApart DEF Names
    <3>2. ASSUME NEW m, Canonical[m] = Canonical[k], NEW vs, OnlyAt(h, m, vs) PROVE OnlyAt(h2, m, vs)
      <4>1. CASE h2 = Del(h, n)
        BY <1>4, <3>1, <3>2, <4>1, DelElsewhere
      <4>2. ASSUME NEW j, NEW new, Canonical[j] = c, h2 = Put(h, j, new) PROVE OnlyAt(h2, m, vs)
        BY <3>1, <3>2, <4>2, PutElsewhere
      <4> QED
        BY <1>5, <4>1, <4>2
    <3>3. k \in DOMAIN r.header \ t2.header <=> k \in DOMAIN r.header \ t.header
      BY <1>1, <2>1
    <3>4. CASE k \in DOMAIN r.header \ t.header
      <4>1. PICK m \in Spellings(k) : OnlyAt(h, m, OwnValues(r.header[k]))
        BY <2>0, <3>4 DEF ExpectedAt
      <4>2. OnlyAt(h2, m, OwnValues(r.header[k]))
        BY <3>2, <4>1 DEF Spellings
      <4> QED
        BY <3>3, <3>4, <4>2 DEF ExpectedAt
    <3>5. CASE k \notin DOMAIN r.header \ t.header
      BY <1>1, <2>0, <3>1, <3>2, <3>3, <3>5 DEF ExpectedAt
    <3> QED
      BY <3>4, <3>5
  <2>2. CASE k = n
    <3>1. PICK old : OnlyAt(h, c, old) /\ (n \notin DOMAIN r.headerStore => old = Get(StartHeader(r), c))
      BY <2>0, <2>2 DEF ExpectedAt
    <3>2. c \in Spellings(n) /\ n \in Spellings(n)
      BY <1>6, <2>2, NamesApart
    <3>3. \E m \in Spellings(n) : OnlyAt(h2, m, OwnValues(v))
      <4>1. CASE v.kind = "text" /\ v.text = ""
        <5>1. h2 = Del(h, n) /\ OwnValues(v) = << >>
          BY <4>1 DEF OwnHeader, OwnValues
        <5> QED
          BY <3>1, <3>2, <5>1, DelHere
      <4>2. CASE v.kind = "text" /\ v.text # ""
        <5>1. h2 = Put(h, c, <<Whole(v.text)>>) /\ OwnValues(v) = <<Whole(v.text)>>
          BY <4>2 DEF OwnHeader, OwnValues, Set
        <5> QED
          BY <3>1, <3>2, <5>1, PutReplaces
      <4>3. CASE v.kind = "list"
        <5>1. h2 = Put(h, n, Wholes(v.items)) /\ OwnValues(v) = Wholes(v.items)
          BY <4>3 DEF OwnHeader, OwnValues
        <5>2. OnlyAt(h, n, IF c = n THEN old ELSE << >>)
          <6>1. CASE c = n
            BY <3>1, <6>1
          <6>2. CASE c # n
            <7>1. n \notin DOMAIN r.headerStore
              BY <1>6, <4>3, <6>2 DEF Unambiguous
            <7>2. c \notin OwnNames
              BY <1>4, <1>6, <6>2 DEF Unambiguous, Names
            <7>3. old = << >>
              BY <1>4, <3>1, <7>1, <7>2, StartHeaderOnly
            <7> QED
              BY <1>4, <3>1, <6>2, <7>3 DEF OnlyAt, Get
          <6> QED
            BY <6>1, <6>2
        <5> QED
          BY <3>2, <5>1, <5>2, PutReplaces
      <4>4. CASE v.kind \notin {"text", "list"}
        BY <4>4 DEF OwnHeader
      <4> QED
        BY <4>1, <4>2, <4>3, <4>4
    <3> QED
      BY <1>1, <2>2, <3>3 DEF ExpectedAt
  <2> QED
    BY <2>1, <2>2
<1> QED
  BY <1>1, <1>3, <1>6, <1>7 DEF HeaderBuilt, t2

(* What is put under another name than those that a test gives headers for. *)
LEMMA PutOther ==
  ASSUME NEW r, LegalRequest(r), NEW t, NEW h, HeaderBuilt(r, t, h),
         NEW k \in {"Cookie", "X-Test-Set-Cookies"}, NEW vs
  PROVE  HeaderBuilt(r, t, Put(h, k, vs))
<1> SUFFICES ASSUME Unambiguous(r), NEW n \in HeaderNames(r) PROVE ExpectedAt(r, t, Put(h, k, vs), n)
  BY DEF HeaderBuilt
<1>1. /\ Canonical[n] # Canonical[k] /\ Canonical[Canonical[n]] = Canonical[n]
  <2>1. Canonical[k] = k
    BY NamesAssumption DEF OwnNames
  <2> QED
    BY <2>1, NamesApart
<1>2. \A m, old : Canonical[m] = Canonical[n] /\ OnlyAt(h, m, old) => OnlyAt(Put(h, k, vs), m, old)
  BY <1>1, PutElsewhere
<1>3. ExpectedAt(r, t, h, n)
  BY DEF HeaderBuilt
<1>4. CASE n \in DOMAIN r.header \ t.header
  BY <1>2, <1>3, <1>4 DEF ExpectedAt, Spellings
<1>5. CASE n \notin DOMAIN r.header \ t.header
  BY <1>1, <1>2, <1>3, <1>5 DEF ExpectedAt
<1> QED
  BY <1>4, <1>5

(* A list of one value, or of none, has no other value. *)
LEMMA RangeOfOne ==
  ASSUME NEW y, NEW v \in Range(<<y>>)
  PROVE  v = y
  BY DEF Range

LEMMA RangeOfNone ==
  ASSUME NEW v \in Range(<< >>)
  PROVE  FALSE
  BY DEF Range

(* A cookie is made with one value only. *)
LEMMA CookieTakesItsValue ==
  ASSUME NEW h, NEW n, NEW c, c # NilCookie, NEW h2 \in OwnCookie(h, n, c),
         c.store \in {""} \cup DOMAIN StoreValue
  PROVE  h2 = AddCookie(h, n, CookieValue(c))
<1>1. PICK v \in Range(StoredCookie(c)) :
        h2 = AddCookie(h, n, IF c.value # "" THEN c.value ELSE v)
  BY DEF OwnCookie
<1>2. CASE c.store # "" /\ StoreValue[c.store].kind = "cookie"
  <2>1. StoreValue[c.store].items = <<StoreValue[c.store].items[1]>>
    BY <1>2, RequestAssumption
  <2>2. StoredCookie(c) = StoreValue[c.store].items
    BY <1>2 DEF StoredCookie
  <2>3. v = StoreValue[c.store].items[1]
    <3> DEFINE y == StoreValue[c.store].items[1]
    <3>1. v \in Range(<<y>>)
      BY <1>1, <2>1, <2>2
    <3> QED
      BY <3>1, RangeOfOne
  <2> QED
    BY <1>1, <1>2, <2>3 DEF CookieValue
<1>3. CASE ~(c.store # "" /\ StoreValue[c.store].kind = "cookie")
  <2>1. StoredCookie(c) = <<"">> \/ StoredCookie(c) = << >>
    BY <1>3 DEF StoredCookie, Missing, Value
  <2>2. CASE StoredCookie(c) = <<"">>
    <3>1. v = ""
      BY <1>1, <2>2, RangeOfOne
    <3> QED
      BY <1>1, <1>3, <3>1 DEF CookieValue
  <2>3. CASE StoredCookie(c) = << >>
    BY <1>1, <2>3, RangeOfNone
  <2> QED
    BY <2>1, <2>2, <2>3
<1> QED
  BY <1>2, <1>3

(* An entry of "cookies" is taken. *)
LEMMA CookieTaken ==
  ASSUME NEW r, NEW t, NEW h, NEW q, SenderIntact(TRUE, r, t, h, q),
         NEW n \in t.cookies, n \in DOMAIN r.cookies, t.headerStore = {}, t.header = {},
         NEW h2 \in OwnCookie(h, n, r.cookies[n])
  PROVE  SenderIntact(TRUE, r, Without(t, "cookies", n), h2, q)
<1> DEFINE t2 == Without(t, "cookies", n)
           vs == Get(h, "Cookie")
           rest == IF vs = << >> \/ vs[1] = Whole("") THEN {} ELSE vs[1]
<1> USE DEF SenderIntact
<1>1. /\ DOMAIN t2 = Parts /\ t2.cookies = t.cookies \ {n}
      /\ t2.headerStore = t.headerStore /\ t2.params = t.params /\ t2.paramStore = t.paramStore
      /\ t2.header = t.header /\ t2.setCookies = t.setCookies
  BY WithoutEntry DEF Parts
<1> HIDE DEF t2
<1>2. Ordered(r, t2) /\ QueryBuilt(r, t2, q)
  BY <1>1 DEF Ordered, QueryBuilt
<1>3. HeaderBuilt(r, t2, h)
  BY <1>1 DEF HeaderBuilt, ExpectedAt
<1>4. CASE r.cookies[n] = NilCookie
  <2>1. h2 = h /\ TakenCookies(r, t2) = TakenCookies(r, t)
    BY <1>1, <1>4 DEF OwnCookie, TakenCookies
  <2>2. SetCookiesBuilt(r, t2, h2)
    BY <1>1, <2>1, SetCookiesKept
  <2> QED
    BY <1>1, <1>2, <1>3, <2>1, <2>2 DEF CookiesBuilt, t2
<1>5. CASE r.cookies[n] # NilCookie
  <2> DEFINE val == CookieValue(r.cookies[n])
  <2>1. h2 = Put(h, "Cookie", <<{<<n, val>>} \cup rest>>)
    <3>1. h2 = AddCookie(h, n, val)
      BY <1>5, CookieTakesItsValue DEF LegalRequest
    <3>2. Canonical["Cookie"] = "Cookie"
      BY NamesAssumption DEF OwnNames
    <3> QED
      BY <3>1, <3>2 DEF AddCookie, Set
  <2>7. SetCookiesBuilt(r, t2, h2)
    <3>1. Get(h2, "X-Test-Set-Cookies") = Get(h, "X-Test-Set-Cookies")
      BY <2>1 DEF Put, Get
    <3> QED
      BY <1>1, <3>1, SetCookiesKept
  <2> HIDE DEF val
  <2> DEFINE v == {<<n, val>>} \cup rest
  <2>2. HeaderBuilt(r, t2, h2)
    BY <1>3, <2>1, PutOther
  <2>3. Get(h2, "Cookie") = <<v>>
    BY <2>1 DEF Put, Get
  <2>4. v # Whole("")
    <3>1. <<n, val>> # <<"">>
      OBVIOUS
    <3> QED
      BY <3>1 DEF Whole
  <2>5. ASSUME Unambiguous(r), NEW k \in TakenCookies(r, t2)
        PROVE  <<k, CookieValue(r.cookies[k])>> \in v
    <3>1. CASE k = n
      BY <3>1 DEF val
    <3>2. CASE k # n
      <4>1. k \in TakenCookies(r, t)
        BY <1>1, <2>5, <3>2 DEF TakenCookies
      <4>2. PICK w : vs = <<w>> /\ w # Whole("") /\ <<k, CookieValue(r.cookies[k])>> \in w
        BY <2>5, <4>1 DEF CookiesBuilt
      <4>3. vs # << >> /\ vs[1] = w
        <5>1. <<w>> # << >> /\ <<w>>[1] = w
          OBVIOUS
        <5> HIDE DEF vs
        <5> QED
          BY <4>2, <5>1
      <4>4. rest = w
        BY <4>2, <4>3
      <4> HIDE DEF rest
      <4> QED
        BY <4>2, <4>4
    <3> QED
      BY <3>1, <3>2
  <2>6. CookiesBuilt(r, t2, h2)
    <3> HIDE DEF v
    <3> QED
      BY <2>3, <2>4, <2>5 DEF CookiesBuilt
  <2> QED
    BY <1>1, <1>2, <2>2, <2>6, <2>7 DEF t2
<1> QED
  BY <1>4, <1>5

(* An entry of "header-x-test-set-cookie" is taken. *)
LEMMA SetCookieTaken ==
  ASSUME NEW r, NEW t, NEW h, NEW q, SenderIntact(TRUE, r, t, h, q),
         NEW n \in t.setCookies, \A m \in t.setCookies : n <= m,
         NEW h2 \in SetCookie(h, r.setCookies[n])
  PROVE  SenderIntact(TRUE, r, Without(t, "setCookies", n), h2, q)
<1> DEFINE t2 == Without(t, "setCookies", n)
<1> USE DEF SenderIntact
<1>1. /\ DOMAIN t2 = Parts /\ t2.cookies = t.cookies
      /\ t2.headerStore = t.headerStore /\ t2.params = t.params /\ t2.paramStore = t.paramStore
      /\ t2.header = t.header /\ t2.setCookies = t.setCookies \ {n}
  BY WithoutEntry DEF Parts
<1> HIDE DEF t2
<1>2. Ordered(r, t2) /\ QueryBuilt(r, t2, q)
  BY <1>1 DEF Ordered, QueryBuilt
<1>3. HeaderBuilt(r, t2, h)
  BY <1>1 DEF HeaderBuilt, ExpectedAt
<1>4. PICK vs : h2 = Put(h, "X-Test-Set-Cookies", vs)
  <2>1. Canonical["X-Test-Set-Cookies"] = "X-Test-Set-Cookies"
    BY NamesAssumption DEF OwnNames
  <2> QED
    BY <2>1 DEF SetCookie, Add
<1>5. HeaderBuilt(r, t2, h2)
  BY <1>3, <1>4, PutOther
<1>6. Get(h2, "Cookie") = Get(h, "Cookie") /\ TakenCookies(r, t2) = TakenCookies(r, t)
  BY <1>1, <1>4 DEF Put, Get, TakenCookies
<1>7. CookiesBuilt(r, t2, h2)
  BY <1>6 DEF CookiesBuilt
<1>8. SetCookiesBuilt(r, t2, h2)
  <2> DEFINE sc == r.setCookies
             S  == {Whole(c) : c \in Range(sc)}
             got == Get(h, "X-Test-Set-Cookies")
             got2 == Get(h2, "X-Test-Set-Cookies")
             w == Whole(sc[n])
  <2>1. sc \in Seq(Range(sc))
    BY DEF SetCookiesBuilt
  <2>2. PICK k \in 0 .. Len(sc) :
          /\ t.setCookies = k + 1 .. Len(sc)
          /\ Unambiguous(r) /\ "X-Test-Set-Cookies" \notin Names(r) =>
               got \in Seq(S) /\ Len(got) = k /\ \A i \in 1 .. k : got[i] = Whole(sc[i])
    BY DEF SetCookiesBuilt
  <2>3. n = k + 1 /\ k + 1 \in 0 .. Len(sc) /\ t2.setCookies = (k + 1) + 1 .. Len(sc)
    <3> HIDE DEF sc
    <3>1. Len(sc) \in Nat /\ n \in k + 1 .. Len(sc)
      BY <2>1, <2>2
    <3>2. k + 1 \in t.setCookies
      BY <2>2, <3>1
    <3>3. n = k + 1
      BY <3>1, <3>2
    <3> QED
      BY <1>1, <2>2, <3>1, <3>3
  <2>4. got2 = got \o <<w>>
    <3>1. Canonical["X-Test-Set-Cookies"] = "X-Test-Set-Cookies"
      BY NamesAssumption DEF OwnNames
    <3> QED
      BY <3>1 DEF SetCookie, Add, Put, Get
  <2>5. w \in S
    BY <2>1, <2>3 DEF Range
  <2>6. ASSUME Unambiguous(r), "X-Test-Set-Cookies" \notin Names(r)
        PROVE  got2 \in Seq(S) /\ Len(got2) = k + 1 /\ \A i \in 1 .. k + 1 : got2[i] = Whole(sc[i])
    <3>1. got \in Seq(S) /\ Len(got) = k /\ \A i \in 1 .. k : got[i] = Whole(sc[i])
      BY <2>2, <2>6
    <3> HIDE DEF got, got2, S, w
    <3>2. got \o <<w>> \in Seq(S) /\ Len(got \o <<w>>) = k + 1
          /\ (got \o <<w>>)[k + 1] = w /\ \A i \in 1 .. k : (got \o <<w>>)[i] = got[i]
      BY <2>2, <2>5, <3>1
    <3>3. w = Whole(sc[k + 1])
      BY <2>3 DEF w
    <3> QED
      BY <2>2, <2>4, <3>1, <3>2, <3>3
  <2> HIDE DEF sc, S, got, got2, w
  <2>7. \E j \in 0 .. Len(sc) :
          /\ t2.setCookies = j + 1 .. Len(sc)
          /\ Unambiguous(r) /\ "X-Test-Set-Cookies" \notin Names(r) =>
               got2 \in Seq(S) /\ Len(got2) = j /\ \A i \in 1 .. j : got2[i] = Whole(sc[i])
    BY <2>3, <2>6
  <2> QED
    BY <2>1, <2>7 DEF SetCookiesBuilt, sc, S, got2
<1> QED
  BY <1>1, <1>2, <1>5, <1>7, <1>8 DEF t2

(* An entry of "query_params_from_store" is taken. *)
LEMMA ParamFromStoreTaken ==
  ASSUME NEW r, NEW t, NEW h, NEW q, SenderIntact(TRUE, r, t, h, q),
         NEW n \in t.paramStore, n \in DOMAIN r.paramStore,
         NEW q2 \in ParamFromStore(q, n, r.paramStore[n])
  PROVE  SenderIntact(TRUE, r, Without(t, "paramStore", n), h, q2)
<1> DEFINE t2 == Without(t, "paramStore", n)
<1> USE DEF SenderIntact
<1>1. /\ DOMAIN t2 = Parts /\ t2.cookies = t.cookies /\ t2.paramStore = t.paramStore \ {n}
      /\ t2.headerStore = t.headerStore /\ t2.params = t.params /\ t2.header = t.header
      /\ t2.setCookies = t.setCookies
  BY WithoutEntry DEF Parts
<1> HIDE DEF t2
<1>2. Ordered(r, t2) /\ QueryBuilt(r, t2, q2)
  <2>1. t.params = DOMAIN r.params
    BY DEF Ordered
  <2>2. Ordered(r, t2)
    BY <1>1, <2>1 DEF Ordered
  <2>3. Get(q, n) = << >> /\ Append(<< >>, StoreValue[r.paramStore[n].key].text)
                              = <<StoreValue[r.paramStore[n].key].text>>
    BY <2>1 DEF QueryBuilt
  <2>4. Get(q2, n) = StoredParam(r.paramStore[n])
    BY <2>3 DEF ParamFromStore, StoredParam, Put, Get
  <2>5. ASSUME NEW m, m # n PROVE Get(q2, m) = Get(q, m)
    <3>1. q2 = q \/ \E ws : q2 = Put(q, n, ws)
      BY DEF ParamFromStore
    <3> QED
      BY <2>5, <3>1 DEF Put, Get
  <2> QED
    BY <1>1, <2>1, <2>2, <2>4, <2>5 DEF QueryBuilt
<1>3. HeaderBuilt(r, t2, h) /\ CookiesBuilt(r, t2, h) /\ SetCookiesBuilt(r, t2, h)
  BY <1>1, SetCookiesKept DEF HeaderBuilt, ExpectedAt, CookiesBuilt, TakenCookies
<1> QED
  BY <1>1, <1>2, <1>3 DEF t2

(* An entry of "query_params" is taken. *)
LEMMA ParamTaken ==
  ASSUME NEW r, NEW t, NEW h, NEW q, SenderIntact(TRUE, r, t, h, q), NEW n \in t.params,
         n \in DOMAIN r.params, t.paramStore = {}
  PROVE  SenderIntact(TRUE, r, Without(t, "params", n), h, Put(q, n, <<r.params[n].text>>))
<1> DEFINE t2 == Without(t, "params", n)
           q2 == Put(q, n, <<r.params[n].text>>)
<1> USE DEF SenderIntact
<1>1. /\ DOMAIN t2 = Parts /\ t2.cookies = t.cookies /\ t2.params = t.params \ {n}
      /\ t2.headerStore = t.headerStore /\ t2.paramStore = t.paramStore /\ t2.header = t.header
      /\ t2.setCookies = t.setCookies
  BY WithoutEntry DEF Parts
<1> HIDE DEF t2
<1>2. Ordered(r, t2)
  BY <1>1 DEF Ordered
<1>3. QueryBuilt(r, t2, q2)
  <2>1. Get(q2, n) = <<r.params[n].text>> /\ \A m : m # n => Get(q2, m) = Get(q, m)
    BY DEF Put, Get
  <2> HIDE DEF q2
  <2> QED
    BY <1>1, <2>1 DEF QueryBuilt
<1>4. HeaderBuilt(r, t2, h) /\ CookiesBuilt(r, t2, h) /\ SetCookiesBuilt(r, t2, h)
  BY <1>1, SetCookiesKept DEF HeaderBuilt, ExpectedAt, CookiesBuilt, TakenCookies
<1> QED
  BY <1>1, <1>2, <1>3, <1>4 DEF t2

(* The order of the loops. *)
LEMMA TurnOrder ==
  ASSUME NEW s \in Senders, NEW p, NEW n, Turn(s, p, n)
  PROVE  /\ p = "params" => todo[s].paramStore = {}
         /\ p = "header" => todo[s].headerStore = {}
         /\ p = "cookies" => todo[s].headerStore = {} /\ todo[s].header = {}
<1>1. /\ DOMAIN Order = 1 .. 6 /\ Order[1] = "paramStore" /\ Order[2] = "params"
      /\ Order[3] = "headerStore" /\ Order[4] = "header" /\ Order[5] = "cookies"
  BY DEF Order
<1>2. \A i, j \in 1 .. 6 : Order[j] = p /\ i < j => todo[s][Order[i]] = {}
  BY <1>1 DEF Turn
<1>3. p = "params" => todo[s]["paramStore"] = {}
  BY <1>1, <1>2
<1>4. p = "header" => todo[s]["headerStore"] = {}
  BY <1>1, <1>2
<1>5. p = "cookies" => todo[s]["headerStore"] = {} /\ todo[s]["header"] = {}
  BY <1>1, <1>2
<1> QED
  BY <1>3, <1>4, <1>5

(* The part p of the empty request has no entries. *)
LEMMA NothingToBuild ==
  /\ NoRequest.noRedirect = FALSE
  /\ DOMAIN Entries(NoRequest) = Parts
  /\ \A p \in Parts : Entries(NoRequest)[p] = DOMAIN NoRequest[p]
<1>1. NoRequest.noRedirect = FALSE
  BY DEF NoRequest
<1> QED
  BY <1>1 DEF Entries

(* One sender's request is changed, and is intact. *)
LEMMA OneSender ==
  ASSUME BuildInvariant, NEW s \in Senders, NEW b, NEW r, NEW t, NEW h, NEW q,
         SenderIntact(b, r, t, h, q), \A p \in Parts : t[p] \subseteq DOMAIN r[p],
         building' = [building EXCEPT ![s] = b], request' = [request EXCEPT ![s] = r],
         todo' = [todo EXCEPT ![s] = t], header' = [header EXCEPT ![s] = h],
         query' = [query EXCEPT ![s] = q]
  PROVE  BuildInvariant'
<1>0. /\ BySender(building) /\ BySender(request) /\ BySender(todo) /\ BySender(header) /\ BySender(query)
  BY DEF BuildInvariant
<1>1. /\ BySender(building)' /\ BySender(request)' /\ BySender(todo)' /\ BySender(header)' /\ BySender(query)'
  BY <1>0 DEF BySender
<1>2. /\ building'[s] = b /\ request'[s] = r /\ todo'[s] = t /\ header'[s] = h /\ query'[s] = q
      /\ \A u \in Senders \ {s} : /\ building'[u] = building[u] /\ request'[u] = request[u]
                                  /\ todo'[u] = todo[u] /\ header'[u] = header[u] /\ query'[u] = query[u]
  BY <1>0 DEF BySender
<1>3. \A u \in Senders : SenderIntact(building'[u], request'[u], todo'[u], header'[u], query'[u])
  BY <1>2 DEF BuildInvariant
<1>4. \A u \in Senders, p \in Parts : todo'[u][p] \subseteq DOMAIN request'[u][p]
  BY <1>2 DEF BuildInvariant
<1> QED
  BY <1>1, <1>3, <1>4 DEF BuildInvariant

(* A step that takes nothing from the request of sender s keeps the build. *)
LEMMA LeaveStep ==
  ASSUME BuildInvariant, NEW s \in Senders, LeaveBuild(s)
  PROVE  BuildInvariant'
<1> DEFINE t == Entries(NoRequest)
<1>1. SenderIntact(FALSE, NoRequest, t, << >>, << >>)
  BY NothingToBuild DEF SenderIntact
<1>2. \A p \in Parts : t[p] \subseteq DOMAIN NoRequest[p]
  BY NothingToBuild
<1> QED
  BY <1>1, <1>2, OneSender DEF LeaveBuild

(* A loop takes an entry: what it makes of the header, or of the query, is
   intact. *)
LEMMA NextHeaderStep ==
  ASSUME BuildInvariant, NEW s \in Senders, NEW p \in Parts, NEW n, NEW results,
         building[s], NextHeader(s, p, n, results),
         \A h \in results : SenderIntact(TRUE, request[s], Without(todo[s], p, n), h, query[s])
  PROVE  BuildInvariant'
<1> DEFINE t == Without(todo[s], p, n)
           r == request[s]
           q == query[s]
<1>1. CASE LeaveBuild(s)
  BY <1>1, LeaveStep
<1>2. ASSUME NEW h \in results, header' = [header EXCEPT ![s] = h],
             todo' = [todo EXCEPT ![s][p] = @ \ {n}], UNCHANGED <<building, request, query>>
      PROVE  BuildInvariant'
  <2>1. todo' = [todo EXCEPT ![s] = t]
    BY <1>2 DEF Without, BuildInvariant, BySender
  <2>2. building[s] = TRUE
    BY DEF BuildInvariant, SenderIntact
  <2>3. /\ building' = [building EXCEPT ![s] = TRUE] /\ request' = [request EXCEPT ![s] = r]
        /\ query' = [query EXCEPT ![s] = q] /\ header' = [header EXCEPT ![s] = h]
    BY <1>2, <2>2 DEF BuildInvariant, BySender
  <2>4. SenderIntact(TRUE, r, t, h, q)
    BY <1>2
  <2>5. \A p2 \in Parts : t[p2] \subseteq DOMAIN r[p2]
    BY WithoutEntry DEF BuildInvariant, SenderIntact
  <2> HIDE DEF t, r, q
  <2> QED
    BY <2>1, <2>3, <2>4, <2>5, OneSender
<1> QED
  BY <1>1, <1>2 DEF NextHeader

(* A step of one of the query loops keeps the build of every sender. *)
LEMMA NextQueryStep ==
  ASSUME BuildInvariant, NEW s \in Senders, NEW p \in Parts, NEW n, NEW results,
         building[s], NextQuery(s, p, n, results),
         \A q \in results : SenderIntact(TRUE, request[s], Without(todo[s], p, n), header[s], q)
  PROVE  BuildInvariant'
<1> DEFINE t == Without(todo[s], p, n)
<1>1. CASE LeaveBuild(s)
  BY <1>1, LeaveStep
<1>2. ASSUME NEW q \in results, query' = [query EXCEPT ![s] = q],
             todo' = [todo EXCEPT ![s][p] = @ \ {n}], UNCHANGED <<building, request, header>>
      PROVE  BuildInvariant'
  <2>1. todo' = [todo EXCEPT ![s] = t]
    BY <1>2 DEF Without, BuildInvariant, BySender
  <2>2. building[s] = TRUE
    BY DEF BuildInvariant, SenderIntact
  <2>3. /\ building' = [building EXCEPT ![s] = TRUE] /\ request' = [request EXCEPT ![s] = request[s]]
        /\ header' = [header EXCEPT ![s] = header[s]]
    BY <1>2, <2>2 DEF BuildInvariant, BySender
  <2>4. SenderIntact(TRUE, request[s], t, header[s], q)
    BY <1>2
  <2>5. \A p2 \in Parts : t[p2] \subseteq DOMAIN request[s][p2]
    BY WithoutEntry DEF BuildInvariant, SenderIntact
  <2> HIDE DEF t
  <2> QED
    BY <1>2, <2>1, <2>3, <2>4, <2>5, OneSender
<1> QED
  BY <1>1, <1>2 DEF NextQuery

(* Every step of building keeps what is built intact. *)
LEMMA BuildStepIntact ==
  ASSUME BuildInvariant, NEW s \in Senders, BuildStep(s)
  PROVE  BuildInvariant'
<1> DEFINE r == request[s]
           t == todo[s]
           h == header[s]
           q == query[s]
<1>0. /\ building[s] => SenderIntact(TRUE, r, t, h, q)
      /\ t.header \subseteq DOMAIN r.header /\ t.headerStore \subseteq DOMAIN r.headerStore
      /\ t.cookies \subseteq DOMAIN r.cookies /\ t.params \subseteq DOMAIN r.params
      /\ t.paramStore \subseteq DOMAIN r.paramStore
  <2>1. building[s] \in BOOLEAN /\ SenderIntact(building[s], r, t, h, q)
    BY DEF BuildInvariant, SenderIntact
  <2> QED
    BY <2>1 DEF BuildInvariant, Parts
<1>1. CASE TakeParamFromStore(s)
  <2>1. PICK n \in t.paramStore :
          /\ Turn(s, "paramStore", n)
          /\ NextQuery(s, "paramStore", n, ParamFromStore(q, n, r.paramStore[n]))
    BY <1>1 DEF TakeParamFromStore
  <2>2. building[s]
    BY <2>1 DEF Turn
  <2>3. \A q2 \in ParamFromStore(q, n, r.paramStore[n]) :
          SenderIntact(TRUE, r, Without(t, "paramStore", n), h, q2)
    BY <1>0, <2>2, ParamFromStoreTaken
  <2> QED
    BY <2>1, <2>2, <2>3, NextQueryStep DEF Parts
<1>2. CASE TakeParam(s)
  <2>1. PICK n \in t.params :
          /\ Turn(s, "params", n)
          /\ NextQuery(s, "params", n, {Put(q, n, <<r.params[n].text>>)})
    BY <1>2 DEF TakeParam
  <2>2. building[s] /\ t.paramStore = {}
    BY <2>1, TurnOrder DEF Turn
  <2> DEFINE results == {Put(q, n, <<r.params[n].text>>)}
  <2>3. \A q2 \in results : SenderIntact(TRUE, r, Without(t, "params", n), h, q2)
    BY <1>0, <2>2, ParamTaken
  <2>4. NextQuery(s, "params", n, results)
    BY <2>1
  <2> HIDE DEF results
  <2> QED
    BY <2>2, <2>3, <2>4, NextQueryStep DEF Parts
<1>3. CASE TakeHeaderFromStore(s)
  <2>1. PICK n \in t.headerStore :
          /\ Turn(s, "headerStore", n)
          /\ NextHeader(s, "headerStore", n, HeaderFromStore(h, n, r.headerStore[n]))
    BY <1>3 DEF TakeHeaderFromStore
  <2>2. building[s]
    BY <2>1 DEF Turn
  <2> QED
    BY <1>0, <2>1, <2>2, HeaderFromStoreTaken, NextHeaderStep DEF Parts
<1>4. CASE TakeHeader(s)
  <2>1. PICK n \in t.header :
          /\ Turn(s, "header", n)
          /\ NextHeader(s, "header", n, OwnHeader(h, n, r.header[n]))
    BY <1>4 DEF TakeHeader
  <2>2. building[s] /\ t.headerStore = {}
    BY <2>1, TurnOrder DEF Turn
  <2> QED
    BY <1>0, <2>1, <2>2, HeaderTaken, NextHeaderStep DEF Parts
<1>5. CASE TakeCookie(s)
  <2>1. PICK n \in t.cookies :
          /\ Turn(s, "cookies", n)
          /\ NextHeader(s, "cookies", n, OwnCookie(h, n, r.cookies[n]))
    BY <1>5 DEF TakeCookie
  <2>2. building[s] /\ t.headerStore = {} /\ t.header = {}
    BY <2>1, TurnOrder DEF Turn
  <2> QED
    BY <1>0, <2>1, <2>2, CookieTaken, NextHeaderStep DEF Parts
<1>6. CASE TakeSetCookie(s)
  <2>1. PICK n \in t.setCookies :
          /\ \A m \in t.setCookies : n <= m
          /\ Turn(s, "setCookies", n)
          /\ NextHeader(s, "setCookies", n, SetCookie(h, r.setCookies[n]))
    BY <1>6 DEF TakeSetCookie
  <2>2. building[s]
    BY <2>1 DEF Turn
  <2> QED
    BY <1>0, <2>1, <2>2, SetCookieTaken, NextHeaderStep DEF Parts
<1>7. CASE SendBuilt(s)
  BY <1>7, LeaveStep DEF SendBuilt
<1> QED
  BY <1>1, <1>2, <1>3, <1>4, <1>5, <1>6, <1>7 DEF BuildStep

(* A request is begun: no loop has taken anything. *)
LEMMA BuildBegins ==
  ASSUME BuildInvariant, NEW s \in Senders, NEW r0 \in Requests[s], Build(s, r0)
  PROVE  BuildInvariant'
<1> DEFINE r == loadRequest(r0)
           t == Entries(r)
           h == StartHeader(r0)
<1>1. /\ r.noRedirect \in BOOLEAN /\ LegalRequest(r) /\ StartHeader(r) = h
  <2>1. r.header = WithStandard(r0.header, Standard.header)
        /\ r.headerStore = WithStandard(r0.headerStore, Standard.headerStore)
        /\ r.noRedirect = r0.noRedirect /\ r.url = r0.url /\ r.bodyType = r0.bodyType
    BY NamesAssumption DEF loadRequest, Parts
  <2>4. r.cookies = r0.cookies
    BY NamesAssumption DEF loadRequest, Parts
  <2>2. LegalRequest(r)
    <3>1. DOMAIN r.header \cup DOMAIN r.headerStore \subseteq DOMAIN Canonical
      BY <2>1, NamesAssumption DEF WithStandard
    <3>2. \A n \in DOMAIN r0.cookies :
            r0.cookies[n] = NilCookie \/ r0.cookies[n].store \in {""} \cup DOMAIN StoreValue
      BY RequestAssumption
    <3> HIDE DEF r
    <3> QED
      BY <2>4, <3>1, <3>2 DEF LegalRequest
  <2>3. StartHeader(r) = h
    BY <2>1 DEF StartHeader, PolicyHeader
  <2> QED
    BY <2>1, <2>2, <2>3, NamesAssumption
<1>2. DOMAIN t = Parts /\ \A p \in Parts : t[p] = DOMAIN r[p]
  BY DEF Entries
<1> HIDE DEF r, t, h
<1>3. /\ t.header = DOMAIN r.header /\ t.headerStore = DOMAIN r.headerStore
      /\ t.params = DOMAIN r.params /\ t.cookies = DOMAIN r.cookies
      /\ t.paramStore = DOMAIN r.paramStore /\ t.setCookies = DOMAIN r.setCookies
  BY <1>2 DEF Parts
<1>4. HeaderBuilt(r, t, h)
  <2> SUFFICES ASSUME Unambiguous(r), NEW n \in HeaderNames(r) PROVE ExpectedAt(r, t, h, n)
    BY DEF HeaderBuilt
  <2>1. OnlyAt(h, Canonical[n], Get(h, Canonical[n]))
    BY <1>1, NamesApart, StartHeaderOnly
  <2> QED
    BY <1>1, <1>3, <2>1 DEF ExpectedAt
<1>5. Ordered(r, t) /\ CookiesBuilt(r, t, h) /\ QueryBuilt(r, t, << >>)
  <2>1. Ordered(r, t)
    BY <1>3 DEF Ordered
  <2>2. TakenCookies(r, t) = {}
    BY <1>3 DEF TakenCookies
  <2>3. QueryBuilt(r, t, << >>)
    BY <1>3 DEF QueryBuilt, Get
  <2> QED
    BY <2>1, <2>2, <2>3 DEF CookiesBuilt
<1>8. SetCookiesBuilt(r, t, h)
  <2>1. r.setCookies \in Seq(Range(r.setCookies))
    <3>1. r.setCookies = r0.setCookies
      BY NamesAssumption DEF r, loadRequest, Parts
    <3> QED
      BY <3>1, RequestAssumption
  <2>2. t.setCookies = 0 + 1 .. Len(r.setCookies)
    BY <1>3, <2>1
  <2>3. Get(h, "X-Test-Set-Cookies") = << >>
    <3>1. /\ Canonical["User-Agent"] = "User-Agent" /\ Canonical["Authorization"] = "Authorization"
          /\ Canonical["Content-Type"] = "Content-Type"
      BY NamesAssumption DEF OwnNames
    <3>2. DOMAIN h = {"User-Agent", "Authorization", "Content-Type"}
      BY <3>1 DEF StartHeader, Set, Put, h
    <3> QED
      BY <3>2 DEF Get
  <2>4. 0 \in 0 .. Len(r.setCookies)
    BY <2>1
  <2> DEFINE S == {Whole(c) : c \in Range(r.setCookies)}
           vs == Get(h, "X-Test-Set-Cookies")
  <2>5. vs \in Seq(S) /\ Len(vs) = 0 /\ \A i \in 1 .. 0 : vs[i] = Whole(r.setCookies[i])
    <3>1. << >> \in Seq(S) /\ Len(<< >>) = 0
      <4> HIDE DEF S
      <4> QED
        BY EmptySeq
    <3>2. \A i \in 1 .. 0 : FALSE
      OBVIOUS
    <3>3. vs = << >>
      BY <2>3
    <3> HIDE DEF S, vs
    <3> QED
      BY <3>1, <3>2, <3>3
  <2> HIDE DEF S, vs
  <2>6. \E k \in 0 .. Len(r.setCookies) :
          /\ t.setCookies = k + 1 .. Len(r.setCookies)
          /\ vs \in Seq(S) /\ Len(vs) = k /\ \A i \in 1 .. k : vs[i] = Whole(r.setCookies[i])
    BY <2>2, <2>4, <2>5
  <2> QED
    BY <2>1, <2>6 DEF SetCookiesBuilt, S, vs
<1>6. SenderIntact(TRUE, r, t, h, << >>)
  BY <1>1, <1>2, <1>4, <1>5, <1>8 DEF SenderIntact
<1>7. /\ building' = [building EXCEPT ![s] = TRUE] /\ request' = [request EXCEPT ![s] = r]
      /\ todo' = [todo EXCEPT ![s] = t] /\ header' = [header EXCEPT ![s] = h]
      /\ query' = [query EXCEPT ![s] = << >>]
  BY DEF Build, r, t, h
<1> QED
  BY <1>2, <1>6, <1>7, OneSender

(* Nothing is built at the start. *)
LEMMA InitBuild == BuildInit => BuildInvariant
<1> SUFFICES ASSUME BuildInit PROVE BuildInvariant
  OBVIOUS
<1>1. SenderIntact(FALSE, NoRequest, Entries(NoRequest), << >>, << >>)
  BY NothingToBuild DEF SenderIntact
<1> QED
  BY <1>1, NothingToBuild DEF BuildInit, BuildInvariant, BySender

(* Every step of a sender keeps what the senders build intact. *)
LEMMA BuildInvariantStep == BuildInvariant /\ [BuildNext]_allVars => BuildInvariant'
<1> SUFFICES ASSUME BuildInvariant, [BuildNext]_allVars PROVE BuildInvariant'
  OBVIOUS
<1>1. CASE UNCHANGED buildVars
  BY <1>1 DEF buildVars, BuildInvariant, BySender
<1>2. ASSUME UNCHANGED allVars PROVE UNCHANGED buildVars
  BY <1>2 DEF allVars
<1> QED
  BY <1>1, <1>2, BuildBegins, BuildStepIntact DEF BuildNext

(* Building takes a step of the client, or leaves it as it is. *)
LEMMA BuildIsClientStep == BuildInvariant /\ [BuildNext]_allVars => [Next]_vars
<1> SUFFICES ASSUME BuildInvariant, [BuildNext]_allVars PROVE [Next]_vars
  OBVIOUS
<1>1. ASSUME NEW s \in Senders, NEW r \in Requests[s], Build(s, r) PROVE UNCHANGED vars
  BY <1>1 DEF Build
<1>2. ASSUME NEW s \in Senders, BuildStep(s), ~SendBuilt(s) PROVE UNCHANGED vars
  BY <1>2 DEF BuildStep, TakeParamFromStore, TakeParam, TakeHeaderFromStore, TakeHeader,
              TakeCookie, TakeSetCookie, Turn
<1>3. ASSUME NEW s \in Senders, SendBuilt(s) PROVE Next
  <2>1. request[s].noRedirect \in BOOLEAN
    BY DEF BuildInvariant, SenderIntact
  <2> QED
    BY <1>3, <2>1 DEF SendBuilt, Next
<1>4. ASSUME NEW s \in Senders, Exchange(s) PROVE Next
  BY <1>4 DEF Next
<1>5. CASE UNCHANGED allVars
  BY <1>5 DEF allVars
<1> QED
  BY <1>1, <1>2, <1>3, <1>4, <1>5 DEF BuildNext

(* The invariant of building holds throughout. *)
THEOREM Request_IsInvariant == BuildSpec => []BuildInvariant
  BY InitBuild, BuildInvariantStep, PTL DEF BuildSpec

(* Building requests and sending them implements the client: only a request
   that is complete is sent (request.go:330-365). *)
THEOREM Request_ImplementsClient == BuildSpec => Spec
<1>1. BuildInit => Init
  BY DEF BuildInit
<1> QED
  BY <1>1, BuildIsClientStep, Request_IsInvariant, PTL DEF BuildSpec, Spec

(* So what is proved of the client holds for requests that are built. *)
THEOREM Request_JarOnlyForOptedIn == BuildSpec => []JarOnlyForOptedIn
  BY Request_ImplementsClient, Client_JarOnlyForOptedIn, PTL

(* The whole build: a request that asks for no redirects is not redirected, as
   for the client alone. *)
THEOREM Request_NoRedirectHonoured ==
  ASSUME \A s, t \in Senders \ JarSenders : s = t
  PROVE  BuildSpec => []NoRedirectHonoured
  BY Request_ImplementsClient, Client_NoRedirectHonoured, PTL

(* In whatever order the maps are gone through, a request that is not ambiguous
   is sent as the test, the store and the manifest ask for it (request.go:166,
   :210, api_testcase.go:598), for any parts and any values. *)
THEOREM Request_SentAsWritten == BuildSpec => []SentAsWritten
<1>1. BuildInvariant => SentAsWritten
  <2> SUFFICES ASSUME BuildInvariant, NEW s \in Senders, building[s], Done(s), Unambiguous(request[s])
               PROVE  LET r == request[s] IN
                      /\ \A n \in HeaderNames(r) : \E m \in Spellings(n) : OnlyAt(header[s], m, Wanted(r, n))
                      /\ \A n \in DOMAIN r.cookies : r.cookies[n] # NilCookie =>
                           /\ Len(Get(header[s], "Cookie")) = 1
                           /\ <<n, CookieValue(r.cookies[n])>> \in Get(header[s], "Cookie")[1]
                      /\ \A n \in DOMAIN r.params : Get(query[s], n) = <<r.params[n].text>>
                      /\ \A n \in DOMAIN r.paramStore \ DOMAIN r.params :
                           Get(query[s], n) = StoredParam(r.paramStore[n])
                      /\ "X-Test-Set-Cookies" \notin Names(r) =>
                           Get(header[s], "X-Test-Set-Cookies") = Wholes(r.setCookies)
    BY DEF SentAsWritten, HeaderNames
  <2> DEFINE r == request[s]
             t == todo[s]
             h == header[s]
  <2>1. /\ LegalRequest(r) /\ HeaderBuilt(r, t, h) /\ CookiesBuilt(r, t, h)
        /\ SetCookiesBuilt(r, t, h) /\ QueryBuilt(r, t, query[s])
    BY DEF BuildInvariant, SenderIntact
  <2>2. /\ t.header = {} /\ t.headerStore = {} /\ t.cookies = {} /\ t.params = {}
        /\ t.paramStore = {} /\ t.setCookies = {}
    BY DEF Done, Parts
  <2> HIDE DEF r, t, h
  <2>3. ASSUME NEW n \in HeaderNames(r)
        PROVE  \E m \in Spellings(n) : OnlyAt(h, m, Wanted(r, n))
    <3>0. Unambiguous(r)
      BY DEF r
    <3>1. ExpectedAt(r, t, h, n) /\ Canonical[n] \in Spellings(n)
      BY <2>1, <3>0, NamesApart DEF HeaderBuilt
    <3>2. CASE n \in DOMAIN r.header
      BY <2>2, <3>1, <3>2 DEF ExpectedAt, Wanted
    <3>3. CASE n \notin DOMAIN r.header /\ n \in DOMAIN r.headerStore
      BY <2>2, <3>1, <3>3 DEF ExpectedAt, Wanted
    <3>4. CASE n \notin DOMAIN r.header /\ n \notin DOMAIN r.headerStore
      <4>1. StoredOrDefault(r, n) = Get(StartHeader(r), Canonical[n])
        BY <3>4 DEF StoredOrDefault, Missing, Value
      <4> QED
        BY <2>2, <3>1, <3>4, <4>1 DEF ExpectedAt, Wanted
    <3> QED
      BY <3>2, <3>3, <3>4
  <2>4. ASSUME NEW n \in DOMAIN r.cookies, r.cookies[n] # NilCookie
        PROVE  /\ Len(Get(h, "Cookie")) = 1
               /\ <<n, CookieValue(r.cookies[n])>> \in Get(h, "Cookie")[1]
    <3>0. Unambiguous(r)
      BY DEF r
    <3>1. n \in TakenCookies(r, t)
      BY <2>2, <2>4 DEF TakenCookies
    <3>2. PICK v : Get(h, "Cookie") = <<v>> /\ <<n, CookieValue(r.cookies[n])>> \in v
      BY <2>1, <3>0, <3>1 DEF CookiesBuilt
    <3>3. Len(<<v>>) = 1 /\ <<v>>[1] = v
      OBVIOUS
    <3> QED
      BY <3>2, <3>3
  <2>5. /\ \A n \in DOMAIN r.params : Get(query[s], n) = <<r.params[n].text>>
        /\ \A n \in DOMAIN r.paramStore \ DOMAIN r.params :
             Get(query[s], n) = StoredParam(r.paramStore[n])
    BY <2>1, <2>2 DEF QueryBuilt
  <2>6. ASSUME "X-Test-Set-Cookies" \notin Names(r)
        PROVE  Get(h, "X-Test-Set-Cookies") = Wholes(r.setCookies)
    <3> DEFINE sc == r.setCookies
               S  == {Whole(c) : c \in Range(sc)}
               vs == Get(h, "X-Test-Set-Cookies")
    <3>0. Unambiguous(r)
      BY DEF r
    <3>1. sc \in Seq(Range(sc))
      BY <2>1 DEF SetCookiesBuilt
    <3>2. PICK k \in 0 .. Len(sc) :
            /\ t.setCookies = k + 1 .. Len(sc) /\ vs \in Seq(S) /\ Len(vs) = k
            /\ \A i \in 1 .. k : vs[i] = Whole(sc[i])
      BY <2>1, <2>6, <3>0 DEF SetCookiesBuilt
    <3>3. k = Len(sc)
      <4>1. k + 1 .. Len(sc) = {}
        BY <2>2, <3>2
      <4> QED
        BY <3>1, <3>2, <4>1
    <3> HIDE DEF sc, vs, S
    <3>4. vs = [i \in 1 .. Len(sc) |-> Whole(sc[i])]
      BY <3>1, <3>2, <3>3
    <3> QED
      BY <3>1, <3>4 DEF Wholes, sc, vs
  <2> QED
    BY <2>3, <2>4, <2>5, <2>6 DEF r, h
<1> QED
  BY <1>1, Request_IsInvariant, PTL

=============================================================================
