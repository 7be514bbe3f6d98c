------------------------------- MODULE Request -------------------------------
(***************************************************************************)
(* Building a request: loadRequestSerialization of api_testcase.go and     *)
(* Request.buildHttpRequest of pkg/lib/api/request.go, before what is      *)
(* built is sent by HttpClient.                                            *)
(*                                                                         *)
(* The parts of a request are Go maps: each loop takes their entries in an *)
(* order of its own, and an error in one of them ends the build.  The      *)
(* names of headers are canonicalized by Set, Add and Del, but not where a *)
(* list is assigned to the header map directly.                            *)
(***************************************************************************)
EXTENDS HttpClient, SequencesExt

CONSTANTS
  Requests,     \* what the test files ask for, by sender
  Standard,     \* header and header_from_store of the manifest
  StoreValue,   \* what Datastore.Get gives, by key
  Canonical     \* textproto.CanonicalMIMEHeaderKey, by name

(* A value of a test file or of the datastore: text is what
   GetStringFromInterface makes of it, items what is in it if it is a list, or
   the value of a cookie. *)
Value(kind, text, items) == [kind |-> kind, text |-> text, items |-> items]
Text(t) == Value("text", t, << >>)
Missing == Value("missing", "", << >>)
NotText == "<not a string>"

(* A cookie of a request that is null. *)
NilCookie == [store |-> "nil", value |-> ""]

(* buildMultipart and buildUrlencoded panic if there is no body, which no
   test of a working suite asks for.  A cookie has one value, and
   "header-x-test-set-cookie" is a list. *)
ASSUME RequestAssumption ==
  /\ \A s \in Senders : \A r \in Requests[s] :
       /\ r.bodyType \in {"multipart", "urlencoded"} => r.body # "none"
       /\ r.setCookies \in Seq(Range(r.setCookies))
       /\ \A n \in DOMAIN r.cookies :
            r.cookies[n] = NilCookie \/ r.cookies[n].store \in {""} \cup DOMAIN StoreValue
  /\ \A k \in DOMAIN StoreValue :
       StoreValue[k].kind = "cookie" => StoreValue[k].items = <<StoreValue[k].items[1]>>

(* The parts of a request that have a loop, and the headers that the build sets
   by itself, under their canonical names. *)
Parts == {"paramStore", "params", "header", "headerStore", "cookies", "setCookies"}
OwnNames == {"User-Agent", "Authorization", "Content-Type", "Cookie", "X-Test-Set-Cookies"}

ASSUME NamesAssumption ==
  /\ \A n \in DOMAIN Canonical :
       Canonical[n] \in DOMAIN Canonical /\ Canonical[Canonical[n]] = Canonical[n]
  /\ OwnNames \subseteq DOMAIN Canonical /\ \A n \in OwnNames : Canonical[n] = n
  /\ DOMAIN Standard.header \cup DOMAIN Standard.headerStore \subseteq DOMAIN Canonical
  /\ \A s \in Senders : \A r \in Requests[s] :
       /\ Parts \cup {"noRedirect", "url", "bodyType", "body"} \subseteq DOMAIN r
       /\ r.noRedirect \in BOOLEAN
       /\ DOMAIN r.header \cup DOMAIN r.headerStore \subseteq DOMAIN Canonical

VARIABLES
  building,  \* the sender is in buildHttpRequest
  request,   \* the request it builds
  todo,      \* the entries that the loop over each part has yet to take
  header,    \* http.Request.Header: name -> list of values, a value being a set of parts
  query      \* http.Request.URL.RawQuery

buildVars == <<building, request, todo, header, query>>
allVars == <<vars, buildVars>>

(* The parts in the order of their loops; setCookies is a list. *)
Order_HeaderFirst ==
  <<"paramStore", "params", "header", "headerStore", "cookies", "setCookies">>

Order == <<"paramStore", "params", "headerStore", "header", "cookies", "setCookies">>

NoRequest ==
  [noRedirect |-> FALSE, url |-> "plain", bodyType |-> "", body |-> "none",
   paramStore |-> << >>, params |-> << >>, headerStore |-> << >>, header |-> << >>,
   cookies |-> << >>, setCookies |-> << >>]
Entries(r) == [p \in Parts |-> DOMAIN r[p]]
Done(s) == \A p \in Parts : todo[s][p] = {}

BuildInit ==
  /\ Init
  /\ building = [s \in Senders |-> FALSE]
  /\ request = [s \in Senders |-> NoRequest]
  /\ todo = [s \in Senders |-> Entries(NoRequest)]
  /\ header = [s \in Senders |-> << >>]
  /\ query = [s \in Senders |-> << >>]

(***************************************************************************)
(* http.Header and http.Request                                            *)
(***************************************************************************)

Whole(t) == {<<t>>}
Get(h, n) == IF n \in DOMAIN h THEN h[n] ELSE << >>
Put(h, n, vs) == [m \in DOMAIN h \cup {n} |-> IF m = n THEN vs ELSE h[m]]
Set(h, n, v) == Put(h, Canonical[n], <<v>>)
Add(h, n, vs) == Put(h, Canonical[n], Get(h, Canonical[n]) \o vs)
Del(h, n) == [m \in DOMAIN h \ {Canonical[n]} |-> h[m]]
Wholes(items) == [i \in DOMAIN items |-> Whole(items[i])]
Strings(items) == Wholes(SelectSeq(items, LAMBDA i : i \notin {"", NotText}))

(* The cookies are parts of one value. *)
AddCookie(h, n, v) ==
  LET vs == Get(h, "Cookie") IN
  Set(h, "Cookie", {<<n, v>>} \cup IF vs = << >> \/ vs[1] = Whole("") THEN {} ELSE vs[1])

(***************************************************************************)
(* The loops.  Each gives what is there after an entry, or nothing where   *)
(* the build ends with an error.                                           *)
(***************************************************************************)

(* The manifest's headers, where the test has none of that very name. *)
WithStandard(mine, standard) ==
  [n \in DOMAIN mine \cup DOMAIN standard |->
     IF n \in DOMAIN mine THEN mine[n] ELSE standard[n]]

loadRequest(r) ==
  [r EXCEPT !.header = WithStandard(@, Standard.header),
            !.headerStore = WithStandard(@, Standard.headerStore)]

ParamFromStore(q, n, ref) ==
  LET v == StoreValue[ref.key] IN
  IF v.kind = "missing" THEN IF ref.optional THEN {q} ELSE {}
                        ELSE {IF v.text = "" THEN q ELSE Put(q, n, Append(Get(q, n), v.text))}

(* buildMultipart, buildUrlencoded, buildFile and buildRegular. *)
PolicyFails(r) ==
  \/ r.bodyType = "multipart" /\ r.body = "bad"
  \/ r.bodyType = "file" /\ r.body # "ok"

PolicyHeader(r) ==
  CASE r.bodyType = "multipart"  -> <<Whole("multipart")>>
    [] r.bodyType = "urlencoded" -> <<Whole("urlencoded")>>
    [] r.bodyType = "file"       -> << >>
    [] OTHER                     -> <<Whole("json")>>

StartHeader(r) ==
  Put(Put(Set(<< >>, "User-Agent", Whole("")),
      "Authorization", IF r.url = "user" THEN <<Whole("basic")>> ELSE << >>),
      "Content-Type", PolicyHeader(r))

HeaderFromStore(h, n, ref) ==
  LET v == StoreValue[ref.key] IN
  CASE v.kind = "missing" -> IF ref.optional THEN {h} ELSE {}
    [] v.kind = "list" -> {Add(h, n, Strings(v.items))}
    [] v.kind = "text" -> {IF v.text = "" THEN h ELSE Set(h, n, Whole(v.text))}
    [] OTHER -> {}

OwnHeader(h, n, v) ==
  CASE v.kind = "text" -> {IF v.text = "" THEN Del(h, n) ELSE Set(h, n, Whole(v.text))}
    [] v.kind = "list" -> IF NotText \in Range(v.items) THEN {} ELSE {Put(h, n, Wholes(v.items))}
    [] OTHER -> {}

(* An error of Get is ignored, and the test's own value wins. *)
StoredCookie(c) ==
  LET v == IF c.store = "" THEN Missing ELSE StoreValue[c.store] IN
  IF v.kind = "cookie" THEN v.items ELSE IF v.text = "" THEN <<"">> ELSE << >>

OwnCookie(h, n, c) ==
  IF c = NilCookie THEN {h}
  ELSE {AddCookie(h, n, IF c.value # "" THEN c.value ELSE v) : v \in Range(StoredCookie(c))}

SetCookie(h, c) ==
  IF c = "invalid" THEN {} ELSE {Add(h, "X-Test-Set-Cookies", <<Whole(c)>>)}

(***************************************************************************)
(* Actions                                                                 *)
(***************************************************************************)

(* A test makes its request; a URL or body that is no good ends it here. *)
Build(s, r) ==
  /\ ~sending[s] /\ ~building[s]
  /\ r.url # "bad" /\ ~PolicyFails(r)
  /\ building' = [building EXCEPT ![s] = TRUE]
  /\ request' = [request EXCEPT ![s] = loadRequest(r)]
  /\ todo' = [todo EXCEPT ![s] = Entries(loadRequest(r))]
  /\ header' = [header EXCEPT ![s] = StartHeader(r)]
  /\ query' = [query EXCEPT ![s] = << >>]
  /\ UNCHANGED vars

LeaveBuild(s) ==
  /\ building' = [building EXCEPT ![s] = FALSE]
  /\ request' = [request EXCEPT ![s] = NoRequest]
  /\ todo' = [todo EXCEPT ![s] = Entries(NoRequest)]
  /\ header' = [header EXCEPT ![s] = << >>]
  /\ query' = [query EXCEPT ![s] = << >>]

(* The loop over part p takes entry n, when those before are done. *)
Turn(s, p, n) ==
  /\ building[s]
  /\ n \in todo[s][p]
  /\ \A i, j \in DOMAIN Order : Order[j] = p /\ i < j => todo[s][Order[i]] = {}
  /\ UNCHANGED vars

NextHeader(s, p, n, results) ==
  \/ /\ results = {}
     /\ LeaveBuild(s)
  \/ \E h \in results :
       /\ header' = [header EXCEPT ![s] = h]
       /\ todo' = [todo EXCEPT ![s][p] = @ \ {n}]
       /\ UNCHANGED <<building, request, query>>

NextQuery(s, p, n, results) ==
  \/ /\ results = {}
     /\ LeaveBuild(s)
  \/ \E q \in results :
       /\ query' = [query EXCEPT ![s] = q]
       /\ todo' = [todo EXCEPT ![s][p] = @ \ {n}]
       /\ UNCHANGED <<building, request, header>>

TakeParamFromStore(s) == \E n \in todo[s].paramStore :
  /\ Turn(s, "paramStore", n)
  /\ NextQuery(s, "paramStore", n, ParamFromStore(query[s], n, request[s].paramStore[n]))

TakeParam(s) == \E n \in todo[s].params :
  /\ Turn(s, "params", n)
  /\ NextQuery(s, "params", n, {Put(query[s], n, <<request[s].params[n].text>>)})

TakeHeaderFromStore(s) == \E n \in todo[s].headerStore :
  /\ Turn(s, "headerStore", n)
  /\ NextHeader(s, "headerStore", n, HeaderFromStore(header[s], n, request[s].headerStore[n]))

TakeHeader(s) == \E n \in todo[s].header :
  /\ Turn(s, "header", n)
  /\ NextHeader(s, "header", n, OwnHeader(header[s], n, request[s].header[n]))

TakeCookie(s) == \E n \in todo[s].cookies :
  /\ Turn(s, "cookies", n)
  /\ NextHeader(s, "cookies", n, OwnCookie(header[s], n, request[s].cookies[n]))

TakeSetCookie(s) == \E n \in todo[s].setCookies :
  /\ \A m \in todo[s].setCookies : n <= m
  /\ Turn(s, "setCookies", n)
  /\ NextHeader(s, "setCookies", n, SetCookie(header[s], request[s].setCookies[n]))

(* What is built goes to client.Do. *)
SendBuilt(s) ==
  /\ building[s] /\ Done(s)
  /\ Send(s, request[s].noRedirect)
  /\ LeaveBuild(s)

BuildStep(s) ==
  \/ TakeParamFromStore(s) \/ TakeParam(s) \/ TakeHeaderFromStore(s)
  \/ TakeHeader(s) \/ TakeCookie(s) \/ TakeSetCookie(s) \/ SendBuilt(s)

BuildNext == \E s \in Senders :
  \/ \E r \in Requests[s] : Build(s, r)
  \/ BuildStep(s)
  \/ Exchange(s) /\ UNCHANGED buildVars

(* The goroutine goes on building; of the rest only the client's timer is
   fair. *)
BuildSpec ==
  /\ BuildInit /\ [][BuildNext]_allVars
  /\ \A s \in Senders : WF_allVars(BuildStep(s)) /\ WF_allVars(Timeout(s) /\ UNCHANGED buildVars)

(***************************************************************************)
(* Properties                                                              *)
(***************************************************************************)

Names(r) == DOMAIN r.header \cup DOMAIN r.headerStore

(* No two names of a request are spellings of one.  A list goes under the name
   as it is spelled, and so it replaces a value of the store of the same name
   only if that is canonical. *)
Unambiguous(r) ==
  /\ \A m, n \in Names(r) \cup OwnNames : Canonical[m] = Canonical[n] => m = n
  /\ \A n \in DOMAIN r.header \cap DOMAIN r.headerStore :
       r.header[n].kind = "list" => Canonical[n] = n

(* What the server is to get under a name: the test's own header, or else the
   one of the store.  A stored text replaces the default of that name, a stored
   list comes on top of it. *)
StoredOrDefault(r, n) ==
  LET stored  == IF n \in DOMAIN r.headerStore THEN StoreValue[r.headerStore[n].key] ELSE Missing
      default == Get(StartHeader(r), Canonical[n]) IN
  IF stored.kind = "text" /\ stored.text # "" THEN <<Whole(stored.text)>>
  ELSE IF stored.kind = "list" THEN default \o Strings(stored.items) ELSE default

OwnValues(v) ==
  IF v.kind = "list" THEN Wholes(v.items) ELSE IF v.text = "" THEN << >> ELSE <<Whole(v.text)>>

Wanted(r, n) == IF n \in DOMAIN r.header THEN OwnValues(r.header[n]) ELSE StoredOrDefault(r, n)

(* The values vs are those under m, and there is none under another spelling. *)
OnlyAt(h, m, vs) ==
  /\ Get(h, m) = vs
  /\ \A k \in DOMAIN h \ {m} : Canonical[k] = Canonical[m] => h[k] = << >>

Spellings(n) == {m \in DOMAIN Canonical : Canonical[m] = Canonical[n]}

(* The value of a cookie: the test's own one, or that of the cookie in the store,
   or nothing, if there is none in the store. *)
CookieValue(c) ==
  IF c.value # "" THEN c.value
  ELSE IF c.store # "" /\ StoreValue[c.store].kind = "cookie" THEN StoreValue[c.store].items[1]
  ELSE ""

(* What the store gives for a query parameter: a text, or nothing. *)
StoredParam(ref) ==
  LET v == StoreValue[ref.key] IN
  IF v.kind = "missing" \/ v.text = "" THEN << >> ELSE <<v.text>>

(* request.go:122, :166, :210, :233, :264, api_testcase.go:598: in whatever order
   the maps are gone through, each header that is sent has the value that the
   test gives it, or else that of the store, and otherwise the default, and no
   value under another spelling is beside it.  All cookies go into one header,
   with the test's value or else the store's; one that is not in the store is
   sent with an empty value.  Each query parameter has the test's value, or else
   that of the store, if there is one.  The cookies that the server is to set are
   listed as the test lists them. *)
SentAsWritten == \A s \in Senders :
  LET r == request[s] IN
  building[s] /\ Done(s) /\ Unambiguous(r) =>
    /\ \A n \in (Names(r) \cup {"Content-Type", "Authorization"}) \ {"Cookie", "X-Test-Set-Cookies"} :
         \E m \in Spellings(n) : OnlyAt(header[s], m, Wanted(r, n))
    /\ \A n \in DOMAIN r.cookies : r.cookies[n] # NilCookie =>
         /\ Len(Get(header[s], "Cookie")) = 1
         /\ <<n, CookieValue(r.cookies[n])>> \in Get(header[s], "Cookie")[1]
    /\ \A n \in DOMAIN r.params : Get(query[s], n) = <<r.params[n].text>>
    /\ \A n \in DOMAIN r.paramStore \ DOMAIN r.params :
         Get(query[s], n) = StoredParam(r.paramStore[n])
    /\ "X-Test-Set-Cookies" \notin Names(r) =>
         Get(header[s], "X-Test-Set-Cookies") = Wholes(r.setCookies)

(* request.go:33: whatever the server does, a request that is begun comes to an
   end. *)
RequestEnds == \A s \in Senders : building[s] ~> ~building[s] /\ ~sending[s]
=============================================================================
