------------------------------ MODULE Response -------------------------------
(***************************************************************************)
(* What is made of a response before JsonCompare sees it: response.go and  *)
(* pre_process.go of pkg/lib/api, responsesEqual and executeRequest of     *)
(* api_testcase.go.                                                        *)
(*                                                                         *)
(* The actual response becomes a JSON object by the format that the        *)
(* expected one asks for; the expected one goes through the same types and *)
(* becomes an object of the same shape.  A result is a JSON value, or a    *)
(* word for an error or a panic.                                           *)
(***************************************************************************)
EXTENDS JsonCompare, Csv, SequencesExt

CONSTANTS
  Exchanges,  \* responses with what is expected of them
  Filter      \* the body that the command of pre_process makes of one

VARIABLE exchange  \* the exchange that is judged, NoExchange for arrays alone

NoExchange == [judged |-> FALSE]

NoCode == -1
Failed == {<<"error">>, <<"panic">>}
Str(s) == <<"string", s>>
Strs(seq) == <<"array", [i \in DOMAIN seq |-> Str(seq[i])]>>

(* A body is its text, with what the readers of JSON, CSV and documents (XML,
   HTML, XLSX) make of it. *)
IsEmpty(body) == body.text = ""

(***************************************************************************)
(* response.go                                                             *)
(***************************************************************************)

(* The joined values of a header. *)
Joined(vs) == FoldLeft(LAMBDA s, v : s \o ";" \o v, vs[1], Tail(vs))

(* The expected headers, texts apart from lists of texts; nothing else is
   allowed. *)
NewResponse(header) ==
  LET is(t) == {k \in DOMAIN header : header[k][1] = t} IN
  IF \/ is("string") \cup is("array") # DOMAIN header
     \/ \E k \in is("array") : \E i \in DOMAIN header[k][2] : header[k][2][i][1] # "string"
    THEN << >>
    ELSE <<[list |-> [k \in is("array") |-> header[k]], flat |-> [k \in is("string") |-> header[k]]]>>

(* http.Cookie marshals all its fields, those that are not set as well. *)
CookieFields == {"name", "value", "path", "raw"}
CookieObject(c) == Object([f \in CookieFields |-> Str(IF f \in DOMAIN c THEN c[f] ELSE "")])
CookieMap(cookies) ==
  [n \in {cookies[i]["name"] : i \in DOMAIN cookies} |->
     CookieObject(cookies[CHOOSE i \in DOMAIN cookies : cookies[i]["name"] = n
       /\ \A j \in DOMAIN cookies : cookies[j]["name"] = n => j <= i])]

(* What is empty is left out of the object, but not the body.  The format, which is
   there with its zero value on both sides, is left out here, too. *)
ResponseObject(code, list, flat, cookies, hasBody, body, controls) ==
  LET value == [statuscode  |-> <<"number", code>>,
                header      |-> Object(list),
                header_flat |-> <<"object", flat[1], flat[2]>>,
                cookie      |-> Object(CookieMap(cookies)),
                body        |-> body]
      present == [statuscode  |-> code # NoCode,
                  header      |-> list # << >>,
                  header_flat |-> flat[1] # << >> \/ flat[2] # << >>,
                  cookie      |-> cookies # << >>,
                  body        |-> hasBody]
  IN  <<"object", Restrict(value, {key \in DOMAIN value : present[key]}), controls>>

(* runPreProcess: without a name there is no command. *)
PreProcess(f, body) == IF f.pre = "none" THEN body ELSE Filter[body]

(* ensureJson: what is no JSON, nothing included, becomes a string. *)
ensureJson(body) ==
  [body EXCEPT !.text = IF @ = "" THEN "quoted" ELSE @,
               !.json = IF IsEmpty(body) \/ @ = Unreadable THEN Str(body.text) ELSE @]

Readable(v) == IF v = Unreadable THEN <<"error">> ELSE v

(* The body by the format's type.  Of JSON it is only looked at if it matters,
   the other types fail even if the body is ignored. *)
Convert(f, body) ==
  CASE f.type \in {"xml", "xml2", "html", "xhtml", "xlsx"} -> Readable(body.document)
    [] f.type = "csv" -> IF IsEmpty(body) THEN <<"error">> ELSE GenericCSVToMap(body.table)
    [] f.type = "binary" -> Object([md5sum |-> Str(body.text)])
    [] f.type = "text"   -> Object([text |-> Str(body.text)])
    [] f.type = "" -> IF f.ignoreBody \/ IsEmpty(body) THEN Null ELSE Readable(body.json)
    [] OTHER -> <<"error">>

ServerResponseToGenericJSON(r, f) ==
  LET processed == PreProcess(f, r.body)
      value == Convert(f, IF f.pre # "none" /\ f.type = "" THEN ensureJson(processed) ELSE processed)
  IN  IF f.pre = "no name" THEN <<"error">>
      ELSE IF value \in Failed THEN value
      ELSE ResponseObject(r.code, [k \in DOMAIN r.header |-> Strs(r.header[k])],
                          <<[k \in DOMAIN r.header |-> Str(Joined(r.header[k]))], << >>>>,
                          r.cookies, ~f.ignoreBody, value, << >>)

BodyControls(e) == IF e.bodyControl = << >> THEN << >> ELSE [body |-> e.bodyControl]

(* Mutant: a null body is expected like any other value. *)
ToGenericJSON_NullBody(e) ==
  ResponseObject(e.code, e.header.list, <<e.header.flat, e.headerControl>>,
                 SetToSeq(Range(e.cookies)), TRUE, e.body, BodyControls(e))

(* A body that is null is not expected at all. *)
ToGenericJSON(e) ==
  ResponseObject(e.code, e.header.list, <<e.header.flat, e.headerControl>>,
                 SetToSeq(Range(e.cookies)), e.body # Null, e.body, BodyControls(e))

(***************************************************************************)
(* api_testcase.go                                                         *)
(***************************************************************************)

(* What is expected of a test that says nothing about its response; unknown: the
   fields of a response that ResponseSerialization lacks. *)
NoSpec == [given |-> FALSE, code |-> 200, header |-> << >>, headerControl |-> << >>, cookies |-> << >>,
           body |-> Null, bodyControl |-> << >>, format |-> [type |-> "", pre |-> "none"],
           unknown |-> {}]

WithIgnore(format, ignore) == [type |-> format.type, pre |-> format.pre, ignoreBody |-> ignore]

(* loadResponseSerialization and NewResponseFromSpec: nothing if there is a field
   that is not known, or a header is neither text nor a list of texts. *)
loadExpectedResponse(spec, stores) ==
  LET new == IF spec.unknown = {} THEN NewResponse(spec.header) ELSE << >>
      ignore == spec.given /\ spec.body = Null /\ ~stores
  IN  [i \in DOMAIN new |-> [spec EXCEPT !.header = new[i], !.format = WithIgnore(@, ignore)]]

(* Mutant: no status code is any status code. *)
expectedJSON_AnyCode(e) == ToGenericJSON([e EXCEPT !.code = IF @ = 0 THEN NoCode ELSE @])

expectedJSON(e) ==
  ToGenericJSON([e EXCEPT !.code = CASE @ = NoCode -> 200 [] @ = 0 -> NoCode [] OTHER -> @])

actualJSON(e, got) ==
  ServerResponseToGenericJSON(got, WithIgnore(e.format, e.body = Null /\ e.bodyControl = << >>))

responsesEqual(e, got) ==
  LET actual == actualJSON(e, got)
  IN  IF actual \in Failed THEN actual[1]
      ELSE JsonEqual[<<expectedJSON(e), actual, fillComparisonContext(<< >>)>>]

(* What goes into the datastore, and the verdict.  A response that cannot be
   read only fails the test if something is said about it. *)
executeRequest(x) ==
  LET e == loadExpectedResponse(x.spec, x.stores)
      json == ServerResponseToGenericJSON(x.got, e[1].format)
  IN  IF e = << >> THEN [stored |-> << >>, verdict |-> "error"]
      ELSE IF json = <<"panic">> THEN [stored |-> << >>, verdict |-> "panic"]
      ELSE IF json = <<"error">> /\ (x.spec.given \/ x.stores)
             THEN [stored |-> << >>, verdict |-> "error"]
      ELSE [stored |-> <<json>>, verdict |-> responsesEqual(e[1], x.got)]

(* What can become of the response in the format that is asked for. *)
Readings(x) ==
  {ServerResponseToGenericJSON(x.got, WithIgnore(x.spec.format, ignore)) : ignore \in BOOLEAN} \ Failed

(* The stored response, as it is, as the expectation of a test: header_flat is no
   field of one, and the format is not that in which it was read. *)
SpecOf(json) ==
  LET of(key) == IF key \in DOMAIN json[2] THEN json[2][key][2] ELSE << >> IN
  [given |-> TRUE, code |-> json[2]["statuscode"][2], header |-> of("header"), headerControl |-> << >>,
   cookies |-> [n \in DOMAIN of("cookie") |->
                  [f \in CookieFields |-> of("cookie")[n][2][f][2]]],
   body |-> IF "body" \in DOMAIN json[2] THEN json[2]["body"] ELSE Null,
   bodyControl |-> << >>, format |-> NoSpec.format,
   unknown |-> {"header_flat"} \cap DOMAIN json[2]]

(* The same, as a test can expect it: without header_flat, and read in a format. *)
Replay(json, format) == [SpecOf(json) EXCEPT !.unknown = {}, !.format = format]

(* The objects that are compared are among the values.  A cookie has a name, and a
   status code is above 0.  Bodies with keys that read as controls, ":control" at the
   end, are not studied; a header cannot have such a name. *)
ASSUME ExchangesAssumption ==
  \A x \in Exchanges :
    /\ DOMAIN x = {"judged", "spec", "stores", "got"}
    /\ DOMAIN x.spec = DOMAIN NoSpec
    /\ IsFiniteSet(Range(x.spec.cookies))
    /\ x.got.code \in Nat \ {0}
    /\ x.got.cookies \in Seq(Range(x.got.cookies))
    /\ \A c \in Range(x.got.cookies) : "name" \in DOMAIN c
    /\ x.got.body.table \in Seq(Seq(STRING))
    /\ \A e \in Range(loadExpectedResponse(x.spec, x.stores)) : expectedJSON(e) \in Values
    /\ \A json \in Readings(x) :
         /\ json \in Values /\ Plain[json]
         /\ \A e \in Range(loadExpectedResponse(Replay(json, x.spec.format), x.stores)) :
              expectedJSON(e) \in Values

(* Either an exchange is judged, or two arrays are compared on their own. *)
ResponseInit ==
  \/ exchange = NoExchange /\ JsonInit
  \/ /\ exchange \in Exchanges
     /\ args = [l |-> << >>, r |-> << >>, c |-> << >>]
     /\ prob = ProblemOf(JsonEqual, << >>, << >>, fillComparisonContext(<< >>))
     /\ Init

ResponseSpec == ResponseInit /\ [][Next /\ UNCHANGED <<args, exchange>>]_<<vars, args, exchange>>

(***************************************************************************)
(* Properties                                                              *)
(***************************************************************************)

Judged == exchange.judged /\ pc = "done"

(* response.go:178, :350: the two ways into JSON agree: whatever the format, a
   response passes a test that expects what was stored of it, in that format and
   without header_flat.  With header_flat, as it is stored if there are headers, the
   test ends in an error (jsutil/json.go:74). *)
ReplayedMatches == Judged =>
  LET done == executeRequest(exchange)
      verdict(spec) == executeRequest([exchange EXCEPT !.spec = spec]).verdict IN
  done.stored # << >> /\ done.stored[1] \notin Failed =>
    /\ verdict(Replay(done.stored[1], exchange.spec.format)) = "equal"
    /\ DOMAIN exchange.got.header # {} => verdict(SpecOf(done.stored[1])) = "error"

(* README.md:246, :404, api_testcase.go:514: whatever the controls, a response passes
   only with the status code that is asked for, 200 if none is, with each
   header that is a text equal to the joined values, each that is a list among
   them, a cookie of each name in all its fields, and the body, read in the format that
   is asked for, containing the expected one. *)
VerdictExplained == Judged =>
  LET spec == exchange.spec  got == exchange.got
      has(k) == k \in DOMAIN got.header IN
  executeRequest(exchange).verdict = "equal" =>
    /\ spec.code # 0 => got.code = IF spec.code = NoCode THEN 200 ELSE spec.code
    /\ \A k \in DOMAIN spec.header :
         /\ has(k)
         /\ IF spec.header[k][1] = "string"
              THEN spec.header[k] = Str(Joined(got.header[k]))
              ELSE ContainedIn(spec.header[k], Strs(got.header[k]))
    /\ \A n \in DOMAIN spec.cookies : \E m \in DOMAIN spec.cookies, c \in Range(got.cookies) :
         /\ spec.cookies[m]["name"] = spec.cookies[n]["name"]
         /\ CookieObject(c) = CookieObject(spec.cookies[m])
    /\ spec.body # Null => \E json \in Range(executeRequest(exchange).stored) :
         ContainedIn(spec.body, json[2]["body"])

(* csv.go:19, :69: reading a table with types differs from reading it without
   only in the values: the same rows but for empty ones and comments, the same
   keys but for the columns without a format or name, and each value of the
   type of its own column. *)
TypesOnlyType == Judged =>
  LET kept  == removeEmptyRowsAndComments(exchange.got.body.table)
      typed == CSVToMap(exchange.got.body.table)
      plain == GenericCSVToMap(<<kept[1]>> \o SubSeq(kept, 3, Len(kept)))
      name  == [k \in DOMAIN kept[1] |-> Trimmed(kept[1][k])]
      used  == {k \in DOMAIN name \cap DOMAIN kept[2] : name[k] # "" /\ Format(kept[2][k]) # {}} IN
  Len(kept) >= 2 /\ typed[1] = "array" /\ IsInjective(name) =>
    /\ Len(typed[2]) = Len(plain[2])
    /\ \A i \in DOMAIN typed[2] :
         /\ DOMAIN typed[2][i][2] = {name[k] : k \in used \cap DOMAIN kept[i + 2]}
         /\ \A k \in used \cap DOMAIN kept[i + 2] : \A info \in Format(kept[2][k]) :
              typed[2][i][2][name[k]] = Typed(plain[2][i][2][name[k]][2], info)
=============================================================================
