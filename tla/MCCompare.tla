----------------------------- MODULE MCCompare ------------------------------
(* Instances of JsonCompare and Response for TLC. *)
EXTENDS Response

A == <<"string", "a">>
One == <<"number", 1>>
Arr(s) == <<"array", s>>

(* Objects, one of them with a null, and expectations with controls: a string, something else than a
   number from 1 on, nothing at all, and a control with an unknown name. *)
ObjA  == Object("k" :> A)
ObjN  == Object("k" :> Null)
ObjM  == Object("m" :> One)
ObjA1 == Object("k" :> A @@ "m" :> One)
Ctl(c) == <<"object", << >>, "k" :> c>>

Wanted  == {Ctl("is_string" :> TRUE), Ctl("number_ge" :> 1),
            Ctl("must_not_exist" :> TRUE), Ctl("unknown" :> TRUE)}
Arrays  == {Arr(<<A, One>>), Arr(<<One, A>>)}

Upto(S, n) == UNION {[1 .. i -> S] : i \in 0 .. n}

MCActual   == Upto({A, One, ObjA, ObjA1} \cup Arrays, 2) \cup Upto({Null, ObjN, ObjM}, 2)
                \cup [1 .. 3 -> {A, ObjA1}]
MCExpected == MCActual \cup Upto(Wanted \cup {ObjA}, 2)

MCControls ==
  { "depth" :> d @@ "order_matters" :> o @@ "no_extra" :> n :
      d \in {-1, 0, 1}, o \in BOOLEAN, n \in BOOLEAN }
  \cup {"element_no_extra" :> TRUE}

(* Tables with types, with and without comments, gaps, and cells that cannot be
   read; the last two end in a panic. *)
MCReads == [t \in Types |->
  CASE t \in {"int64", "int", "float64"} -> "1" :> One
    [] t = "bool" -> "1" :> <<"bool", TRUE>>
    [] t = "bool,array" -> "1" :> Arr(<<<<"bool", FALSE>>>>) @@ "x" :> Arr(<<<<"bool", FALSE>>>>)
    [] t = "string,array" -> "1" :> Arr(<<Str("1")>>) @@ "x" :> Arr(<<Str("x")>>)
    [] t = "json" -> "1" :> One
    [] OTHER -> "1" :> Arr(<<One>>)]
MCComments == {"#c"}
MCTrim == " " :> "" @@ " n" :> "n"

Names   == <<"m", " n", "">>
Tables  == {<<Names, f, <<"1", "x", "1">>, <<"", "", "1">>, <<"1">>>> :
              f \in {"string", "*int64", "bool", "", "json"} \X {"string", "*string", "bool,array", " ", "int,array"}
                       \X {"string", ""}}
           \cup {<<Names, <<"string", "bogus">>>>, <<<<"#c">>, <<"">>, Names, <<"int", "*json">>, <<"#c", "1">>,
                  <<"1">>, <<"x">>>>, <<<<"m", "m">>, <<"int", "string">>, <<"1", "x">>>>, <<Names>>, << >>}

Body(text, json, table, document) ==
  [text |-> text, json |-> json, table |-> table, document |-> document]
NoBody == Body("", Unreadable, << >>, Unreadable)
Bodies == {NoBody, Body("null", Null, <<<<"null">>>>, Unreadable),
           Body("json", ObjA1, <<<<"json">>>>, Unreadable),
           Body("xml", Unreadable, <<<<"xml">>>>, ObjA),
           Body("blank", Unreadable, << >>, Unreadable)}
          \cup {Body("csv", Unreadable, table, Unreadable) : table \in Tables}

(* The command turns everything but XML into nothing. *)
MCFilter == [b \in Bodies |-> IF b.document = ObjA THEN Body("json", ObjA1, << >>, Unreadable) ELSE NoBody]

Headers == {<< >>, "H" :> <<"a">>, "H" :> <<"a", "b", "a">> @@ "G" :> <<"a">>}
Cookies == {<< >>, <<[name |-> "c", value |-> "1", path |-> "", raw |-> "c=1"],
                     [name |-> "c", value |-> "2", path |-> "/", raw |-> "c=2"]>>}
Got(c, h, k, b) == [code |-> c, header |-> h, cookies |-> k, body |-> b]
As(type, pre) == [type |-> type, pre |-> pre]
Asked(c, h, k, b, f) ==
  [given |-> TRUE, code |-> c, header |-> h, headerControl |-> << >>, cookies |-> k,
   body |-> b, bodyControl |-> << >>, format |-> f, unknown |-> {}]

(* Expectations of every part, against bodies in the format that is asked for
   and in others. *)
PartOf ==
  [spec: {NoSpec, [NoSpec EXCEPT !.given = TRUE, !.unknown = {"header_flat"}],
          [NoSpec EXCEPT !.given = TRUE, !.header = "H" :> One],
          [NoSpec EXCEPT !.given = TRUE, !.headerControl = "H" :> ("starts_with" :> {"a"})]}
         \cup {Asked(c, h, k, Null, As("", "none")) : c \in {NoCode, 0, 200},
                 h \in {<< >>, "H" :> Str("a"), "H" :> Str("a;b;a"), "H" :> Strs(<<"b", "a">>),
                        "H" :> Strs(<<"b">>) @@ "G" :> Str("a")},
                 k \in {<< >>, "c" :> ("name" :> "c" @@ "value" :> "2"),
                        "c" :> ("name" :> "c" @@ "value" :> "2" @@ "path" :> "/" @@ "raw" :> "c=2")}},
   stores: BOOLEAN, judged: {TRUE},
   got: {Got(c, h, k, b) : c \in {200, 404}, h \in Headers, k \in Cookies, b \in {NoBody}}]

Formats ==
  [spec: {Asked(200, << >>, << >>, b, As(t, p)) : b \in {Null, ObjA, Str("")},
            t \in {"", "csv", "text", "binary", "xml", "bogus"}, p \in {"none", "no name", "run"}}
         \cup {NoSpec, [NoSpec EXCEPT !.given = TRUE, !.bodyControl = "is_object" :> TRUE]},
   stores: BOOLEAN, judged: {TRUE}, got: {Got(200, << >>, << >>, b) : b \in Bodies}]

MCExchanges == PartOf \cup Formats

(* The responses, and what is expected by the specifications and by replays. *)
Specs == {x.spec : x \in MCExchanges}
Answers ==
  {ServerResponseToGenericJSON(got, WithIgnore(format, ignore)) :
     got \in {x.got : x \in MCExchanges}, format \in {s.format : s \in Specs}, ignore \in BOOLEAN} \ Failed
Expectations ==
  UNION {{expectedJSON(e) : e \in Range(loadExpectedResponse(s, TRUE))} :
           s \in Specs \cup {Replay(json, NoSpec.format) : json \in Answers}}

(* What is compared with all its parts, which end above Nesting.  TLC evaluates
   a definition once, but not what it puts for a constant. *)
Nesting == 6
Within[n \in 0 .. Nesting] ==
  IF n = 0 THEN {Null} \cup {Arr(a) : a \in MCExpected \cup MCActual} \cup Answers \cup Expectations
  ELSE LET above == Within[n - 1] IN above \cup UNION {Parts(v) : v \in above}
AllWithin == Within[Nesting]
MCValues == AllWithin
MCHeight == [v \in MCValues |->
  LET below[n \in 0 .. Nesting] == IF n = 0 THEN {v} ELSE UNION {Parts(w) : w \in below[n - 1]}
  IN  Cardinality({n \in 1 .. Nesting : below[n] # {}})]
=============================================================================
