------------------------------ MODULE MCRequest ------------------------------
(* Instances of Request for TLC: two suites' requests to one client. *)
EXTENDS Request

Ref(k)  == [key |-> k, optional |-> FALSE]
Opt(k)  == [key |-> k, optional |-> TRUE]
Own(v)  == [store |-> "", value |-> v]
From(k) == [store |-> k, value |-> ""]
Both(k, v) == [store |-> k, value |-> v]

MCCanonical ==
  "X-A" :> "X-A" @@ "x-a" :> "X-A" @@ "X-B" :> "X-B" @@ "x-b" :> "X-B"
  @@ [n \in {"User-Agent", "Authorization", "Content-Type", "Cookie", "X-Test-Set-Cookies"} |-> n]

(* An index or map key of nothing is missing, a plain unknown key is "". *)
MCStoreValue ==
  "text" :> Text("t") @@ "unknown" :> Text("") @@ "gone[0]" :> Missing
  @@ "list" :> Value("list", "json", <<"a", "", NotText, "b">>)
  @@ "number" :> Value("number", "7", << >>)
  @@ "sess" :> Value("cookie", "object", <<"c">>)

MCStandard == [header |-> "X-B" :> Text("std"), headerStore |-> "X-A" :> Opt("gone[0]")]

With(f) == [p \in DOMAIN NoRequest |-> IF p \in DOMAIN f THEN f[p] ELSE NoRequest[p]]

ManyRequests == {
  With("header" :> ("X-A" :> Text("v") @@ "x-b" :> Value("list", "json", <<"v", "w">>))
       @@ "headerStore" :> ("X-A" :> Ref("list"))),
  With("headerStore" :> ("X-A" :> Ref("list") @@ "Content-Type" :> Ref("list"))
       @@ "header" :> ("X-B" :> Text("") @@ "Authorization" :> Text("v"))
       @@ "url" :> "user" @@ "noRedirect" :> TRUE),
  With("headerStore" :> ("X-A" :> Ref("unknown") @@ "Content-Type" :> Ref("text"))
       @@ "header" :> ("Cookie" :> Text("k"))
       @@ "cookies" :> ("c1" :> Both("sess", "v") @@ "c2" :> From("gone[0]") @@ "c3" :> From("sess"))
       @@ "bodyType" :> "multipart" @@ "body" :> "ok"),
  With("paramStore" :> ("p" :> Ref("text") @@ "q" :> Opt("gone[0]") @@ "o" :> Ref("unknown"))
       @@ "params" :> ("p" :> Text("v") @@ "o" :> Value("list", "json", <<"v">>))
       @@ "setCookies" :> <<"sc1", "sc2">> @@ "bodyType" :> "urlencoded" @@ "body" :> "ok"),
  With("headerStore" :> ("X-A" :> Ref("gone[0]") @@ "X-B" :> Ref("number"))),
  With("header" :> ("X-A" :> Value("list", "json", <<"v", NotText>>) @@ "X-B" :> Value("number", "7", << >>))
       @@ "noRedirect" :> TRUE),
  With("paramStore" :> ("p" :> Ref("gone[0]")) @@ "bodyType" :> "file" @@ "body" :> "ok"),
  With("cookies" :> ("c1" :> From("number") @@ "c2" :> NilCookie)),
  With("setCookies" :> <<"sc1", "invalid">>),
  With("bodyType" :> "file"), With("url" :> "bad")}

FewRequests == {
  With("header" :> ("x-a" :> Text("v") @@ "X-A" :> Value("list", "json", <<"w">>))),
  With("headerStore" :> ("X-B" :> Ref("text")) @@ "noRedirect" :> TRUE)}

MCRequests == [s \in Senders |-> IF s \in JarSenders THEN ManyRequests ELSE FewRequests]
=============================================================================
