------------------------------ MODULE SmtpHttp -------------------------------
(***************************************************************************)
(* The messages of the mock SMTP server and how they are looked up: their  *)
(* parts (internal/smtp/message.go), the search (search.go) and the        *)
(* handlers behind /smtp (http.go), on top of SmtpServer.                  *)
(*                                                                         *)
(* A handler takes the mutex once, to find a message or to copy the list,  *)
(* and messages do not change; so an answer is an operator on a state.  Of *)
(* an answer we keep its status, and what it shows: paths, each with the   *)
(* content that is described for it.                                       *)
(***************************************************************************)
EXTENDS SmtpServer, FiniteSets

CONSTANTS
  Contents,  \* messages and their parts at every depth, as they are on the wire
  Depth,     \* how deep the parts in a content are nested
  Mails,     \* Mails[n]: the message sent by transaction n, and From and To in it
  Queries    \* paths and searches under study

(* type is the value of a Content-Type: "none", "plain", "multipart", or one
   that cannot be used: "bad", or "noboundary".  readable is FALSE if the body
   cannot be read: wrongly encoded, or a part that the size limit cuts off. *)
ASSUME MailsAssumption ==
  /\ Depth \in [Contents -> Nat]
  /\ \A c \in Contents :
       /\ c.parts \in Seq(Contents)
       /\ \A i \in DOMAIN c.parts : Depth[c.parts[i]] < Depth[c]
  /\ DOMAIN Mails = 1 .. MaxMessages
  /\ \A n \in DOMAIN Mails :
       Mails[n].content \in Contents /\ Mails[n].from \in Addresses /\ Mails[n].to \in Addresses

Undecodable == "undecodable"
EmptyValue  == ""

(***************************************************************************)
(* Parsing                                                                 *)
(***************************************************************************)

(* A header is its name and value; a value that is no RFC 2047 is dropped. *)
preprocessHeaders(headers) ==
  {IF h[2] = Undecodable THEN <<h[1], EmptyValue>> ELSE h : h \in headers}

(* Mutant: parts are counted from 1. *)
newReceivedPart_OneBased(i, content) == [index |-> i + 1, content |-> content]

newReceivedPart(i, content) == [index |-> i, content |-> content]

(* wrapBodyReader: decoding the body, and the size limit, may fail. *)
CanRead(raw) == raw.readable

(* Whether a content can be parsed: one part that cannot makes the whole
   message fail. *)
newReceivedContent[c \in Contents] ==
  /\ CanRead(c)
  /\ c.type \notin {"bad", "noboundary"}
  /\ c.type = "multipart" => \A i \in DOMAIN c.parts : newReceivedContent[c.parts[i]]

(* What is kept of a content that can be parsed. *)
IsMultipart(c) == c.type = "multipart"

Headers(c) == preprocessHeaders(c.headers)

Multiparts(c) ==
  IF IsMultipart(c) THEN [i \in DOMAIN c.parts |-> newReceivedPart(i - 1, c.parts[i])] ELSE << >>

Parses(n) == newReceivedContent[Mails[n].content]

ContentOf(msg) == Mails[msg.payload.body].content

(***************************************************************************)
(* Steps: those of SmtpServer, with messages that can or cannot be parsed  *)
(***************************************************************************)

HttpNext ==
  \/ \E s \in Sessions :
       \/ \E a \in Addresses : Mail(s, a) \/ Rcpt(s, a)
       \/ DataRead(s) \/ Reset(s)
       \/ spc[s] = "data" /\ Parses(tx[s]) /\ DataAppend(s)
       \/ spc[s] = "data" /\ ~Parses(tx[s]) /\ DataParseError(s)
  \/ LET n == begun + 1
     IN  begun < MaxMessages /\ Parses(n) /\ PostMessage(Mails[n].from, Mails[n].to)

HttpSpec == Init /\ [][HttpNext]_vars

(***************************************************************************)
(* Search                                                                  *)
(***************************************************************************)

(* A regular expression is the set of the headers that it matches, a search a
   set of them, or BadSearch if one does not compile. *)
BadSearch == {{<<"does not", "compile">>}}

allRegexesMatchAnyHeader(headers, rxs) == \A rx \in rxs : rx \cap headers # {}

(***************************************************************************)
(* Answers.  A path is a sequence of words and numbers.  What an answer    *)
(* shows is a set of contents, each with the path to it.                   *)
(***************************************************************************)

Word(w) == <<"word", w>>
Idx(n)  == <<"idx", n>>
IsIdx(step) == step[1] = "idx"

(* The words that routes know, and any other one. *)
Words == {"body", "gui", "multipart", "postmessage", "raw", "other"}

Steps == ({"word"} \X Words) \cup ({"idx"} \X Int)
Paths == Seq(Steps) \ {<< >>}

ASSUME QueriesAssumption == \A q \in Queries : q.path \in Seq(Steps)

Get(path) == [path |-> path, search |-> {}]

Fails(status) == [status |-> status, shows |-> {}]
Shows(S) == [status |-> "200", shows |-> S]

(* What is shown in S, or by an answer, as it is seen from one step above. *)
Below(step, S) == {<< <<step>> \o s[1], s[2]>> : s \in S}
Under(step, answer) == [answer EXCEPT !.shows = Below(step, @)]

(* A part, and what meta tells of the parts in it. *)
buildMultipartMeta(meta, part) ==
  Below(Idx(part.index), {<< << >>, part.content>>} \cup meta[part.content])

(* The description of a content lists its parts at every depth. *)
buildContentMeta[c \in Contents] ==
  Below(Word("multipart"),
        UNION {buildMultipartMeta(buildContentMeta, part) : part \in ToSet(Multiparts(c))})

buildMessageBasicMeta(msg) == {<< <<Idx(msg.index)>>, ContentOf(msg)>>}

buildMessageFullMeta(msg) ==
  buildMessageBasicMeta(msg) \cup Below(Idx(msg.index), buildContentMeta[ContentOf(msg)])

(* handleMessageIndex *)
MessageIndex(search) ==
  LET hits == {m \in ToSet(receivedMessages) :
                 allRegexesMatchAnyHeader(Headers(ContentOf(m)), search)}
  IN  IF search = BadSearch THEN Fails("400")
      ELSE Shows(UNION {buildMessageBasicMeta(m) : m \in hits})

(* handleMultipartIndex *)
MultipartIndex(c, search) ==
  LET hits == {p \in ToSet(Multiparts(c)) :
                 allRegexesMatchAnyHeader(Headers(p.content), search)}
  IN  IF search = BadSearch THEN Fails("400")
      ELSE Shows(UNION {buildMultipartMeta(buildContentMeta, p) : p \in hits})

(* A content of multiparts is asked for path[2] of them, or for what is in it,
   where onward tells the answers of parts. *)
PartEndpoint(onward, c, path) ==
  LET i    == path[2][2]
      part == Multiparts(c)[i + 1]
  IN  IF ~IsIdx(path[2]) THEN Fails("400")
      ELSE IF i >= Len(c.parts) THEN Fails("404")
      ELSE IF i < 0 THEN Fails("panic")
      ELSE IF Len(path) = 2 THEN Shows(buildMultipartMeta(buildContentMeta, part))
      ELSE Under(path[2], onward[<<part.content, SubSeq(path, 3, Len(path))>>])

ContentEndpoint(onward, c, path, search) ==
  IF path = <<Word("body")>> THEN Shows({})
  ELSE IF Head(path) # Word("multipart") \/ ~IsMultipart(c) THEN Fails("404")
  ELSE Under(Word("multipart"),
             IF Len(path) = 1 THEN MultipartIndex(c, search) ELSE PartEndpoint(onward, c, path))

subrouteContentEndpoint(c, path, search) ==
  LET route[x \in Contents \X Paths] == ContentEndpoint(route, x[1], x[2], search)
  IN  route[<<c, path>>]

(* Mutant: the last message is out of range. *)
retrieveMessage_OffByOne(p) ==
  CASE ~IsIdx(p) -> Fails("400")
    [] IsIdx(p) /\ p[2] >= Len(receivedMessages) - 1 -> Fails("404")
    [] IsIdx(p) /\ p[2] < 0 -> Fails("panic")
    [] OTHER -> Shows({})

(* retrieveMessage and Server.ReceivedMessage: only an index that is too high
   is an error. *)
retrieveMessage(p) ==
  CASE ~IsIdx(p) -> Fails("400")
    [] IsIdx(p) /\ p[2] >= Len(receivedMessages) -> Fails("404")
    [] IsIdx(p) /\ p[2] < 0 -> Fails("panic")
    [] OTHER -> Shows({})

(* routeMessageEndpoint *)
MessageEndpoint(path, search) ==
  LET found == retrieveMessage(Head(path))
      msg   == receivedMessages[Head(path)[2] + 1]
  IN  IF found.status # "200" THEN found
      ELSE IF Len(path) = 1 THEN Shows(buildMessageFullMeta(msg))
      ELSE IF Tail(path) = <<Word("raw")>> THEN Shows({})
      ELSE Under(Head(path), subrouteContentEndpoint(ContentOf(msg), Tail(path), search))

(* routeGUIEndpoint *)
GUIEndpoint(path) ==
  IF Len(path) = 1 THEN Shows({})
  ELSE IF retrieveMessage(path[2]).status # "200" THEN retrieveMessage(path[2])
  ELSE IF Len(path) = 2 THEN MessageEndpoint(Tail(path), {})
  ELSE Fails("404")

(* ServeHTTP; messages are posted by PostMessage. *)
Answer(q) ==
  IF q.path = << >> THEN MessageIndex(q.search)
  ELSE IF Head(q.path) = Word("gui") THEN GUIEndpoint(q.path)
  ELSE IF Head(q.path) = Word("postmessage") THEN Fails("405")
  ELSE MessageEndpoint(q.path, q.search)

(***************************************************************************)
(* Properties                                                              *)
(***************************************************************************)

(* Answers depend on the list alone. *)
Grows == receivedMessages' # receivedMessages

(* README.md:3147,3297,3337: whatever index, description or search result a
   client is given, the indexes in it lead to the very messages and parts they
   stand for, at every depth, and still do after whatever happens next. *)
ShownLeadsThere ==
  [][Grows => \A q \in Queries : \A s \in Answer(q).shows \cup Answer(q).shows' :
                (s \in Answer(Get(s[1])).shows)']_vars

(* README.md:3337,3360: everything that was accepted can be looked up, down to
   the innermost part, by following the indexes from /smtp on; and no request
   but one with a negative index makes a handler panic. *)
AllReachable ==
  /\ LET below == UNION {Answer(Get(s[1])).shows : s \in Answer(Get(<< >>)).shows}
         seen  == {s[2] : s \in below}
     IN  /\ \A m \in ToSet(receivedMessages) : ContentOf(m) \in seen
         /\ \A c \in seen : \A part \in ToSet(Multiparts(c)) : part.content \in seen
  /\ \A q \in Queries : Answer(q).status = "panic" =>
       \E i \in DOMAIN q.path : IsIdx(q.path[i]) /\ q.path[i][2] < 0

(* AllReachable, whenever the list has changed. *)
EverythingReachable == [][Grows => AllReachable']_vars
=============================================================================
