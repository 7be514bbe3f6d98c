----------------------------- MODULE MCSmtpHttp ------------------------------
(* Instances of SmtpHttp for TLC: a message with parts in a part, one that is
   plain, and one with a part that cannot be parsed. *)
EXTENDS SmtpHttp

CONSTANTS a, b

H(v) == <<"Subject", v>>
Raw(hs, type, parts) == [headers |-> hs, type |-> type, readable |-> TRUE, parts |-> parts]

Leaf(v)  == Raw({H(v)}, "plain", << >>)
Inner    == Raw({H("x"), <<"To", Undecodable>>}, "multipart", <<Leaf("y"), Leaf("x")>>)
Nested   == Raw({H("y")}, "multipart", <<Leaf("x"), Inner, Leaf("y")>>)
Unreadable == [Leaf("y") EXCEPT !.readable = FALSE]
Spoilt   == Raw({}, "multipart", <<Leaf("x"), Unreadable>>)

MCContents == {Nested, Inner, Spoilt, Unreadable} \cup {Leaf(v) : v \in {"x", "y"}}

MCDepth == [c \in MCContents |->
  CASE c = Nested -> 2 [] c \in {Inner, Spoilt} -> 1 [] OTHER -> 0]

Symmetry == Permutations(Sessions)

Addressed(c, f, t) == [content |-> c, from |-> f, to |-> t]

MCMails == <<Addressed(Nested, a, b), Addressed(Leaf("x"), b, a), Addressed(Spoilt, a, a)>>

X == {H("x")}
Y == {H("y")}

MP == Word("multipart")

MCPaths ==
  { <<Word("postmessage")>>, <<Word("other")>>, <<Word("gui")>>, <<Word("gui"), Idx(0)>>, <<Word("gui"), Idx(0), Word("body")>>,
    <<Word("body")>>, <<Idx(-1)>>, <<Idx(2)>> }
  \cup { <<Idx(0)>> \o p :
           p \in {<<Word("raw")>>, <<Word("body")>>, <<MP, Word("body")>>,
                  <<MP, Idx(-1)>>, <<MP, Idx(1)>>, <<MP, Idx(3)>>, <<MP, Idx(0), MP>>,
                  <<MP, Idx(1), MP, Idx(1), Word("body")>>, <<MP, Idx(1), Word("raw")>>} }

Search(path, searches) == [path: {path}, search: searches]

MCQueries ==
  {Get(p) : p \in MCPaths}
  \cup Search(<< >>, {{X}, {X, Y}, BadSearch})
  \cup Search(<<Idx(0), MP>>, {{}, {X}, {X, Y}})
  \cup Search(<<Idx(0), MP, Idx(1), MP>>, {{X}, BadSearch})
=============================================================================
