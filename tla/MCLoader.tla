------------------------------ MODULE MCLoader -------------------------------
(* Instances of Loader for TLC: a manifest with a library file and two tests,
   the first with a nested test, a request in another directory and a file of
   collect responses.  The library, and a test, load more with a host. *)
EXTENDS Loader

Plain(s) == [base |-> "plain", steps |-> s]
Dot(s)   == [base |-> "dot", steps |-> s]
Abs(s)   == [base |-> "abs", steps |-> s]

MCManifest == <<"s", "manifest">>
Library  == <<"s", "lib", "c">>
Test1    == <<"s", "sub", "t1">>
Test2    == <<"s", "t2">>
Nested   == <<"s", "sub", "deep", "n">>
Inc      == <<"s", "sub", "inc", "a">>
IncInc   == <<"s", "sub", "inc", "b">>
Data     == <<"s", "r">>
Collect  == <<"s", "sub", "c">>

Includes ==
  MCManifest :> <<Plain(<<"lib", "c">>)>> @@ Library :> <<Abs(IncInc)>>
  @@ Test1 :> <<Plain(<<"inc", "a">>), Dot(<<"lib", "c">>)>>
  @@ Test2 :> <<Abs(Library), Plain(<<"missing">>)>>
  @@ Nested :> <<Plain(<<Up, "inc", "b">>)>>
  @@ Inc :> << >> @@ IncInc :> <<Plain(<<"a">>)>>
  @@ Data :> <<Plain(<<"inc", "b">>)>>
  @@ Collect :> <<Plain(<<"inc", "a">>)>>

Ref(k, p) == [kind |-> k, path |-> p]

ItemsOf(loc) ==
  CASE loc = MCManifest -> <<Ref("test", Plain(<<"sub", "t1">>)), Ref("test", Plain(<<"t2">>))>>
    [] loc = Test1 -> <<Ref("data", Plain(<<Up, "r">>)), Ref("collect", Plain(<<"c">>)),
                        Ref("test", Plain(<<"deep", "n">>))>>
    [] loc = Test2 -> <<Ref("data", Abs(Data))>>
    [] loc = Collect -> <<Ref("data", Plain(<<Up, "r">>)), Ref("data", Plain(<<"missing">>))>>
    [] OTHER -> << >>

WithoutHost(loc, refs) == IF loc \in {Library, Test1} THEN SubSeq(refs, 1, Len(refs) - 1) ELSE refs

MCTree == [loc \in DOMAIN Includes |->
             [includes |-> [h \in {"none", "given"} |->
                              IF h = "given" THEN Includes[loc] ELSE WithoutHost(loc, Includes[loc])],
              items    |-> [h \in {"none", "given"} |->
                              IF h = "given" THEN ItemsOf(loc) ELSE IF loc = Test1 THEN << >> ELSE ItemsOf(loc)]]]

(* Any of the files may declare either delimiters; the others are all written
   with the default ones, or all with those that may be inherited. *)
HeaderOf(declared, w) ==
  [loc \in DOMAIN Includes |->
     [declares |-> declared[loc],
      written  |-> IF declared[loc] = NoDelims THEN w ELSE declared[loc]]]

MCHeaders ==
  {HeaderOf(d, w) : d \in [DOMAIN Includes -> {"default", "other", NoDelims}], w \in {"default", "other"}}
MCStartDirs == {<<"home">>}
=============================================================================
