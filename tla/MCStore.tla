------------------------------ MODULE MCStore -------------------------------
(* Instances of Store for TLC: a list that is pushed to, overwritten, deleted
   and looked into, and a map that is read as a whole. *)
EXTENDS Store

Entry(k, f) == [key |-> k, form |-> f]
Path(k, f, b) == [key |-> k, form |-> f, bang |-> b]

MCStoreMap == {Entry("ids", "list")}
MCReads    == {Entry("ids", "list"), Entry("ids", "all"), Entry("m", "plain")}
MCGjson    == {Path("ids", "plain", TRUE), Path("m", "map", FALSE)}
=============================================================================
