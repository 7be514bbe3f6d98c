---------------------------- MODULE MCDatastore -----------------------------
(* Instances of Datastore for TLC, with the entries of MCStore but one, and
   templates that ask for the first response of the clones or for the last. *)
EXTENDS Datastore, MCStore

MCSomeReads == MCReads \ {Entry("ids", "all")}
MCIndexes   == {3, -1}
=============================================================================
