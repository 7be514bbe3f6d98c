------------------------------ MODULE AppendLog ------------------------------
(***************************************************************************)
(* The promise of the two stores that the suite's servers keep, the SMTP   *)
(* server's received messages and a proxy store's requests: entries are    *)
(* only ever added at the end, and every entry carries its own position.   *)
(***************************************************************************)
EXTENDS Integers, Sequences

CONSTANT Payloads

VARIABLE entries

Entry(i, p) == [index |-> i, payload |-> p]

LogInit == entries = << >>

Add(p) == entries' = Append(entries, Entry(Len(entries), p))

LogNext == \E p \in Payloads : Add(p)

LogSpec == LogInit /\ [][LogNext]_entries
=============================================================================
