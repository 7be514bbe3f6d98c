----------------------------- MODULE HttpClient -----------------------------
(***************************************************************************)
(* Sending requests: Request.Send of pkg/lib/api/request.go.               *)
(*                                                                         *)
(* All requests of the process go through one http.Client, and Send sets   *)
(* its CheckRedirect without a lock.  Only if the suite has a cookie jar   *)
(* does Send work on a copy of the client that carries the jar.  net/http  *)
(* looks at the client's CheckRedirect anew at every redirect, calls a nil *)
(* one the default (an error at the HopLimit-th redirect), and ends the    *)
(* whole exchange at the client's Timeout.  Parallel clones are the        *)
(* senders.                                                                *)
(***************************************************************************)
EXTENDS Naturals

CONSTANTS
  Senders,     \* the goroutines that send requests
  JarSenders,  \* those whose suite has opted into the cookie jar
  HopLimit     \* 10 in net/http

ASSUME ClientAssumption == JarSenders \subseteq Senders /\ HopLimit \in Nat \ {0}

VARIABLES
  shared,      \* httpClient
  own,         \* the copy a sender with a jar made last
  sending,     \* the sender is in client.Do
  noRedirect,  \* request.NoRedirect of its request
  hops,        \* the redirects it followed
  withJar,     \* a request of it went out with the jar's cookies
  answer       \* its last result: "none", "final", "redirect", "error"

vars == <<shared, own, sending, noRedirect, hops, withJar, answer>>

(* The fields of http.Client that Send changes. *)
Client == [jar: BOOLEAN, stop: BOOLEAN]

Init ==
  /\ shared = [jar |-> FALSE, stop |-> FALSE]
  /\ own = [s \in Senders |-> shared]
  /\ sending = [s \in Senders |-> FALSE]
  /\ noRedirect = [s \in Senders |-> FALSE]
  /\ hops = [s \in Senders |-> 0]
  /\ withJar = [s \in Senders |-> FALSE]
  /\ answer = [s \in Senders |-> "none"]

(* Mutants: the copy is made but the shared client is used; the jar is put
   into the shared client. *)
SetClient_SharedPolicy(s, nr) ==
  IF s \in JarSenders
    THEN /\ own' = [own EXCEPT ![s] = [jar |-> TRUE, stop |-> shared.stop]]
         /\ shared' = [shared EXCEPT !.stop = nr]
    ELSE /\ shared' = [shared EXCEPT !.stop = nr]
         /\ UNCHANGED own

SetClient_SharedJar(s, nr) ==
  IF s \in JarSenders
    THEN /\ own' = [own EXCEPT ![s] = [jar |-> TRUE, stop |-> nr]]
         /\ shared' = [shared EXCEPT !.jar = TRUE]
    ELSE /\ shared' = [shared EXCEPT !.stop = nr]
         /\ UNCHANGED own

SetClient(s, nr) ==
  IF s \in JarSenders
    THEN /\ own' = [own EXCEPT ![s] = [jar |-> TRUE, stop |-> nr]]
         /\ UNCHANGED shared
    ELSE /\ shared' = [shared EXCEPT !.stop = nr]
         /\ UNCHANGED own

(* The client that s uses. *)
ClientOf(s) == IF s \in JarSenders THEN own[s] ELSE shared

(* Up to client.Do. *)
Send(s, nr) ==
  /\ ~sending[s]
  /\ SetClient(s, nr)
  /\ sending' = [sending EXCEPT ![s] = TRUE]
  /\ noRedirect' = [noRedirect EXCEPT ![s] = nr]
  /\ hops' = [hops EXCEPT ![s] = 0]
  /\ withJar' = [withJar EXCEPT ![s] = ClientOf(s)'.jar]
  /\ answer' = [answer EXCEPT ![s] = "none"]

Finish(s, a) ==
  /\ sending' = [sending EXCEPT ![s] = FALSE]
  /\ answer' = [answer EXCEPT ![s] = a]

Final(s) ==
  /\ sending[s]
  /\ Finish(s, "final")
  /\ UNCHANGED <<shared, own, noRedirect, hops, withJar>>

(* The server answers with a redirect. *)
StopAtRedirect(s) ==
  /\ sending[s]
  /\ ClientOf(s).stop
  /\ Finish(s, "redirect")
  /\ UNCHANGED <<shared, own, noRedirect, hops, withJar>>

FollowRedirect(s) ==
  /\ sending[s]
  /\ ~ClientOf(s).stop
  /\ hops[s] < HopLimit - 1
  /\ hops' = [hops EXCEPT ![s] = @ + 1]
  /\ withJar' = [withJar EXCEPT ![s] = @ \/ ClientOf(s).jar]
  /\ UNCHANGED <<shared, own, sending, noRedirect, answer>>

(* The limit of net/http, or a connection that fails. *)
SendError(s) ==
  /\ sending[s]
  /\ Finish(s, "error")
  /\ UNCHANGED <<shared, own, noRedirect, hops, withJar>>

(* Mutant: the copy of the client has no timeout. *)
Timeout_SharedOnly(s) == s \notin JarSenders /\ SendError(s)

(* http.Client.Timeout, which the copy has as well. *)
Timeout(s) == SendError(s)

Exchange(s) == Final(s) \/ StopAtRedirect(s) \/ FollowRedirect(s) \/ SendError(s)

Next == \E s \in Senders :
  \/ \E nr \in BOOLEAN : Send(s, nr)
  \/ Exchange(s)

Spec == Init /\ [][Next]_vars

(***************************************************************************)
(* Properties                                                              *)
(***************************************************************************)

(* Every variable of the clients and senders keeps its type. *)
TypeOK ==
  /\ shared \in Client
  /\ own \in [Senders -> Client]
  /\ sending \in [Senders -> BOOLEAN]
  /\ noRedirect \in [Senders -> BOOLEAN]
  /\ hops \in [Senders -> 0 .. HopLimit - 1]
  /\ withJar \in [Senders -> BOOLEAN]
  /\ answer \in [Senders -> {"none", "final", "redirect", "error"}]

(* request.go:343, README.md:222 ("If set to true, don't follow redirects"):
   a request with no_redirect follows none. *)
NoRedirectHonoured == \A s \in Senders : noRedirect[s] => hops[s] = 0

(* request.go:337: cookies of the jar travel only with requests of a suite
   that has opted in. *)
JarOnlyForOptedIn == \A s \in Senders : withJar[s] <=> s \in JarSenders /\
  (sending[s] \/ answer[s] # "none")
=============================================================================
