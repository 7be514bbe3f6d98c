----------------------------- MODULE Servers_proofs -----------------------------
(***************************************************************************)
(* Proofs about the servers that a suite starts, for any number of         *)
(* sessions, writers and readers, any addresses and any bounds: their      *)
(* lists are append-only logs, and what they show of them can be looked up *)
(* where it is said to be.                                                 *)
(*                                                                         *)
(* The mock SMTP server.  The invariant follows a transaction from MAIL to *)
(* the end of DATA: while a session is in one, its sender is the one of    *)
(* the last MAIL and its recipients are those named since the last Reset,  *)
(* no other session has the same transaction, and the message is not in    *)
(* the list yet.  After a Reset a session has no recipients; another MAIL  *)
(* without a Reset takes over those of the transaction that it abandons.   *)
(* The descriptions of messages, and the routes to their parts, are        *)
(* recursive over parts; what they have to do with each other is proved by *)
(* induction over the depth to which parts are nested.                     *)
(*                                                                         *)
(* A proxy store has no lock.  With one writer at a time, a write that is  *)
(* under way has seen the whole list, and goes to its end.                 *)
(***************************************************************************)
EXTENDS SmtpHttp, SequenceTheorems, NaturalsInduction, WellFoundedInduction, TLAPS

(***************************************************************************)
(* The SMTP server                                                         *)
(***************************************************************************)

InTransaction(s) == spc[s] \in {"mail", "rcpt", "data"}

(* What a session holds is what its client has named, and new. *)
SessionIntact(s) ==
  /\ spc[s] = "ready" => rcptTo[s] = << >>
  /\ InTransaction(s) => /\ tx[s] \in 1 .. begun /\ tx[s] \notin accepted
                         /\ from[s] \in Addresses
                         /\ intent[tx[s]] = Envelope(from[s], rcptTo[s])

SessionsIntact == \A s \in Sessions : SessionIntact(s)

OwnTransactions ==
  \A s, t \in Sessions : InTransaction(s) /\ InTransaction(t) /\ tx[s] = tx[t] => s = t

Body(list, i) == list[i].payload.body

(* Every message is acknowledged, there once, and as asked for. *)
ListIntact ==
  /\ accepted \subseteq 1 .. begun
  /\ \A i \in 1 .. Len(receivedMessages) : Body(receivedMessages, i) \in accepted
  /\ \A n \in accepted : \E i \in 1 .. Len(receivedMessages) : Body(receivedMessages, i) = n
  /\ \A i, j \in 1 .. Len(receivedMessages) : Body(receivedMessages, i) = Body(receivedMessages, j) => i = j
  /\ \A i \in 1 .. Len(receivedMessages) :
       intent[Body(receivedMessages, i)] = Envelope(receivedMessages[i].payload.from, receivedMessages[i].payload.to)

SmtpInvariant == TypeOK /\ SessionsIntact /\ OwnTransactions /\ ListIntact

(* The sequences of at most MaxRcpts addresses are the Recipients. *)
LEMMA RecipientsAreSequences ==
  \A to : to \in Recipients <=> to \in Seq(Addresses) /\ Len(to) <= MaxRcpts
<1>1. ASSUME NEW to \in Seq(Addresses), Len(to) <= MaxRcpts PROVE to \in Recipients
  <2>1. Len(to) \in 0 .. MaxRcpts /\ to \in [1 .. Len(to) -> Addresses]
    BY <1>1, SmtpAssumption
  <2> QED
    BY <2>1 DEF Recipients
<1>2. ASSUME NEW to \in Recipients PROVE to \in Seq(Addresses) /\ Len(to) <= MaxRcpts
  <2>1. PICK n \in 0 .. MaxRcpts : to \in [1 .. n -> Addresses]
    BY DEF Recipients
  <2>2. to \in Seq(Addresses) /\ Len(to) = n
    BY <2>1
  <2> QED
    BY <2>2
<1> QED
  BY <1>1, <1>2

(* Recipients are added one by one. *)
LEMMA RecipientsGrow ==
  /\ << >> \in Recipients
  /\ \A a \in Addresses : <<a>> \in Recipients
  /\ \A to \in Recipients, a \in Addresses : Len(to) < MaxRcpts => Append(to, a) \in Recipients
<1>1. << >> \in Seq(Addresses) /\ Len(<< >>) <= MaxRcpts
  BY SmtpAssumption
<1>2. ASSUME NEW a \in Addresses PROVE <<a>> \in Seq(Addresses) /\ Len(<<a>>) <= MaxRcpts
  BY SmtpAssumption
<1>3. ASSUME NEW to \in Seq(Addresses), NEW a \in Addresses, Len(to) < MaxRcpts
      PROVE  Append(to, a) \in Seq(Addresses) /\ Len(Append(to, a)) <= MaxRcpts
  BY <1>3, SmtpAssumption, AppendProperties
<1> QED
  BY <1>1, <1>2, <1>3, RecipientsAreSequences

(* At the start there is no message and no transaction. *)
LEMMA InitSmtp == Init => SmtpInvariant
<1> SUFFICES ASSUME Init PROVE SmtpInvariant
  OBVIOUS
<1>1. TypeOK
  <2>1. rcptTo \in [Sessions -> Recipients]
    BY RecipientsGrow DEF Init
  <2> QED
    BY <2>1, SmtpAssumption DEF Init, TypeOK
<1>2. SessionsIntact /\ OwnTransactions /\ ListIntact
  BY DEF Init, SessionsIntact, SessionIntact, OwnTransactions, ListIntact, InTransaction
<1> QED
  BY <1>1, <1>2 DEF SmtpInvariant

(* What was named since the last Reset is what the session holds. *)
LEMMA NamedIsHeld ==
  ASSUME SmtpInvariant, NEW s \in Sessions, spc[s] \in {"ready", "mail", "rcpt"}
  PROVE  Named(s) = rcptTo[s]
<1>1. CASE spc[s] = "ready"
  BY <1>1 DEF Named, SmtpInvariant, SessionsIntact, SessionIntact
<1>2. CASE spc[s] # "ready"
  <2>1. intent[tx[s]] = Envelope(from[s], rcptTo[s])
    BY <1>2 DEF SmtpInvariant, SessionsIntact, SessionIntact, InTransaction
  <2> QED
    BY <1>2, <2>1 DEF Named, Envelope
<1> QED
  BY <1>1, <1>2

(* MAIL: a new transaction, with the recipients that the session still has. *)
LEMMA MailStep ==
  ASSUME SmtpInvariant, NEW s \in Sessions, NEW a \in Addresses, Mail(s, a)
  PROVE  SmtpInvariant'
<1> DEFINE n == begun + 1
           e == Envelope(a, rcptTo[s])
           next == IF rcptTo[s] = << >> THEN "mail" ELSE "rcpt"
<1> USE DEF SmtpInvariant
<1>1. /\ spc[s] \in {"ready", "mail", "rcpt"} /\ begun < MaxMessages
      /\ begun' = n
      /\ tx' = [tx EXCEPT ![s] = n]
      /\ from' = [from EXCEPT ![s] = a]
      /\ intent' = Append(intent, e)
      /\ spc' = [spc EXCEPT ![s] = next]
      /\ UNCHANGED <<receivedMessages, rcptTo, accepted>>
  BY NamedIsHeld DEF Mail
<1>2. e \in EnvelopeType
  BY DEF Envelope, EnvelopeType, TypeOK
<1>3. n \in 1 .. MaxMessages /\ begun \in Nat
  BY <1>1, SmtpAssumption DEF TypeOK
<1>4. /\ intent' \in Seq(EnvelopeType)
      /\ Len(intent') = n /\ intent'[n] = e
      /\ \A m \in 1 .. begun : intent'[m] = intent[m]
  BY <1>1, <1>2, AppendProperties DEF TypeOK
<1> next \in {"mail", "rcpt"}
  OBVIOUS
<1> HIDE DEF e, next
<1>5. TypeOK'
  BY <1>1, <1>3, <1>4 DEF TypeOK
<1>6. SessionsIntact'
  <2>1. SessionIntact(s)'
    <3>1. accepted \subseteq 1 .. begun
      BY DEF ListIntact
    <3>2. /\ spc'[s] = next /\ tx'[s] = n /\ from'[s] = a /\ rcptTo'[s] = rcptTo[s]
          /\ n \notin accepted'
      BY <1>1, <1>3, <3>1 DEF TypeOK
    <3> QED
      BY <1>1, <1>3, <1>4, <3>2 DEF SessionIntact, InTransaction, e
  <2>2. ASSUME NEW t \in Sessions \ {s} PROVE SessionIntact(t)'
    <3>1. /\ spc'[t] = spc[t] /\ tx'[t] = tx[t] /\ from'[t] = from[t] /\ rcptTo'[t] = rcptTo[t]
          /\ accepted' = accepted
      BY <1>1, <2>2 DEF TypeOK
    <3> QED
      BY <1>1, <1>3, <1>4, <3>1 DEF SessionsIntact, SessionIntact, InTransaction
  <2> QED
    BY <2>1, <2>2 DEF SessionsIntact
<1>7. OwnTransactions'
  <2>1. \A t \in Sessions : InTransaction(t) => tx[t] # n
    BY <1>3 DEF SessionsIntact, SessionIntact
  <2> QED
    BY <1>1, <2>1 DEF OwnTransactions, InTransaction, TypeOK
<1>8. ListIntact'
  <2>1. \A i \in 1 .. Len(receivedMessages) : Body(receivedMessages, i) \in 1 .. begun
    BY DEF ListIntact
  <2> QED
    BY <1>1, <1>3, <1>4, <2>1 DEF ListIntact, Body
<1> QED
  BY <1>5, <1>6, <1>7, <1>8

(* RCPT: the session and what was asked for grow alike; the envelopes of the
   messages in the list are those of other transactions. *)
LEMMA RcptStep ==
  ASSUME SmtpInvariant, NEW s \in Sessions, NEW a \in Addresses, Rcpt(s, a)
  PROVE  SmtpInvariant'
<1> DEFINE n == tx[s]
           e == [intent[n] EXCEPT !.to = Append(@, a)]
           to == Append(rcptTo[s], a)
<1> USE DEF SmtpInvariant
<1>1. /\ spc[s] \in {"mail", "rcpt"} /\ Len(rcptTo[s]) < MaxRcpts
      /\ rcptTo' = [rcptTo EXCEPT ![s] = to]
      /\ intent' = [intent EXCEPT ![n] = e]
      /\ spc' = [spc EXCEPT ![s] = "rcpt"]
      /\ UNCHANGED <<receivedMessages, from, tx, begun, accepted>>
  BY DEF Rcpt
<1>2. /\ n \in 1 .. begun /\ n \notin accepted /\ from[s] \in Addresses
      /\ intent[n] = Envelope(from[s], rcptTo[s])
  BY <1>1 DEF SessionsIntact, SessionIntact, InTransaction
<1>3. to \in Recipients
  BY <1>1, RecipientsGrow DEF TypeOK
<1>4. e = Envelope(from[s], to)
  <2>1. \A c, y : c = Envelope(from[s], rcptTo[s]) =>
          [c EXCEPT !.to = y] = Envelope(from[s], y) /\ c.to = rcptTo[s]
    BY DEF Envelope
  <2>2. intent[n].to = rcptTo[s]
    BY <1>2, <2>1
  <2>3. \A y : [intent[n] EXCEPT !.to = y] = Envelope(from[s], y)
    BY <1>2, <2>1
  <2>4. e = [intent[n] EXCEPT !.to = to]
    BY <2>2
  <2> QED
    BY <2>3, <2>4
<1> HIDE DEF to, e
<1>5. e \in EnvelopeType
  BY <1>2, <1>3, <1>4 DEF Envelope, EnvelopeType
<1>6. /\ intent' \in Seq(EnvelopeType)
      /\ Len(intent') = begun /\ intent'[n] = e
      /\ \A m \in 1 .. begun : m # n => intent'[m] = intent[m]
  BY <1>1, <1>2, <1>5, ExceptSeq DEF TypeOK
<1>7. TypeOK'
  BY <1>1, <1>3, <1>6 DEF TypeOK
<1>8. SessionsIntact'
  <2>1. SessionIntact(s)'
    <3>1. spc'[s] = "rcpt" /\ rcptTo'[s] = to
      BY <1>1 DEF TypeOK
    <3> QED
      BY <1>1, <1>2, <1>4, <1>6, <3>1 DEF SessionIntact, InTransaction
  <2>2. ASSUME NEW t \in Sessions \ {s} PROVE SessionIntact(t)'
    <3>1. spc'[t] = spc[t] /\ rcptTo'[t] = rcptTo[t]
      BY <1>1, <2>2 DEF TypeOK
    <3>2. InTransaction(t) => tx[t] # n
      BY <1>1, <2>2 DEF OwnTransactions, InTransaction
    <3> QED
      BY <1>1, <1>6, <3>1, <3>2 DEF SessionsIntact, SessionIntact, InTransaction
  <2> QED
    BY <2>1, <2>2 DEF SessionsIntact
<1>9. OwnTransactions'
  BY <1>1 DEF OwnTransactions, InTransaction, TypeOK
<1>10. ListIntact'
  <2>1. \A i \in 1 .. Len(receivedMessages) : Body(receivedMessages, i) \in 1 .. begun /\ Body(receivedMessages, i) # n
    BY <1>2 DEF ListIntact
  <2> QED
    BY <1>1, <1>6, <2>1 DEF ListIntact, Body
<1> QED
  BY <1>7, <1>8, <1>9, <1>10

(* A message of a transaction that is not in the list yet is added. *)
LEMMA AddStep ==
  ASSUME SmtpInvariant, NEW n \in 1 .. MaxMessages, n \notin accepted,
         NEW f \in Addresses, NEW to \in Recipients,
         n \in 1 .. begun', begun \in Nat, begun' \in Nat, begun <= begun', intent'[n] = Envelope(f, to),
         \A m \in accepted : intent'[m] = intent[m],
         accepted' = accepted \cup {n},
         receivedMessages' = Append(receivedMessages, Message(Len(receivedMessages), Payload(f, to, n)))
  PROVE  receivedMessages' \in Seq(MessageType) /\ ListIntact'
<1> DEFINE p == Payload(f, to, n)
           m == Message(Len(receivedMessages), p)
<1> USE DEF SmtpInvariant
<1>1. p \in PayloadType /\ p.from = f /\ p.to = to /\ p.body = n
  BY DEF Payload, PayloadType, Bodies
<1> HIDE DEF p
<1>2. m \in MessageType /\ m.payload = p
  BY <1>1 DEF Message, MessageType, TypeOK
<1> HIDE DEF m
<1>3. receivedMessages' = Append(receivedMessages, m)
  BY DEF m, p
<1>4. /\ receivedMessages' \in Seq(MessageType)
      /\ Len(receivedMessages') = Len(receivedMessages) + 1
      /\ receivedMessages'[Len(receivedMessages) + 1] = m
      /\ \A i \in 1 .. Len(receivedMessages) : receivedMessages'[i] = receivedMessages[i]
  BY <1>2, <1>3, AppendProperties DEF TypeOK
<1>5. Len(receivedMessages) \in Nat
  BY DEF TypeOK
<1> DEFINE last == Len(receivedMessages) + 1
<1>6. /\ Body(receivedMessages', last) = n
      /\ \A i \in 1 .. Len(receivedMessages) : Body(receivedMessages', i) = Body(receivedMessages, i) /\ Body(receivedMessages, i) \in accepted
      /\ \A i \in 1 .. Len(receivedMessages)' : i = last \/ i \in 1 .. Len(receivedMessages)
      /\ last \in 1 .. Len(receivedMessages)'
  <2>1. Body(receivedMessages', last) = n
    BY <1>1, <1>2, <1>4 DEF Body
  <2>2. ASSUME NEW i \in 1 .. Len(receivedMessages)
        PROVE  /\ Body(receivedMessages', i) = Body(receivedMessages, i)
               /\ Body(receivedMessages, i) \in accepted
    BY <1>4 DEF Body, ListIntact
  <2> QED
    BY <1>4, <1>5, <2>1, <2>2
<1>7. \A i \in 1 .. Len(receivedMessages)' : Body(receivedMessages', i) \in accepted'
  BY <1>6
<1>8. \A k \in accepted' : \E i \in 1 .. Len(receivedMessages)' : Body(receivedMessages', i) = k
  BY <1>4, <1>5, <1>6 DEF ListIntact
<1>9. \A i, j \in 1 .. Len(receivedMessages)' : Body(receivedMessages', i) = Body(receivedMessages', j) => i = j
  BY <1>6 DEF ListIntact
<1>10. ASSUME NEW i \in 1 .. Len(receivedMessages)'
       PROVE  intent'[Body(receivedMessages', i)] = Envelope(receivedMessages'[i].payload.from, receivedMessages'[i].payload.to)
  <2>1. CASE i = last
    BY <1>1, <1>2, <1>4, <1>6, <2>1
  <2>2. CASE i # last
    BY <1>4, <1>6, <2>2 DEF ListIntact
  <2> QED
    BY <2>1, <2>2
<1>11. accepted' \subseteq 1 .. begun'
  <2>1. accepted \subseteq 1 .. begun
    BY DEF ListIntact
  <2>2. 1 .. begun \subseteq 1 .. begun'
    OBVIOUS
  <2> QED
    BY <2>1, <2>2
<1> QED
  BY <1>4, <1>7, <1>8, <1>9, <1>10, <1>11 DEF ListIntact, Body

(* The end of DATA. *)
LEMMA DataAppendStep ==
  ASSUME SmtpInvariant, NEW s \in Sessions, DataAppend(s)
  PROVE  SmtpInvariant'
<1> USE DEF SmtpInvariant
<1>1. /\ spc[s] = "data"
      /\ receivedMessages' = Append(receivedMessages,
           Message(Len(receivedMessages), Payload(from[s], rcptTo[s], tx[s])))
      /\ accepted' = accepted \cup {tx[s]}
      /\ spc' = [spc EXCEPT ![s] = "reset"]
      /\ UNCHANGED <<from, rcptTo, tx, begun, intent>>
  BY DEF DataAppend
<1>2. /\ tx[s] \in 1 .. begun /\ tx[s] \notin accepted /\ from[s] \in Addresses
      /\ intent[tx[s]] = Envelope(from[s], rcptTo[s])
      /\ rcptTo[s] \in Recipients
      /\ tx[s] \in 1 .. MaxMessages /\ begun \in Nat /\ tx[s] \in Bodies
  BY <1>1 DEF SessionsIntact, SessionIntact, InTransaction, TypeOK, Bodies
<1>3. receivedMessages' \in Seq(MessageType) /\ ListIntact'
  BY <1>1, <1>2, AddStep
<1>4. TypeOK'
  BY <1>1, <1>2, <1>3 DEF TypeOK
<1>5. SessionsIntact'
  <2> SUFFICES ASSUME NEW t \in Sessions PROVE SessionIntact(t)'
    BY DEF SessionsIntact
  <2>1. CASE t = s
    BY <1>1, <2>1 DEF SessionIntact, InTransaction, TypeOK
  <2>2. CASE t # s
    <3>1. spc'[t] = spc[t] /\ (InTransaction(t) => tx[t] # tx[s])
      BY <1>1, <2>2 DEF OwnTransactions, InTransaction, TypeOK
    <3> QED
      BY <1>1, <3>1 DEF SessionsIntact, SessionIntact, InTransaction
  <2> QED
    BY <2>1, <2>2
<1>6. OwnTransactions'
  BY <1>1 DEF OwnTransactions, InTransaction, TypeOK
<1> QED
  BY <1>3, <1>4, <1>5, <1>6

(* A message over HTTP is a transaction of its own. *)
LEMMA PostMessageStep ==
  ASSUME SmtpInvariant, NEW f \in Addresses, NEW a \in Addresses, PostMessage(f, a)
  PROVE  SmtpInvariant'
<1> DEFINE n == begun + 1
           to == <<a>>
           e == Envelope(f, to)
<1> USE DEF SmtpInvariant
<1>1. /\ begun < MaxMessages /\ begun' = n
      /\ intent' = Append(intent, e)
      /\ receivedMessages' = Append(receivedMessages, Message(Len(receivedMessages), Payload(f, to, n)))
      /\ accepted' = accepted \cup {n}
      /\ UNCHANGED <<spc, from, rcptTo, tx>>
  BY DEF PostMessage, AppendMessage, sessionVars
<1>2. to \in Recipients
  BY RecipientsGrow
<1> HIDE DEF to
<1>3. e \in EnvelopeType
  BY <1>2 DEF Envelope, EnvelopeType
<1>4. n \in 1 .. MaxMessages /\ begun \in Nat /\ accepted \subseteq 1 .. begun
  BY <1>1, SmtpAssumption DEF TypeOK, ListIntact
<1> HIDE DEF e
<1>5. /\ intent' \in Seq(EnvelopeType)
      /\ Len(intent') = n /\ intent'[n] = e
      /\ \A m \in 1 .. begun : intent'[m] = intent[m]
  BY <1>1, <1>3, AppendProperties DEF TypeOK
<1>6. receivedMessages' \in Seq(MessageType) /\ ListIntact'
  <2>1. n \notin accepted /\ n \in 1 .. begun' /\ begun' \in Nat /\ begun <= begun' /\ intent'[n] = Envelope(f, to)
    BY <1>1, <1>4, <1>5 DEF e
  <2>2. \A m \in accepted : intent'[m] = intent[m]
    BY <1>4, <1>5
  <2> QED
    BY <1>1, <1>2, <1>4, <2>1, <2>2, AddStep
<1>7. TypeOK'
  <2>1. n \in Bodies
    BY <1>4 DEF Bodies
  <2> QED
    BY <1>1, <1>4, <1>5, <1>6, <2>1 DEF TypeOK
<1>8. SessionsIntact'
  <2> SUFFICES ASSUME NEW t \in Sessions PROVE SessionIntact(t)'
    BY DEF SessionsIntact
  <2>1. InTransaction(t) => tx[t] \in 1 .. begun /\ tx[t] # n /\ intent'[tx[t]] = intent[tx[t]]
    BY <1>4, <1>5 DEF SessionsIntact, SessionIntact
  <2>2. InTransaction(t)' <=> InTransaction(t)
    BY <1>1 DEF InTransaction
  <2>3. InTransaction(t) => tx[t] \in 1 .. begun' /\ tx[t] \notin accepted'
    BY <1>1, <1>4, <2>1 DEF SessionsIntact, SessionIntact
  <2> QED
    BY <1>1, <2>1, <2>2, <2>3 DEF SessionsIntact, SessionIntact
<1>9. OwnTransactions'
  BY <1>1 DEF OwnTransactions, InTransaction
<1> QED
  BY <1>6, <1>7, <1>8, <1>9

(* The steps of a session that change neither the list nor what it holds, but
   for Reset, which takes it out of its transaction. *)
LEMMA OtherSessionStep ==
  ASSUME SmtpInvariant, NEW s \in Sessions, DataRead(s) \/ DataParseError(s) \/ Reset(s)
  PROVE  SmtpInvariant'
<1> USE DEF SmtpInvariant
<1>1. PICK next \in {"ready", "data", "reset"} :
        /\ spc' = [spc EXCEPT ![s] = next]
        /\ next = "data" => spc[s] = "rcpt"
        /\ IF next = "ready" THEN /\ from' = [from EXCEPT ![s] = NoAddress]
                                  /\ rcptTo' = [rcptTo EXCEPT ![s] = << >>]
                             ELSE UNCHANGED <<from, rcptTo>>
        /\ UNCHANGED <<receivedMessages, tx, begun, intent, accepted>>
  BY DEF DataRead, DataParseError, Reset
<1>2. TypeOK'
  <2>1. rcptTo' \in [Sessions -> Recipients]
    BY <1>1, RecipientsGrow DEF TypeOK
  <2>2. from' \in [Sessions -> Addresses \cup {NoAddress}]
    BY <1>1 DEF TypeOK
  <2> QED
    BY <1>1, <2>1, <2>2 DEF TypeOK
<1>3. SessionsIntact'
  <2> SUFFICES ASSUME NEW t \in Sessions PROVE SessionIntact(t)'
    BY DEF SessionsIntact
  <2>1. CASE t = s
    BY <1>1, <2>1 DEF SessionsIntact, SessionIntact, InTransaction, TypeOK
  <2>2. CASE t # s
    BY <1>1, <2>2 DEF SessionsIntact, SessionIntact, InTransaction, TypeOK
  <2> QED
    BY <2>1, <2>2
<1>4. OwnTransactions'
  BY <1>1 DEF OwnTransactions, InTransaction, TypeOK
<1>5. ListIntact'
  BY <1>1 DEF ListIntact, Body
<1> QED
  BY <1>2, <1>3, <1>4, <1>5

(* Every step of a session or handler keeps the invariant. *)
LEMMA SmtpStep == SmtpInvariant /\ [Next]_vars => SmtpInvariant'
<1> SUFFICES ASSUME SmtpInvariant, [Next]_vars PROVE SmtpInvariant'
  OBVIOUS
<1>1. ASSUME NEW s \in Sessions, SessionStep(s) PROVE SmtpInvariant'
  BY <1>1, MailStep, RcptStep, DataAppendStep, OtherSessionStep DEF SessionStep
<1>2. ASSUME NEW f \in Addresses, NEW to \in Addresses, PostMessage(f, to) PROVE SmtpInvariant'
  BY <1>2, PostMessageStep
<1>3. CASE UNCHANGED vars
  BY <1>3 DEF vars, sessionVars, SmtpInvariant, TypeOK, SessionsIntact, SessionIntact,
              OwnTransactions, InTransaction, ListIntact, Body
<1> QED
  BY <1>1, <1>2, <1>3 DEF Next

(* The invariant holds throughout. *)
THEOREM SmtpIsInvariant == Spec => []SmtpInvariant
  BY InitSmtp, SmtpStep, PTL DEF Spec

(* Every variable of the server and its sessions keeps its type, for any
   number of them (server.go:27-60). *)
THEOREM Smtp_TypeCorrect == Spec => []TypeOK
<1>1. SmtpInvariant => TypeOK
  BY DEF SmtpInvariant
<1> QED
  BY <1>1, SmtpIsInvariant, PTL

(* A stored message has the sender and exactly the recipients of its own
   transaction, whatever was sent before on the connection (server.go:176). *)
THEOREM Smtp_EnvelopeIntact == Spec => []EnvelopeIntact
<1>1. SmtpInvariant => EnvelopeIntact
  BY DEF SmtpInvariant, TypeOK, ListIntact, Body, EnvelopeIntact
<1> QED
  BY <1>1, SmtpIsInvariant, PTL

(* The messages in the list are those that were acknowledged, each of them
   once (server.go:147). *)
THEOREM Smtp_AcceptedIsStored == Spec => []AcceptedIsStored
<1>1. SmtpInvariant => AcceptedIsStored
  <2> SUFFICES ASSUME SmtpInvariant PROVE AcceptedIsStored
    OBVIOUS
  <2>1. DOMAIN receivedMessages = 1 .. Len(receivedMessages)
    BY DEF SmtpInvariant, TypeOK
  <2> DEFINE Bs == {receivedMessages[i].payload.body : i \in DOMAIN receivedMessages}
  <2>2. Bs \subseteq accepted
    BY <2>1 DEF SmtpInvariant, ListIntact, Body
  <2>3. accepted \subseteq Bs
    BY <2>1 DEF SmtpInvariant, ListIntact, Body
  <2> QED
    BY <2>1, <2>2, <2>3 DEF SmtpInvariant, ListIntact, Body, AcceptedIsStored
<1> QED
  BY <1>1, SmtpIsInvariant, PTL

(* A step adds an entry to the log, or leaves it. *)
LEMMA LogStep == SmtpInvariant /\ [Next]_vars => [Log!LogNext]_receivedMessages
<1> SUFFICES ASSUME SmtpInvariant, [Next]_vars PROVE [Log!LogNext]_receivedMessages
  OBVIOUS
<1>1. ASSUME NEW f \in Addresses, NEW to \in Recipients, NEW n \in 1 .. MaxMessages,
             receivedMessages' = Append(receivedMessages,
               Message(Len(receivedMessages), Payload(f, to, n)))
      PROVE  Log!LogNext
  <2>1. Payload(f, to, n) \in PayloadType
    BY DEF Payload, PayloadType, Bodies
  <2> QED
    BY <1>1, <2>1 DEF Log!LogNext, Log!Add, Log!Entry, Message
<1>2. ASSUME NEW s \in Sessions, DataAppend(s) PROVE Log!LogNext
  <2>1. from[s] \in Addresses /\ tx[s] \in 1 .. MaxMessages /\ rcptTo[s] \in Recipients
    BY <1>2 DEF DataAppend, SmtpInvariant, SessionsIntact, SessionIntact, InTransaction, TypeOK
  <2> QED
    BY <1>1, <1>2, <2>1 DEF DataAppend
<1>3. ASSUME NEW s \in Sessions, NEW a \in Addresses, Mail(s, a) \/ Rcpt(s, a)
      PROVE  UNCHANGED receivedMessages
  BY <1>3 DEF Mail, Rcpt
<1>4. ASSUME NEW s \in Sessions, DataRead(s) \/ DataParseError(s) \/ Reset(s)
      PROVE  UNCHANGED receivedMessages
  BY <1>4 DEF DataRead, DataParseError, Reset
<1>5. ASSUME NEW f \in Addresses, NEW a \in Addresses, PostMessage(f, a) PROVE Log!LogNext
  <2>1. <<a>> \in Recipients /\ begun + 1 \in 1 .. MaxMessages
    BY <1>5, SmtpAssumption, RecipientsGrow DEF PostMessage, SmtpInvariant, TypeOK
  <2> QED
    BY <1>1, <1>5, <2>1 DEF PostMessage, AppendMessage
<1>6. CASE UNCHANGED vars
  BY <1>6 DEF vars
<1> QED
  BY <1>2, <1>3, <1>4, <1>5, <1>6 DEF Next, SessionStep

(* Sessions and HTTP posts together implement one append-only list in which
   every message carries its own position (server.go:71, 139): a step adds one
   message, or leaves the list as it is. *)
THEOREM Smtp_ImplementsLog == Spec => ImplementsLog
<1>1. Init => Log!LogInit
  BY DEF Init, Log!LogInit
<1> QED
  BY <1>1, LogStep, SmtpIsInvariant, PTL DEF Spec, ImplementsLog, Log!LogSpec

(***************************************************************************)
(* Recursion                                                               *)
(***************************************************************************)

(* What is true of 0, and of each number if it is of the one before, is true
   of all. *)
LEMMA Inductive ==
  ASSUME NEW T \in SUBSET Nat, 0 \in T, \A n \in T : n + 1 \in T
  PROVE  T = Nat
<1> SUFFICES ASSUME T # Nat PROVE FALSE
  OBVIOUS
<1> DEFINE R == OpToRel(<, Nat)
           U == Nat \ T
<1>1. IsWellFoundedOn(R, Nat)
  BY NatLessThanWellFounded
<1>2. \A m, n \in Nat : m < n => <<m, n>> \in R
  BY DEF OpToRel
<1> HIDE DEF R
<1>3. U \in SUBSET Nat /\ U # {}
  OBVIOUS
<1>4. PICK n \in U : \A m \in U : ~ (<<m, n>> \in R)
  BY <1>1, <1>3, WFMin
<1>5. n # 0 /\ n \in Nat /\ n - 1 \in Nat /\ n - 1 < n /\ (n - 1) + 1 = n
  BY <1>4
<1>6. n - 1 \in T
  BY <1>2, <1>4, <1>5
<1> QED
  BY <1>4, <1>5, <1>6

(* f fulfils a recursive definition, B, for everything of D below n in H. *)
Fulfils(f, n, D, V, H, B) == f \in [D -> V] /\ \A x \in D : H[x] < n => f[x] = B[f][x]

(* B looks only at what is lower. *)
LooksDown(D, V, H, B) ==
  \A f, g \in [D -> V], x \in D : (\A y \in D : H[y] < H[x] => f[y] = g[y]) => B[f][x] = B[g][x]

(* Two solutions of a recursion agree wherever both are defined, by induction
   over the rank. *)
LEMMA SolutionsAgree ==
  ASSUME NEW D, NEW V, NEW H \in [D -> Nat], NEW B, LooksDown(D, V, H, B),
         NEW n \in Nat, NEW f, NEW g, Fulfils(f, n, D, V, H, B), Fulfils(g, n, D, V, H, B)
  PROVE  \A x \in D : H[x] < n => f[x] = g[x]
<1> DEFINE T == {m \in Nat : \A x \in D : H[x] < m /\ H[x] < n => f[x] = g[x]}
<1>1. 0 \in T
  <2>1. \A x \in D : ~ (H[x] < 0)
    <3> TAKE x \in D
    <3>1. H[x] \in Nat
      OBVIOUS
    <3> QED
      BY <3>1
  <2> QED
    BY <2>1
<1>2. ASSUME NEW m \in T PROVE m + 1 \in T
  <2>1. \A x \in D : H[x] < m /\ H[x] < n => f[x] = g[x]
    OBVIOUS
  <2>2. ASSUME NEW x \in D, H[x] < m + 1, H[x] < n PROVE f[x] = g[x]
    <3>1. H[x] \in Nat /\ m \in Nat
      OBVIOUS
    <3>2. ASSUME NEW y \in D, H[y] < H[x] PROVE f[y] = g[y]
      <4>1. H[y] \in Nat
        OBVIOUS
      <4>2. H[y] < m /\ H[y] < n
        BY <2>2, <3>1, <3>2, <4>1
      <4> QED
        BY <2>1, <4>2
    <3>3. f \in [D -> V] /\ g \in [D -> V] /\ f[x] = B[f][x] /\ g[x] = B[g][x]
      BY <2>2 DEF Fulfils
    <3>4. B[f][x] = B[g][x]
      BY <3>2, <3>3 DEF LooksDown
    <3> QED
      BY <3>3, <3>4
  <2>3. m + 1 \in Nat
    OBVIOUS
  <2> QED
    BY <2>2, <2>3
<1>3. T = Nat
  <2>1. T \in SUBSET Nat
    OBVIOUS
  <2> HIDE DEF T
  <2>2. \A k \in Nat : k \in T
    BY <1>1, <1>2, <2>1, Inductive
  <2> QED
    BY <2>1, <2>2
<1>4. ASSUME NEW x \in D, H[x] < n PROVE f[x] = g[x]
  <2>1. H[x] + 1 \in T /\ H[x] < H[x] + 1
    <3>1. H[x] \in Nat
      OBVIOUS
    <3> HIDE DEF T
    <3> QED
      BY <1>3, <3>1
  <2> QED
    BY <1>4, <2>1
<1> QED
  BY <1>4

(* Up to every rank there is a solution. *)
LEMMA SolvedUpTo ==
  ASSUME NEW D, NEW V, NEW some \in V, NEW H \in [D -> Nat], NEW B \in [[D -> V] -> [D -> V]],
         LooksDown(D, V, H, B), NEW n \in Nat
  PROVE  \E f : Fulfils(f, n, D, V, H, B)
<1> DEFINE T == {m \in Nat : \E f : Fulfils(f, m, D, V, H, B)}
<1>1. 0 \in T
  <2> DEFINE f0 == [x \in D |-> some]
  <2>1. f0 \in [D -> V] /\ \A x \in D : ~ (H[x] < 0)
    <3>1. \A x \in D : H[x] \in Nat
      OBVIOUS
    <3> QED
      BY <3>1
  <2>2. Fulfils(f0, 0, D, V, H, B)
    BY <2>1 DEF Fulfils
  <2> QED
    BY <2>2
<1>2. ASSUME NEW m \in T PROVE m + 1 \in T
  <2>1. PICK f : Fulfils(f, m, D, V, H, B)
    OBVIOUS
  <2>2. f \in [D -> V] /\ B[f] \in [D -> V] /\ m \in Nat
    BY <2>1 DEF Fulfils
  <2>3. B[f] = [x \in D |-> B[f][x]] /\ \A x \in D : B[f][x] \in V
    BY <2>2
  <2> DEFINE g == B[f]
  <2>4. ASSUME NEW x \in D, H[x] < m + 1 PROVE g[x] = B[g][x]
    <3>1. ASSUME NEW y \in D, H[y] < H[x] PROVE f[y] = g[y]
      <4>1. H[y] \in Nat /\ H[x] \in Nat
        OBVIOUS
      <4>2. H[y] < m
        BY <2>2, <2>4, <3>1, <4>1
      <4> QED
        BY <2>1, <4>2 DEF Fulfils
    <3>2. g \in [D -> V]
      BY <2>2
    <3> HIDE DEF g
    <3>3. B[f][x] = B[g][x]
      BY <2>2, <3>1, <3>2 DEF LooksDown
    <3> QED
      BY <3>3 DEF g
  <2>5. Fulfils(g, m + 1, D, V, H, B)
    BY <2>2, <2>4 DEF Fulfils
  <2> QED
    BY <2>2, <2>5
<1>3. n \in T
  <2>1. T \in SUBSET Nat
    OBVIOUS
  <2> HIDE DEF T
  <2> QED
    BY <1>1, <1>2, <2>1, Inductive
<1> QED
  BY <1>3

(* B is the body of a definition by recursion that goes down in H. *)
Recursive(D, V, H, B) ==
  V # {} /\ H \in [D -> Nat] /\ B \in [[D -> V] -> [D -> V]] /\ LooksDown(D, V, H, B)

Solution(h, D, V, B) == h \in [D -> V] /\ h = B[h]

(* A recursion that goes down in rank has a solution. *)
LEMMA Recursion ==
  ASSUME NEW D, NEW V, NEW H, NEW B, Recursive(D, V, H, B)
  PROVE  \E h : Solution(h, D, V, B)
<1>0. /\ H \in [D -> Nat] /\ B \in [[D -> V] -> [D -> V]] /\ LooksDown(D, V, H, B)
      /\ \E some : some \in V
  BY DEF Recursive
<1>a. PICK some : some \in V
  BY <1>0
<1> DEFINE Upto(n) == CHOOSE f : Fulfils(f, n, D, V, H, B)
<1>1. ASSUME NEW n \in Nat PROVE Fulfils(Upto(n), n, D, V, H, B)
  <2>1. \E f : Fulfils(f, n, D, V, H, B)
    BY <1>0, <1>a, SolvedUpTo
  <2> QED
    BY <2>1
<1> DEFINE h == [x \in D |-> Upto(H[x] + 1)[x]]
<1> HIDE DEF Upto
<1>2. ASSUME NEW x \in D
      PROVE  /\ H[x] \in Nat /\ H[x] + 1 \in Nat /\ H[x] < H[x] + 1
             /\ Upto(H[x] + 1) \in [D -> V]
             /\ Upto(H[x] + 1)[x] = B[Upto(H[x] + 1)][x]
  <2>1. H[x] \in Nat
    BY <1>0
  <2>2. H[x] + 1 \in Nat /\ H[x] < H[x] + 1
    BY <2>1
  <2>3. Fulfils(Upto(H[x] + 1), H[x] + 1, D, V, H, B)
    BY <1>1, <2>2
  <2> QED
    BY <2>1, <2>2, <2>3 DEF Fulfils
<1>3. h \in [D -> V]
  BY <1>2
<1>4. ASSUME NEW x \in D PROVE h[x] = B[h][x]
  <2> DEFINE n == H[x] + 1
             f == Upto(n)
  <2>1. ASSUME NEW y \in D, H[y] < H[x] PROVE f[y] = h[y]
    <3>1. H[x] \in Nat /\ H[y] \in Nat /\ n \in Nat
      BY <1>2
    <3> DEFINE m == H[y] + 1
               g == Upto(m)
    <3>2. m \in Nat /\ H[y] < m
      BY <3>1
    <3>3. Fulfils(g, m, D, V, H, B) /\ Fulfils(f, n, D, V, H, B)
      BY <1>1, <3>1, <3>2
    <3>4. m <= n
      BY <2>1, <3>1
    <3>5. h[y] = g[y]
      OBVIOUS
    <3> HIDE DEF h, f, g, n, m
    <3>6. Fulfils(f, m, D, V, H, B)
      <4>1. \A z \in D : H[z] < m => H[z] < n
        <5>1. \A z \in D : H[z] \in Nat
          BY <1>0
        <5> QED
          BY <3>1, <3>2, <3>4, <5>1
      <4> QED
        BY <3>3, <4>1 DEF Fulfils
    <3>7. f[y] = g[y]
      BY <1>0, <3>2, <3>3, <3>6, SolutionsAgree
    <3> QED
      BY <3>5, <3>7
  <2>2. f \in [D -> V] /\ f[x] = B[f][x] /\ h[x] = f[x]
    BY <1>2
  <2> HIDE DEF h, f
  <2>3. B[f][x] = B[h][x]
    BY <1>0, <1>3, <2>1, <2>2 DEF LooksDown
  <2> QED
    BY <2>2, <2>3
<1>5. B[h] \in [D -> V]
  BY <1>0, <1>3
<1>6. h = B[h]
  <2> HIDE DEF h
  <2> QED
    BY <1>3, <1>4, <1>5
<1> HIDE DEF h
<1> QED
  BY <1>3, <1>6 DEF Solution

(***************************************************************************)
(* Contents and their parts                                                *)
(***************************************************************************)

(* The parts of a content, by their index. *)
LEMMA PartsAre ==
  ASSUME NEW c \in Contents
  PROVE  /\ c.parts \in Seq(Contents)
         /\ IsMultipart(c) => \A i \in 1 .. Len(c.parts) :
              /\ Multiparts(c)[i] = [index |-> i - 1, content |-> c.parts[i]]
              /\ Multiparts(c)[i] \in ToSet(Multiparts(c))
         /\ \A part \in ToSet(Multiparts(c)) :
              /\ IsMultipart(c) /\ part.index \in Int /\ part.content \in Contents
              /\ Depth[part.content] < Depth[c]
              /\ \E i \in 1 .. Len(c.parts) :
                   part = [index |-> i - 1, content |-> c.parts[i]] /\ Multiparts(c)[i] = part
<1>1. /\ c.parts \in Seq(Contents)
      /\ \A i \in DOMAIN c.parts : Depth[c.parts[i]] < Depth[c]
  BY MailsAssumption
<1>2. DOMAIN c.parts = 1 .. Len(c.parts) /\ \A i \in 1 .. Len(c.parts) : c.parts[i] \in Contents
  BY <1>1
<1>3. CASE IsMultipart(c)
  <2>1. Multiparts(c) = [i \in 1 .. Len(c.parts) |-> [index |-> i - 1, content |-> c.parts[i]]]
    BY <1>2, <1>3 DEF Multiparts, newReceivedPart
  <2>2. ToSet(Multiparts(c)) = {Multiparts(c)[i] : i \in 1 .. Len(c.parts)}
    BY <2>1 DEF ToSet
  <2>3. \A i \in 1 .. Len(c.parts) : Multiparts(c)[i] = [index |-> i - 1, content |-> c.parts[i]]
    BY <2>1
  <2>4. ASSUME NEW part \in ToSet(Multiparts(c))
        PROVE  /\ part.index \in Int /\ part.content \in Contents
               /\ Depth[part.content] < Depth[c]
               /\ \E i \in 1 .. Len(c.parts) :
                    part = [index |-> i - 1, content |-> c.parts[i]] /\ Multiparts(c)[i] = part
    <3>1. PICK i \in 1 .. Len(c.parts) : part = Multiparts(c)[i]
      BY <2>2
    <3>2. part = [index |-> i - 1, content |-> c.parts[i]]
      BY <2>3, <3>1
    <3>3. part.index = i - 1 /\ part.content = c.parts[i]
      BY <3>2
    <3>4. i - 1 \in Int
      OBVIOUS
    <3>5. c.parts[i] \in Contents /\ Depth[c.parts[i]] < Depth[c]
      BY <1>1, <1>2
    <3> QED
      BY <3>1, <3>2, <3>3, <3>4, <3>5
  <2> QED
    BY <1>1, <1>3, <2>2, <2>3, <2>4
<1>4. CASE ~IsMultipart(c)
  <2>1. Multiparts(c) = << >>
    BY <1>4 DEF Multiparts
  <2>2. ToSet(Multiparts(c)) = {}
    BY <2>1 DEF ToSet
  <2> QED
    BY <1>1, <1>4, <2>2
<1> QED
  BY <1>3, <1>4

(* What is true of a content if it is of its parts is true of all contents. *)
LEMMA OverContents ==
  ASSUME NEW S,
         \A c \in Contents : (\A part \in ToSet(Multiparts(c)) : part.content \in S) => c \in S
  PROVE  Contents \subseteq S
<1> DEFINE T == {n \in Nat : \A c \in Contents : Depth[c] < n => c \in S}
<1>0. \A c \in Contents : Depth[c] \in Nat
  BY MailsAssumption
<1>1. 0 \in T
  BY <1>0
<1>2. ASSUME NEW n \in T PROVE n + 1 \in T
  <2>1. ASSUME NEW c \in Contents, Depth[c] < n + 1 PROVE c \in S
    <3>1. ASSUME NEW part \in ToSet(Multiparts(c)) PROVE part.content \in S
      <4>1. part.content \in Contents /\ Depth[part.content] < Depth[c]
        BY PartsAre
      <4>2. Depth[part.content] \in Nat /\ Depth[c] \in Nat /\ n \in Nat
        BY <1>0, <4>1
      <4>3. Depth[part.content] < n
        BY <2>1, <4>1, <4>2
      <4> QED
        BY <4>1, <4>3
    <3> QED
      BY <3>1
  <2> QED
    BY <2>1
<1>3. T = Nat
  <2>1. T \in SUBSET Nat
    OBVIOUS
  <2> HIDE DEF T
  <2> QED
    BY <1>1, <1>2, <2>1, Inductive
<1>4. ASSUME NEW c \in Contents PROVE c \in S
  <2>1. Depth[c] + 1 \in T /\ Depth[c] < Depth[c] + 1
    <3> HIDE DEF T
    <3> QED
      BY <1>0, <1>3
  <2> QED
    BY <2>1
<1> QED
  BY <1>4

(* Contents with the paths to them. *)
Shown == Seq(Steps) \X Contents

(* Seen from one step above, they are that as well. *)
LEMMA BelowType ==
  ASSUME NEW step \in Steps, NEW S \in SUBSET Shown
  PROVE  Below(step, S) \in SUBSET Shown
<1> SUFFICES ASSUME NEW s \in S PROVE << <<step>> \o s[1], s[2]>> \in Shown
  BY DEF Below
<1>1. s[1] \in Seq(Steps) /\ s[2] \in Contents
  BY DEF Shown
<1>2. <<step>> \in Seq(Steps)
  OBVIOUS
<1>3. <<step>> \o s[1] \in Seq(Steps)
  BY <1>1, <1>2
<1> QED
  BY <1>1, <1>3 DEF Shown

(* Words and numbers are steps. *)
LEMMA StepsAre ==
  /\ Word("multipart") \in Steps /\ ~IsIdx(Word("multipart"))
  /\ \A n \in Int : Idx(n) \in Steps /\ IsIdx(Idx(n)) /\ Idx(n)[2] = n
  /\ \A step \in Steps : IsIdx(step) => step[2] \in Int /\ step = Idx(step[2])
<1>1. "word" # "idx"
  OBVIOUS
<1>2. Word("multipart") \in {"word"} \X Words /\ ~IsIdx(Word("multipart"))
  BY <1>1 DEF Word, Words, IsIdx
<1>3. \A n \in Int : Idx(n) \in {"idx"} \X Int /\ IsIdx(Idx(n)) /\ Idx(n)[2] = n
  BY DEF Idx, IsIdx
<1>4. ASSUME NEW step \in Steps, IsIdx(step) PROVE step[2] \in Int /\ step = Idx(step[2])
  <2>1. step \notin {"word"} \X Words
    BY <1>1, <1>4 DEF IsIdx
  <2>2. step \in {"idx"} \X Int
    BY <2>1 DEF Steps
  <2> QED
    BY <2>2 DEF Idx
<1> QED
  BY <1>2, <1>3, <1>4 DEF Steps

(* What is told of a part is contents with the paths to them. *)
LEMMA PartMetaType ==
  ASSUME NEW meta, NEW c \in Contents, NEW part \in ToSet(Multiparts(c)),
         meta[part.content] \in SUBSET Shown
  PROVE  buildMultipartMeta(meta, part) \in SUBSET Shown
<1>1. part.index \in Int /\ part.content \in Contents
  BY PartsAre
<1>2. Idx(part.index) \in Steps
  BY <1>1, StepsAre
<1>3. << << >>, part.content>> \in Shown
  BY <1>1, EmptySeq DEF Shown
<1>4. {<< << >>, part.content>>} \cup meta[part.content] \in SUBSET Shown
  BY <1>1, <1>3
<1> QED
  BY <1>2, <1>4, BelowType DEF buildMultipartMeta

(* What a description says of a content, given what it says of the parts. *)
MetaOf(meta, c) ==
  Below(Word("multipart"), UNION {buildMultipartMeta(meta, part) : part \in ToSet(Multiparts(c))})

(* It consists of contents with the paths to them, if it does so for the parts. *)
LEMMA MetaOfType ==
  ASSUME NEW meta, NEW c \in Contents,
         \A part \in ToSet(Multiparts(c)) : meta[part.content] \in SUBSET Shown
  PROVE  MetaOf(meta, c) \in SUBSET Shown
<1> DEFINE U == UNION {buildMultipartMeta(meta, part) : part \in ToSet(Multiparts(c))}
<1>1. U \in SUBSET Shown
  BY PartMetaType
<1>2. Word("multipart") \in Steps
  BY StepsAre
<1> HIDE DEF U
<1>3. Below(Word("multipart"), U) \in SUBSET Shown
  BY <1>1, <1>2, BelowType
<1> QED
  BY <1>3 DEF MetaOf, U

(* A description is what its definition says, as parts are nested finitely deep. *)
LEMMA MetaIs ==
  /\ buildContentMeta \in [Contents -> SUBSET Shown]
  /\ \A c \in Contents : buildContentMeta[c] = MetaOf(buildContentMeta, c)
<1> DEFINE D == Contents
           V == SUBSET Shown
           B == [f \in [D -> V] |-> [c \in D |-> MetaOf(f, c)]]
           IsIt(f) == f = [c \in D |-> MetaOf(f, c)]
<1>1. B \in [[D -> V] -> [D -> V]]
  BY PartsAre, MetaOfType
<1>2. LooksDown(D, V, Depth, B)
  <2> SUFFICES ASSUME NEW f \in [D -> V], NEW g \in [D -> V], NEW c \in D,
                      \A d \in D : Depth[d] < Depth[c] => f[d] = g[d]
               PROVE  B[f][c] = B[g][c]
    BY DEF LooksDown
  <2>1. \A part \in ToSet(Multiparts(c)) : buildMultipartMeta(f, part) = buildMultipartMeta(g, part)
    BY PartsAre DEF buildMultipartMeta
  <2>2. MetaOf(f, c) = MetaOf(g, c)
    BY <2>1 DEF MetaOf
  <2> QED
    BY <2>2
<1>3. V # {} /\ Depth \in [D -> Nat]
  BY MailsAssumption
<1> HIDE DEF D, V, B, IsIt
<1>4. PICK h : Solution(h, D, V, B)
  <2>1. Recursive(D, V, Depth, B)
    BY <1>1, <1>2, <1>3 DEF Recursive
  <2> QED
    BY <2>1, Recursion
<1>5. IsIt(h)
  BY <1>4 DEF Solution, IsIt, B
<1>6. buildContentMeta = CHOOSE f : IsIt(f)
  BY DEF buildContentMeta, IsIt, MetaOf, D
<1>7. IsIt(buildContentMeta)
  BY <1>5, <1>6
<1>8. buildContentMeta = [c \in D |-> MetaOf(buildContentMeta, c)]
  BY <1>7 DEF IsIt
<1>9. \A c \in Contents : buildContentMeta[c] = MetaOf(buildContentMeta, c)
  <2> DEFINE value(c) == MetaOf(buildContentMeta, c)
  <2>1. buildContentMeta = [c \in D |-> value(c)]
    BY <1>8
  <2> HIDE DEF value
  <2>2. \A c \in D : buildContentMeta[c] = value(c)
    BY <2>1
  <2> QED
    BY <2>2 DEF D, value
<1> DEFINE S == {c \in Contents : buildContentMeta[c] \in SUBSET Shown}
<1>10. \A c \in Contents : (\A part \in ToSet(Multiparts(c)) : part.content \in S) => c \in S
  BY <1>9, MetaOfType
<1>11. Contents \subseteq S
  <2> HIDE DEF S
  <2> QED
    BY <1>10, OverContents
<1>12. buildContentMeta = [c \in Contents |-> buildContentMeta[c]]
  BY <1>8 DEF D
<1> QED
  BY <1>9, <1>11, <1>12

(***************************************************************************)
(* Answers                                                                 *)
(***************************************************************************)

Statuses == {"200", "400", "404", "405", "panic"}
AnswerType == [status : Statuses, shows : SUBSET Shown]

(* What answers are made of. *)
LEMMA AnswersAre ==
  /\ \A status \in Statuses :
       Fails(status) \in AnswerType /\ Fails(status).status = status /\ Fails(status).shows = {}
  /\ \A S \in SUBSET Shown :
       Shows(S) \in AnswerType /\ Shows(S).status = "200" /\ Shows(S).shows = S
  /\ \A step \in Steps, a \in AnswerType :
       /\ Under(step, a) \in AnswerType
       /\ Under(step, a).status = a.status /\ Under(step, a).shows = Below(step, a.shows)
<1>1. ASSUME NEW status \in Statuses
      PROVE  Fails(status) \in AnswerType /\ Fails(status).status = status /\ Fails(status).shows = {}
  BY DEF Fails, AnswerType
<1>2. ASSUME NEW S \in SUBSET Shown
      PROVE  Shows(S) \in AnswerType /\ Shows(S).status = "200" /\ Shows(S).shows = S
  BY DEF Shows, AnswerType, Statuses
<1>3. ASSUME NEW step \in Steps, NEW a \in AnswerType
      PROVE  /\ Under(step, a) \in AnswerType
             /\ Under(step, a).status = a.status /\ Under(step, a).shows = Below(step, a.shows)
  <2>1. a = [status |-> a.status, shows |-> a.shows] /\ a.status \in Statuses /\ a.shows \in SUBSET Shown
    BY DEF AnswerType
  <2>2. Below(step, a.shows) \in SUBSET Shown
    BY <2>1, BelowType
  <2>3. Under(step, a) = [status |-> a.status, shows |-> Below(step, a.shows)]
    BY <2>1 DEF Under
  <2> QED
    BY <2>1, <2>2, <2>3 DEF AnswerType
<1> QED
  BY <1>1, <1>2, <1>3

(* Two steps and what follows them, put together and taken apart. *)
LEMMA TwoSteps ==
  ASSUME NEW a \in Steps, NEW b \in Steps, NEW p \in Seq(Steps)
  PROVE  /\ <<a>> \o (<<b>> \o p) = <<a, b>> \o p
         /\ <<a, b>> \o p \in Paths /\ Len(<<a, b>> \o p) = Len(p) + 2
         /\ Head(<<a, b>> \o p) = a /\ (<<a, b>> \o p)[2] = b
         /\ SubSeq(<<a, b>> \o p, 3, Len(p) + 2) = p
<1> DEFINE q == <<a, b>> \o p
<1>1. /\ <<a>> \in Seq(Steps) /\ <<b>> \in Seq(Steps) /\ <<a, b>> \in Seq(Steps)
      /\ Len(<<a>>) = 1 /\ Len(<<b>>) = 1 /\ Len(<<a, b>>) = 2 /\ Len(p) \in Nat
  OBVIOUS
<1>2. /\ q \in Seq(Steps) /\ Len(q) = Len(p) + 2
      /\ q[1] = a /\ q[2] = b /\ \A i \in 1 .. Len(p) : q[i + 2] = p[i]
  BY <1>1, ConcatProperties
<1>3. <<a>> \o (<<b>> \o p) = q
  <2>1. (<<a>> \o <<b>>) \o p = <<a>> \o (<<b>> \o p)
    BY <1>1, ConcatAssociative
  <2>2. <<a>> \o <<b>> = <<a, b>>
    <3> DEFINE ab == <<a>> \o <<b>>
    <3>1. ab \in Seq(Steps) /\ Len(ab) = 2 /\ ab[1] = a /\ ab[2] = b
      BY <1>1, ConcatProperties
    <3> HIDE DEF ab
    <3>2. \A i \in 1 .. 2 : ab[i] = <<a, b>>[i]
      BY <3>1
    <3> QED
      BY <1>1, <3>1, <3>2, SeqEqual DEF ab
  <2> QED
    BY <2>1, <2>2
<1> HIDE DEF q
<1>4. Head(q) = q[1] /\ q # << >>
  BY <1>1, <1>2
<1>5. SubSeq(q, 3, Len(q)) = p
  <2>1. /\ SubSeq(q, 3, Len(q)) \in Seq(Steps) /\ Len(SubSeq(q, 3, Len(q))) = Len(p)
        /\ \A i \in 1 .. Len(p) : SubSeq(q, 3, Len(q))[i] = q[3 + i - 1]
    BY <1>1, <1>2, SubSeqProperties
  <2>2. \A i \in 1 .. Len(p) : 3 + i - 1 = i + 2
    BY <1>1
  <2>3. \A i \in 1 .. Len(p) : SubSeq(q, 3, Len(q))[i] = p[i]
    BY <1>2, <2>1, <2>2
  <2> QED
    BY <1>1, <2>1, <2>3, SeqEqual
<1> QED
  BY <1>2, <1>3, <1>4, <1>5 DEF q, Paths

(* What is left of a path after a step to a part. *)
LEMMA RestIs ==
  ASSUME NEW path \in Paths
  PROVE  /\ Len(path) \in Nat \ {0} /\ Head(path) = path[1] /\ path[1] \in Steps
         /\ Len(path) # 1 => path[2] \in Steps /\ 2 \in 1 .. Len(path)
         /\ Len(path) # 1 /\ Len(path) # 2 =>
              /\ SubSeq(path, 3, Len(path)) \in Paths
              /\ \A i \in 1 .. Len(SubSeq(path, 3, Len(path))) :
                   i + 2 \in 1 .. Len(path) /\ SubSeq(path, 3, Len(path))[i] = path[i + 2]
<1>1. path \in Seq(Steps) /\ path # << >>
  BY DEF Paths
<1>2. /\ Len(path) \in Nat \ {0} /\ Head(path) = path[1]
      /\ \A i \in 1 .. Len(path) : path[i] \in Steps
  BY <1>1
<1> DEFINE n == Len(path)
<1>5. n \in Int /\ n >= 1 /\ (n # 1 => n >= 2) /\ (n # 1 /\ n # 2 => n >= 3)
  <2>1. n \in Nat /\ n # 0
    BY <1>2
  <2> HIDE DEF n
  <2> QED
    BY <2>1
<1>3. ASSUME Len(path) # 1, Len(path) # 2
      PROVE  /\ SubSeq(path, 3, Len(path)) \in Paths
             /\ \A i \in 1 .. Len(SubSeq(path, 3, Len(path))) :
                  i + 2 \in 1 .. Len(path) /\ SubSeq(path, 3, Len(path))[i] = path[i + 2]
  <2> DEFINE rest == SubSeq(path, 3, Len(path))
  <2>1. /\ rest \in Seq(Steps) /\ Len(rest) = Len(path) - 2
        /\ \A i \in 1 .. Len(path) - 2 : rest[i] = path[3 + i - 1]
    <3>1. 3 \in Int /\ n \in Int /\ 3 <= n /\ n - 3 + 1 = n - 2
      BY <1>3, <1>5
    <3>2. \A i \in 3 .. Len(path) : path[i] \in Steps
      BY <1>2
    <3> QED
      BY <3>1, <3>2, SubSeqProperties
  <2> HIDE DEF rest
  <2>2. rest # << >>
    BY <1>2, <1>3, <2>1
  <2>3. \A i \in 1 .. Len(path) - 2 : 3 + i - 1 = i + 2 /\ i + 2 \in 1 .. Len(path)
    BY <1>2
  <2> QED
    BY <2>1, <2>2, <2>3 DEF Paths, rest
<1>4. path[1] \in Steps /\ (Len(path) # 1 => path[2] \in Steps /\ 2 \in 1 .. Len(path))
  <2>1. 1 \in 1 .. n /\ (n # 1 => 2 \in 1 .. n)
    BY <1>5
  <2> QED
    BY <1>2, <2>1
<1> QED
  BY <1>2, <1>3, <1>4

(* The part that an index leads to has this index. *)
LEMMA PartAt ==
  ASSUME NEW c \in Contents, IsMultipart(c), NEW path \in Paths, Len(path) # 1, IsIdx(path[2]),
         ~ (path[2][2] >= Len(c.parts)), ~ (path[2][2] < 0)
  PROVE  LET part == Multiparts(c)[path[2][2] + 1] IN
         /\ part \in ToSet(Multiparts(c)) /\ path[2] = Idx(part.index) /\ path[2] \in Steps
         /\ part.index = path[2][2]
<1>1. path[2] \in Steps /\ path[2][2] \in Int /\ path[2] = Idx(path[2][2])
  BY RestIs, StepsAre
<1>2. c.parts \in Seq(Contents) /\ Len(c.parts) \in Nat
  BY PartsAre
<1> DEFINE i == path[2][2] + 1
<1>3. i \in 1 .. Len(c.parts) /\ i - 1 = path[2][2]
  BY <1>1, <1>2
<1> HIDE DEF i
<1>4. Multiparts(c)[i] = [index |-> i - 1, content |-> c.parts[i]] /\ Multiparts(c)[i] \in ToSet(Multiparts(c))
  BY <1>3, PartsAre
<1>5. Multiparts(c)[i].index = path[2][2]
  BY <1>3, <1>4
<1> QED
  BY <1>1, <1>4, <1>5 DEF i

(* The answers for a part. *)
LEMMA PartAnswerType ==
  ASSUME NEW onward, NEW c \in Contents, IsMultipart(c), NEW path \in Paths, Len(path) # 1,
         \A part \in ToSet(Multiparts(c)), p \in Paths : onward[<<part.content, p>>] \in AnswerType
  PROVE  PartEndpoint(onward, c, path) \in AnswerType
<1> DEFINE part == Multiparts(c)[path[2][2] + 1]
<1>1. CASE ~IsIdx(path[2]) \/ path[2][2] >= Len(c.parts) \/ path[2][2] < 0
  BY <1>1, AnswersAre DEF PartEndpoint, Statuses
<1>2. CASE IsIdx(path[2]) /\ ~ (path[2][2] >= Len(c.parts)) /\ ~ (path[2][2] < 0)
  <2>1. part \in ToSet(Multiparts(c)) /\ path[2] \in Steps
    BY <1>2, PartAt
  <2>2. CASE Len(path) = 2
    <3>1. buildContentMeta[part.content] \in SUBSET Shown
      BY <2>1, MetaIs, PartsAre
    <3>2. buildMultipartMeta(buildContentMeta, part) \in SUBSET Shown
      BY <2>1, <3>1, PartMetaType
    <3> QED
      BY <1>2, <2>2, <3>2, AnswersAre DEF PartEndpoint
  <2>3. CASE Len(path) # 2
    <3>1. SubSeq(path, 3, Len(path)) \in Paths
      BY <2>3, RestIs
    <3>2. onward[<<part.content, SubSeq(path, 3, Len(path))>>] \in AnswerType
      BY <2>1, <3>1
    <3> QED
      BY <1>2, <2>1, <2>3, <3>2, AnswersAre DEF PartEndpoint
  <2> QED
    BY <2>2, <2>3
<1> QED
  BY <1>1, <1>2

(* The parts that a search finds. *)
LEMMA MultipartIndexType ==
  ASSUME NEW c \in Contents, NEW search
  PROVE  /\ MultipartIndex(c, search) \in AnswerType
         /\ MultipartIndex(c, search).status # "panic"
         /\ MultipartIndex(c, search).shows \subseteq
              UNION {buildMultipartMeta(buildContentMeta, part) : part \in ToSet(Multiparts(c))}
<1> DEFINE hits == {p \in ToSet(Multiparts(c)) : allRegexesMatchAnyHeader(Headers(p.content), search)}
           U == UNION {buildMultipartMeta(buildContentMeta, p) : p \in hits}
           W == UNION {buildMultipartMeta(buildContentMeta, p) : p \in ToSet(Multiparts(c))}
<1>1. MultipartIndex(c, search) = IF search = BadSearch THEN Fails("400") ELSE Shows(U)
  BY DEF MultipartIndex
<1>2. U \subseteq W
  OBVIOUS
<1>3. W \in SUBSET Shown
  <2>1. \A part \in ToSet(Multiparts(c)) : buildContentMeta[part.content] \in SUBSET Shown
    BY PartsAre, MetaIs
  <2> QED
    BY <2>1, PartMetaType
<1> HIDE DEF U, W
<1>4. CASE search = BadSearch
  BY <1>1, <1>4, AnswersAre DEF Statuses, W
<1>5. CASE search # BadSearch
  BY <1>1, <1>2, <1>3, <1>5, AnswersAre DEF W
<1> QED
  BY <1>4, <1>5

(* The answers for a content, given those for its parts. *)
LEMMA AnswerHasType ==
  ASSUME NEW onward, NEW c \in Contents, NEW path \in Paths, NEW search,
         \A part \in ToSet(Multiparts(c)), p \in Paths : onward[<<part.content, p>>] \in AnswerType
  PROVE  ContentEndpoint(onward, c, path, search) \in AnswerType
<1>1. CASE path = <<Word("body")>>
  <2>1. {} \in SUBSET Shown
    OBVIOUS
  <2> QED
    BY <1>1, <2>1, AnswersAre DEF ContentEndpoint
<1>2. CASE path # <<Word("body")>> /\ (Head(path) # Word("multipart") \/ ~IsMultipart(c))
  BY <1>2, AnswersAre DEF ContentEndpoint, Statuses
<1>3. CASE path # <<Word("body")>> /\ Head(path) = Word("multipart") /\ IsMultipart(c)
  <2> DEFINE inner == IF Len(path) = 1 THEN MultipartIndex(c, search) ELSE PartEndpoint(onward, c, path)
  <2>1. inner \in AnswerType
    BY <1>3, MultipartIndexType, PartAnswerType
  <2>2. ContentEndpoint(onward, c, path, search) = Under(Word("multipart"), inner)
    BY <1>3 DEF ContentEndpoint
  <2> HIDE DEF inner
  <2> QED
    BY <2>1, <2>2, AnswersAre, StepsAre
<1> QED
  BY <1>1, <1>2, <1>3

(* Only the answers for the parts count. *)
LEMMA SameAnswers ==
  ASSUME NEW f, NEW g, NEW c \in Contents, NEW path \in Paths, NEW search,
         \A part \in ToSet(Multiparts(c)), p \in Paths : f[<<part.content, p>>] = g[<<part.content, p>>]
  PROVE  ContentEndpoint(f, c, path, search) = ContentEndpoint(g, c, path, search)
<1>1. ASSUME IsMultipart(c), Len(path) # 1 PROVE PartEndpoint(f, c, path) = PartEndpoint(g, c, path)
  <2>1. CASE ~IsIdx(path[2]) \/ path[2][2] >= Len(c.parts) \/ path[2][2] < 0 \/ Len(path) = 2
    BY <2>1 DEF PartEndpoint
  <2>2. CASE IsIdx(path[2]) /\ ~ (path[2][2] >= Len(c.parts)) /\ ~ (path[2][2] < 0) /\ Len(path) # 2
    <3> DEFINE part == Multiparts(c)[path[2][2] + 1]
    <3>1. part \in ToSet(Multiparts(c))
      BY <1>1, <2>2, PartAt
    <3>2. SubSeq(path, 3, Len(path)) \in Paths
      BY <1>1, <2>2, RestIs
    <3>3. f[<<part.content, SubSeq(path, 3, Len(path))>>] = g[<<part.content, SubSeq(path, 3, Len(path))>>]
      BY <3>1, <3>2
    <3> QED
      BY <2>2, <3>3 DEF PartEndpoint
  <2> QED
    BY <2>1, <2>2
<1> QED
  BY <1>1 DEF ContentEndpoint

(* The answers for contents follow from those for their parts. *)
IsRoute(route, search) ==
  /\ \A c \in Contents, path \in Paths :
       /\ route[<<c, path>>] = ContentEndpoint(route, c, path, search)
       /\ route[<<c, path>>] \in AnswerType
       /\ subrouteContentEndpoint(c, path, search) = route[<<c, path>>]

(* There is such a function, as parts are nested finitely deep: it is the
   recursive one. *)
LEMMA RouteIs == ASSUME NEW search PROVE \E route : IsRoute(route, search)
<1> DEFINE D == Contents \X Paths
           V == AnswerType
           H == [x \in D |-> Depth[x[1]]]
           value(f, x) == ContentEndpoint(f, x[1], x[2], search)
           B == [f \in [D -> V] |-> [x \in D |-> value(f, x)]]
           IsIt(f) == f = [x \in D |-> value(f, x)]
           route == CHOOSE f : IsIt(f)
<1>1. ASSUME NEW f \in [D -> V], NEW x \in D PROVE value(f, x) \in V
  <2>1. x[1] \in Contents /\ x[2] \in Paths
    OBVIOUS
  <2>2. \A part \in ToSet(Multiparts(x[1])), p \in Paths : <<part.content, p>> \in D
    BY <2>1, PartsAre
  <2>3. \A part \in ToSet(Multiparts(x[1])), p \in Paths : f[<<part.content, p>>] \in V
    BY <2>2
  <2> QED
    BY <2>1, <2>3, AnswerHasType
<1>2. B \in [[D -> V] -> [D -> V]]
  <2> HIDE DEF D, V, value
  <2> QED
    BY <1>1
<1>3. H \in [D -> Nat]
  BY MailsAssumption
<1>4. LooksDown(D, V, H, B)
  <2> SUFFICES ASSUME NEW f \in [D -> V], NEW g \in [D -> V], NEW x \in D,
                      \A y \in D : H[y] < H[x] => f[y] = g[y]
               PROVE  B[f][x] = B[g][x]
    BY DEF LooksDown
  <2>1. x[1] \in Contents /\ x[2] \in Paths
    OBVIOUS
  <2>2. \A part \in ToSet(Multiparts(x[1])), p \in Paths :
          <<part.content, p>> \in D /\ H[<<part.content, p>>] < H[x]
    BY <2>1, PartsAre
  <2>3. \A part \in ToSet(Multiparts(x[1])), p \in Paths : f[<<part.content, p>>] = g[<<part.content, p>>]
    <3> HIDE DEF D, H
    <3> QED
      BY <2>2
  <2>4. value(f, x) = value(g, x)
    BY <2>1, <2>3, SameAnswers
  <2> HIDE DEF D, V, H, value
  <2> QED
    BY <2>4
<1>5. PICK h : Solution(h, D, V, B)
  <2>1. V # {}
    BY AnswersAre DEF Statuses
  <2> HIDE DEF D, V, H, B
  <2>2. Recursive(D, V, H, B)
    BY <1>2, <1>3, <1>4, <2>1 DEF Recursive
  <2> QED
    BY <2>2, Recursion
<1>6. IsIt(h)
  <2>1. h \in [D -> V] /\ h = B[h]
    BY <1>5 DEF Solution
  <2> HIDE DEF D, V, value
  <2> QED
    BY <2>1
<1>7. \A c, path : subrouteContentEndpoint(c, path, search) = route[<<c, path>>]
  BY DEF subrouteContentEndpoint
<1>8. IsIt(route)
  <2> HIDE DEF IsIt
  <2> QED
    BY <1>6
<1>9. ASSUME NEW c \in Contents, NEW path \in Paths
      PROVE  route[<<c, path>>] = ContentEndpoint(route, c, path, search)
  <2>1. <<c, path>> \in D
    OBVIOUS
  <2>2. value(route, <<c, path>>) = ContentEndpoint(route, c, path, search)
    OBVIOUS
  <2> HIDE DEF D, value, route
  <2>3. route[<<c, path>>] = value(route, <<c, path>>)
    BY <1>8, <2>1
  <2> QED
    BY <2>2, <2>3
<1> DEFINE S == {c \in Contents : \A path \in Paths : route[<<c, path>>] \in AnswerType}
<1> HIDE DEF route
<1>10. ASSUME NEW c \in Contents, \A part \in ToSet(Multiparts(c)) : part.content \in S
       PROVE  c \in S
  <2>1. \A part \in ToSet(Multiparts(c)), p \in Paths : route[<<part.content, p>>] \in AnswerType
    BY <1>10
  <2>2. ASSUME NEW path \in Paths PROVE route[<<c, path>>] \in AnswerType
    BY <1>9, <2>1, AnswerHasType
  <2> QED
    BY <2>2
<1>11. Contents \subseteq S
  <2> HIDE DEF S
  <2> QED
    BY <1>10, OverContents
<1>12. IsRoute(route, search)
  <2> HIDE DEF D, V, value
  <2> QED
    BY <1>7, <1>9, <1>11 DEF IsRoute
<1> QED
  BY <1>12

(* s is a part of c, or what the description of one shows. *)
OfPart(c, s) ==
  \E part \in ToSet(Multiparts(c)) :
    \E t \in {<< << >>, part.content>>} \cup buildContentMeta[part.content] :
      s = << <<Word("multipart"), Idx(part.index)>> \o t[1], t[2]>>

(* A description shows each part, and what the description of the part shows. *)
LEMMA Described ==
  ASSUME NEW c \in Contents
  PROVE  \A s : s \in buildContentMeta[c] <=> OfPart(c, s)
<1> DEFINE Of(part) == {<< << >>, part.content>>} \cup buildContentMeta[part.content]
<1>1. \A part \in ToSet(Multiparts(c)) : Of(part) \in SUBSET Shown
  <2> SUFFICES ASSUME NEW part \in ToSet(Multiparts(c)) PROVE Of(part) \in SUBSET Shown
    OBVIOUS
  <2>1. part.content \in Contents
    BY PartsAre
  <2>2. << << >>, part.content>> \in Shown
    BY <2>1, EmptySeq DEF Shown
  <2> QED
    BY <2>1, <2>2, MetaIs
<1> DEFINE inner(part, t) == << <<Idx(part.index)>> \o t[1], t[2]>>
           outer(u) == << <<Word("multipart")>> \o u[1], u[2]>>
           both(part, t) == << <<Word("multipart"), Idx(part.index)>> \o t[1], t[2]>>
           U == UNION {buildMultipartMeta(buildContentMeta, part) : part \in ToSet(Multiparts(c))}
<1>2. ASSUME NEW part \in ToSet(Multiparts(c)), NEW t \in Of(part)
      PROVE  outer(inner(part, t)) = both(part, t)
  <2>1. part.index \in Int
    BY PartsAre
  <2>2. Word("multipart") \in Steps /\ Idx(part.index) \in Steps /\ t[1] \in Seq(Steps)
    <3>1. t \in Shown
      BY <1>1
    <3> QED
      BY <2>1, <3>1, StepsAre DEF Shown
  <2> QED
    BY <2>2, TwoSteps
<1>3. \A u : u \in U <=> \E part \in ToSet(Multiparts(c)) : \E t \in Of(part) : u = inner(part, t)
  <2>1. \A u : u \in U <=> \E part \in ToSet(Multiparts(c)) : u \in buildMultipartMeta(buildContentMeta, part)
    OBVIOUS
  <2>2. \A part, u : u \in buildMultipartMeta(buildContentMeta, part) <=> \E t \in Of(part) : u = inner(part, t)
    BY DEF buildMultipartMeta, Below
  <2> HIDE DEF U, Of, inner
  <2> QED
    BY <2>1, <2>2
<1>4. \A s : s \in buildContentMeta[c] <=> \E u \in U : s = outer(u)
  <2>1. buildContentMeta[c] = {outer(u) : u \in U}
    BY MetaIs DEF MetaOf, Below
  <2> HIDE DEF U, outer
  <2> QED
    BY <2>1
<1>5. \A s : s \in buildContentMeta[c] <=>
        \E part \in ToSet(Multiparts(c)) : \E t \in Of(part) : s = both(part, t)
  <2> HIDE DEF U, Of, inner, outer, both
  <2> QED
    BY <1>2, <1>3, <1>4
<1> QED
  BY <1>5 DEF OfPart

(* What is described can be looked up: the path to it leads to an answer that
   shows it. *)
LEMMA LeadsThere ==
  ASSUME NEW search, NEW c \in Contents, NEW s \in buildContentMeta[c]
  PROVE  /\ s[1] \in Paths /\ Len(s[1]) # 1
         /\ s \in subrouteContentEndpoint(c, s[1], search).shows
<1>1. PICK route : IsRoute(route, search)
  BY RouteIs
<1> DEFINE S == {d \in Contents : \A t \in buildContentMeta[d] :
                   t[1] \in Paths /\ Len(t[1]) # 0 /\ Len(t[1]) # 1 /\ t \in route[<<d, t[1]>>].shows}
<1>2. ASSUME NEW d \in Contents, \A part \in ToSet(Multiparts(d)) : part.content \in S,
             NEW u \in buildContentMeta[d]
      PROVE  u[1] \in Paths /\ Len(u[1]) # 0 /\ Len(u[1]) # 1 /\ u \in route[<<d, u[1]>>].shows
  <2>0. PICK part \in ToSet(Multiparts(d)) :
          \E t \in {<< << >>, part.content>>} \cup buildContentMeta[part.content] :
            u = << <<Word("multipart"), Idx(part.index)>> \o t[1], t[2]>>
    <3> HIDE DEF S
    <3>1. OfPart(d, u)
      BY Described
    <3> QED
      BY <3>1 DEF OfPart
  <2>1. PICK t \in {<< << >>, part.content>>} \cup buildContentMeta[part.content] :
          u = << <<Word("multipart"), Idx(part.index)>> \o t[1], t[2]>>
    BY <2>0
  <2> DEFINE path == <<Word("multipart"), Idx(part.index)>> \o t[1]
             below == buildMultipartMeta(buildContentMeta, part)
  <2>2. /\ IsMultipart(d) /\ part.index \in Int /\ part.content \in Contents
        /\ d.parts \in Seq(Contents)
    BY PartsAre
  <2>3. PICK i \in 1 .. Len(d.parts) :
          part = [index |-> i - 1, content |-> d.parts[i]] /\ Multiparts(d)[i] = part
    BY PartsAre
  <2>4. /\ Multiparts(d)[part.index + 1] = part
        /\ ~ (part.index >= Len(d.parts)) /\ ~ (part.index < 0)
    <3>1. part.index = i - 1 /\ Len(d.parts) \in Nat
      BY <2>2, <2>3
    <3>2. i - 1 + 1 = i /\ ~ (i - 1 >= Len(d.parts)) /\ ~ (i - 1 < 0)
      BY <3>1
    <3> QED
      BY <2>3, <3>1, <3>2
  <2>5. /\ Word("multipart") \in Steps /\ Idx(part.index) \in Steps
        /\ IsIdx(Idx(part.index)) /\ Idx(part.index)[2] = part.index
    BY <2>2, StepsAre
  <2>6. t[1] \in Seq(Steps) /\ t \in Shown /\ Len(t[1]) \in Nat
    <3>1. << << >>, part.content>> \in Shown
      BY <2>2, EmptySeq DEF Shown
    <3>2. t \in Shown
      BY <2>1, <2>2, <3>1, MetaIs
    <3> QED
      BY <3>2 DEF Shown
  <2>7. /\ path \in Paths /\ Len(path) = Len(t[1]) + 2
        /\ Head(path) = Word("multipart") /\ path[2] = Idx(part.index)
        /\ SubSeq(path, 3, Len(path)) = t[1]
        /\ \A p \in Seq(Steps) : <<Word("multipart")>> \o (<<Idx(part.index)>> \o p)
                                   = <<Word("multipart"), Idx(part.index)>> \o p
    <3> DEFINE step == Word("multipart")
               idx == Idx(part.index)
               rest == t[1]
    <3>1. step \in Steps /\ idx \in Steps /\ rest \in Seq(Steps)
      BY <2>5, <2>6
    <3> HIDE DEF step, idx, rest
    <3>2. \A p \in Seq(Steps) : <<step>> \o (<<idx>> \o p) = <<step, idx>> \o p
      BY <3>1, TwoSteps
    <3>3. /\ <<step, idx>> \o rest \in Paths /\ Len(<<step, idx>> \o rest) = Len(rest) + 2
          /\ Head(<<step, idx>> \o rest) = step /\ (<<step, idx>> \o rest)[2] = idx
          /\ SubSeq(<<step, idx>> \o rest, 3, Len(rest) + 2) = rest
      BY <3>1, TwoSteps
    <3> QED
      BY <3>2, <3>3 DEF step, idx, rest
  <2>8. u[1] = path /\ u = << <<Word("multipart")>> \o (<<Idx(part.index)>> \o t[1]), t[2]>>
    BY <2>1, <2>6, <2>7
  <2>9. /\ path # <<Word("body")>> /\ Len(path) # 0 /\ Len(path) # 1
        /\ (Len(path) = 2 <=> Len(t[1]) = 0)
    <3>1. Len(path) # 0 /\ Len(path) # 1 /\ (Len(path) = 2 <=> Len(t[1]) = 0)
      BY <2>6, <2>7
    <3>2. Len(<<Word("body")>>) = 1
      OBVIOUS
    <3> QED
      BY <3>1, <3>2
  <2> HIDE DEF path
  <2>10. route[<<d, path>>] = Under(Word("multipart"), PartEndpoint(route, d, path))
    BY <1>1, <2>2, <2>7, <2>9 DEF IsRoute, ContentEndpoint
  <2>11. PartEndpoint(route, d, path) =
           IF Len(path) = 2 THEN Shows(below) ELSE Under(path[2], route[<<part.content, t[1]>>])
    BY <2>4, <2>5, <2>7 DEF PartEndpoint
  <2>12. << <<Idx(part.index)>> \o t[1], t[2]>> \in PartEndpoint(route, d, path).shows
         /\ PartEndpoint(route, d, path) \in AnswerType
    <3>1. << <<Idx(part.index)>> \o t[1], t[2]>> \in below
      BY <2>1 DEF buildMultipartMeta, Below
    <3>2. below \in SUBSET Shown
      BY <2>2, MetaIs, PartMetaType
    <3> HIDE DEF below
    <3>3. CASE Len(path) = 2
      BY <2>11, <3>1, <3>2, <3>3, AnswersAre
    <3>4. CASE Len(path) # 2
      <4>1. Len(t[1]) # 0 /\ t # << << >>, part.content>>
        <5>1. Len(t[1]) # 0 /\ Len(<< >>) = 0
          BY <2>9, <3>4
        <5> QED
          BY <5>1
      <4>2. t \in buildContentMeta[part.content]
        BY <2>1, <4>1
      <4>3. t[1] \in Paths /\ t \in route[<<part.content, t[1]>>].shows
        BY <1>2, <4>2
      <4>4. route[<<part.content, t[1]>>] \in AnswerType
        BY <1>1, <2>2, <4>3 DEF IsRoute
      <4>5. /\ PartEndpoint(route, d, path) \in AnswerType
            /\ PartEndpoint(route, d, path).shows = Below(path[2], route[<<part.content, t[1]>>].shows)
        BY <2>5, <2>7, <2>11, <3>4, <4>4, AnswersAre
      <4> QED
        BY <2>7, <4>3, <4>5 DEF Below
    <3> QED
      BY <3>3, <3>4
  <2>13. route[<<d, path>>].shows = Below(Word("multipart"), PartEndpoint(route, d, path).shows)
    BY <2>5, <2>10, <2>12, AnswersAre
  <2>14. u \in route[<<d, path>>].shows
    <3> DEFINE v == << <<Idx(part.index)>> \o t[1], t[2]>>
    <3>1. v \in PartEndpoint(route, d, path).shows /\ u = << <<Word("multipart")>> \o v[1], v[2]>>
      BY <2>8, <2>12
    <3> HIDE DEF v
    <3> QED
      BY <2>13, <3>1 DEF Below
  <2> QED
    BY <2>7, <2>8, <2>9, <2>14
<1>3. Contents \subseteq S
  <2>1. \A d \in Contents : (\A part \in ToSet(Multiparts(d)) : part.content \in S) => d \in S
    BY <1>2
  <2> HIDE DEF S
  <2> QED
    BY <2>1, OverContents
<1>4. s[1] \in Paths /\ Len(s[1]) # 1 /\ s \in route[<<c, s[1]>>].shows
  BY <1>3
<1> QED
  BY <1>1, <1>4 DEF IsRoute

(* What is shown in less is shown in more. *)
LEMMA BelowGrows ==
  ASSUME NEW step, NEW S, NEW T, S \subseteq T PROVE Below(step, S) \subseteq Below(step, T)
BY DEF Below

(* A number below 0 is somewhere in the path. *)
Negative(path) == \E i \in 1 .. Len(path) : IsIdx(path[i]) /\ path[i][2] < 0

(* No answer for a content shows anything that its description does not, and
   handlers panic at negative indexes only. *)
LEMMA ShownIsDescribed ==
  ASSUME NEW search, NEW c \in Contents, NEW path \in Paths
  PROVE  /\ subrouteContentEndpoint(c, path, search) \in AnswerType
         /\ subrouteContentEndpoint(c, path, search).shows \subseteq buildContentMeta[c]
         /\ subrouteContentEndpoint(c, path, search).status = "panic" => Negative(path)
<1>1. PICK route : IsRoute(route, search)
  BY RouteIs
<1> DEFINE S == {d \in Contents : \A p \in Paths :
                   /\ route[<<d, p>>].shows \subseteq buildContentMeta[d]
                   /\ route[<<d, p>>].status = "panic" => Negative(p)}
<1>2. ASSUME NEW d \in Contents, \A part \in ToSet(Multiparts(d)) : part.content \in S, NEW p \in Paths
      PROVE  /\ route[<<d, p>>].shows \subseteq buildContentMeta[d]
             /\ route[<<d, p>>].status = "panic" => Negative(p)
  <2> DEFINE U == UNION {buildMultipartMeta(buildContentMeta, part) : part \in ToSet(Multiparts(d))}
             inner == IF Len(p) = 1 THEN MultipartIndex(d, search) ELSE PartEndpoint(route, d, p)
             part == Multiparts(d)[p[2][2] + 1]
             rest == SubSeq(p, 3, Len(p))
  <2>1. route[<<d, p>>] = ContentEndpoint(route, d, p, search)
    BY <1>1 DEF IsRoute
  <2>2. CASE p = <<Word("body")>> \/ Head(p) # Word("multipart") \/ ~IsMultipart(d)
    <3>1. route[<<d, p>>] = Shows({}) \/ route[<<d, p>>] = Fails("404")
      BY <2>1, <2>2 DEF ContentEndpoint
    <3>2. route[<<d, p>>].shows = {} /\ route[<<d, p>>].status # "panic"
      BY <3>1 DEF Shows, Fails
    <3> QED
      BY <3>2
  <2>3. CASE p # <<Word("body")>> /\ Head(p) = Word("multipart") /\ IsMultipart(d)
    <3>1. route[<<d, p>>] = Under(Word("multipart"), inner)
      BY <2>1, <2>3 DEF ContentEndpoint
    <3>2. ASSUME Len(p) # 1
          PROVE  /\ PartEndpoint(route, d, p) \in AnswerType
                 /\ PartEndpoint(route, d, p).shows \subseteq U
                 /\ PartEndpoint(route, d, p).status = "panic" => Negative(p)
      <4>0. 2 \in 1 .. Len(p)
        BY <3>2, RestIs
      <4>1. \A q \in ToSet(Multiparts(d)), r \in Paths : route[<<q.content, r>>] \in AnswerType
        BY <1>1, PartsAre DEF IsRoute
      <4>2. PartEndpoint(route, d, p) \in AnswerType
        BY <2>3, <3>2, <4>1, PartAnswerType
      <4>3. CASE ~IsIdx(p[2]) \/ p[2][2] >= Len(d.parts)
        <5>1. PartEndpoint(route, d, p) = Fails("400") \/ PartEndpoint(route, d, p) = Fails("404")
          BY <4>3 DEF PartEndpoint
        <5>2. PartEndpoint(route, d, p).shows = {} /\ PartEndpoint(route, d, p).status # "panic"
          BY <5>1 DEF Fails
        <5> QED
          BY <4>2, <5>2
      <4>4. CASE IsIdx(p[2]) /\ ~ (p[2][2] >= Len(d.parts)) /\ p[2][2] < 0
        <5>1. PartEndpoint(route, d, p).shows = {}
          BY <4>4 DEF PartEndpoint, Fails
        <5>2. Negative(p)
          BY <4>0, <4>4 DEF Negative
        <5> QED
          BY <4>2, <5>1, <5>2
      <4>5. CASE IsIdx(p[2]) /\ ~ (p[2][2] >= Len(d.parts)) /\ ~ (p[2][2] < 0)
        <5>1. part \in ToSet(Multiparts(d)) /\ p[2] = Idx(part.index) /\ p[2] \in Steps
          BY <2>3, <3>2, <4>5, PartAt
        <5>2. part.content \in Contents
          BY <5>1, PartsAre
        <5>3. buildMultipartMeta(buildContentMeta, part) \subseteq U
          BY <5>1
        <5>4. buildMultipartMeta(buildContentMeta, part) \in SUBSET Shown
          BY <5>1, <5>2, MetaIs, PartMetaType
        <5>5. PartEndpoint(route, d, p) =
                IF Len(p) = 2 THEN Shows(buildMultipartMeta(buildContentMeta, part))
                ELSE Under(p[2], route[<<part.content, rest>>])
          BY <4>5 DEF PartEndpoint
        <5>6. CASE Len(p) = 2
          <6> HIDE DEF part, U
          <6>1. /\ PartEndpoint(route, d, p).shows = buildMultipartMeta(buildContentMeta, part)
                /\ PartEndpoint(route, d, p).status = "200"
            BY <5>4, <5>5, <5>6, AnswersAre
          <6> QED
            BY <4>2, <5>3, <6>1
        <5>7. CASE Len(p) # 2
          <6>1. /\ rest \in Paths
                /\ \A i \in 1 .. Len(rest) : i + 2 \in 1 .. Len(p) /\ rest[i] = p[i + 2]
            BY <3>2, <5>7, RestIs
          <6>2. /\ route[<<part.content, rest>>].shows \subseteq buildContentMeta[part.content]
                /\ route[<<part.content, rest>>].status = "panic" => Negative(rest)
            BY <1>2, <5>1, <6>1
          <6>3. route[<<part.content, rest>>] \in AnswerType
            BY <4>1, <5>1, <6>1
          <6> HIDE DEF part, U, rest
          <6>4. /\ PartEndpoint(route, d, p).shows = Below(p[2], route[<<part.content, rest>>].shows)
                /\ PartEndpoint(route, d, p).status = route[<<part.content, rest>>].status
            BY <5>1, <5>5, <5>7, <6>3, AnswersAre
          <6>5. PartEndpoint(route, d, p).shows \subseteq buildMultipartMeta(buildContentMeta, part)
            <7>1. route[<<part.content, rest>>].shows
                    \subseteq {<< << >>, part.content>>} \cup buildContentMeta[part.content]
              BY <6>2
            <7> QED
              BY <5>1, <6>4, <7>1, BelowGrows DEF buildMultipartMeta
          <6>6. Negative(rest) => Negative(p)
            BY <6>1 DEF Negative
          <6> QED
            BY <4>2, <5>3, <6>2, <6>4, <6>5, <6>6
        <5> QED
          BY <5>6, <5>7
      <4> QED
        BY <4>3, <4>4, <4>5
    <3>3. inner \in AnswerType /\ inner.shows \subseteq U /\ (inner.status = "panic" => Negative(p))
      <4>1. CASE Len(p) = 1
        BY <4>1, MultipartIndexType
      <4>2. CASE Len(p) # 1
        BY <3>2, <4>2
      <4> QED
        BY <4>1, <4>2
    <3>4. buildContentMeta[d] = Below(Word("multipart"), U)
      BY MetaIs DEF MetaOf
    <3> HIDE DEF inner, U
    <3>5. /\ route[<<d, p>>].shows = Below(Word("multipart"), inner.shows)
          /\ route[<<d, p>>].status = inner.status
      BY <3>1, <3>3, StepsAre, AnswersAre
    <3> QED
      BY <3>3, <3>4, <3>5, BelowGrows
  <2> QED
    BY <2>2, <2>3
<1>3. Contents \subseteq S
  <2>1. \A d \in Contents : (\A part \in ToSet(Multiparts(d)) : part.content \in S) => d \in S
    BY <1>2
  <2> HIDE DEF S
  <2> QED
    BY <2>1, OverContents
<1>4. /\ route[<<c, path>>].shows \subseteq buildContentMeta[c]
      /\ route[<<c, path>>].status = "panic" => Negative(path)
  BY <1>3
<1> QED
  BY <1>1, <1>4 DEF IsRoute

(* A description goes down to the innermost parts. *)
LEMMA DescribedThroughout ==
  ASSUME NEW c \in Contents
  PROVE  /\ \A part \in ToSet(Multiparts(c)) : \E s \in buildContentMeta[c] : s[2] = part.content
         /\ \A s \in buildContentMeta[c] : \A part \in ToSet(Multiparts(s[2])) :
              \E t \in buildContentMeta[c] : t[2] = part.content
<1> DEFINE Top(d) == \A part \in ToSet(Multiparts(d)) : \E s \in buildContentMeta[d] : s[2] = part.content
           Deep(d) == \A s \in buildContentMeta[d] : \A part \in ToSet(Multiparts(s[2])) :
                        \E t \in buildContentMeta[d] : t[2] = part.content
           S == {d \in Contents : Deep(d)}
           both(part, t) == << <<Word("multipart"), Idx(part.index)>> \o t[1], t[2]>>
<1>1. ASSUME NEW d \in Contents, NEW part \in ToSet(Multiparts(d)),
             NEW t \in {<< << >>, part.content>>} \cup buildContentMeta[part.content]
      PROVE  both(part, t) \in buildContentMeta[d] /\ both(part, t)[2] = t[2]
  <2>1. OfPart(d, both(part, t))
    BY DEF OfPart
  <2>2. both(part, t)[2] = t[2]
    OBVIOUS
  <2> HIDE DEF both
  <2> QED
    BY <2>1, <2>2, Described
<1>2. ASSUME NEW d \in Contents PROVE Top(d)
  <2> SUFFICES ASSUME NEW part \in ToSet(Multiparts(d))
               PROVE  \E s \in buildContentMeta[d] : s[2] = part.content
    OBVIOUS
  <2> DEFINE t == << << >>, part.content>>
  <2>1. t \in {<< << >>, part.content>>} \cup buildContentMeta[part.content] /\ t[2] = part.content
    OBVIOUS
  <2> HIDE DEF t, both
  <2>2. both(part, t) \in buildContentMeta[d] /\ both(part, t)[2] = part.content
    BY <1>1, <2>1
  <2> QED
    BY <2>2
<1>3. ASSUME NEW d \in Contents, \A part \in ToSet(Multiparts(d)) : part.content \in S
      PROVE  d \in S
  <2> SUFFICES ASSUME NEW s \in buildContentMeta[d], NEW inside \in ToSet(Multiparts(s[2]))
               PROVE  \E t \in buildContentMeta[d] : t[2] = inside.content
    OBVIOUS
  <2>1. OfPart(d, s)
    BY Described
  <2>2. PICK part \in ToSet(Multiparts(d)) :
          \E t \in {<< << >>, part.content>>} \cup buildContentMeta[part.content] : s = both(part, t)
    BY <2>1 DEF OfPart
  <2>3. PICK t \in {<< << >>, part.content>>} \cup buildContentMeta[part.content] : s = both(part, t)
    BY <2>2
  <2>4. s[2] = t[2]
    BY <2>3
  <2>5. part.content \in Contents
    BY PartsAre
  <2>6. \E u \in buildContentMeta[part.content] : u[2] = inside.content
    <3>1. CASE t = << << >>, part.content>>
      <4>1. inside \in ToSet(Multiparts(part.content))
        BY <2>4, <3>1
      <4>2. Top(part.content)
        BY <1>2, <2>5
      <4> QED
        BY <4>1, <4>2
    <3>2. CASE t \in buildContentMeta[part.content]
      <4>1. Deep(part.content)
        BY <1>3
      <4>2. inside \in ToSet(Multiparts(t[2]))
        BY <2>4
      <4> HIDE DEF S
      <4> QED
        BY <3>2, <4>1, <4>2
    <3> QED
      BY <2>3, <3>1, <3>2
  <2>7. PICK u \in buildContentMeta[part.content] : u[2] = inside.content
    BY <2>6
  <2> HIDE DEF both, S
  <2>8. both(part, u) \in buildContentMeta[d] /\ both(part, u)[2] = inside.content
    BY <1>1, <2>7
  <2> QED
    BY <2>8
<1>4. Contents \subseteq S
  <2> HIDE DEF S
  <2> QED
    BY <1>3, OverContents
<1>5. Top(c) /\ Deep(c)
  <2> HIDE DEF Top
  <2> QED
    BY <1>2, <1>4
<1> QED
  BY <1>5

(***************************************************************************)
(* Messages                                                                *)
(***************************************************************************)

(* Every message has its position in the list as its index. *)
Positioned == \A i \in 1 .. Len(receivedMessages) : receivedMessages[i].index = i - 1

HttpInvariant == SmtpInvariant /\ Positioned

(* All that can be shown: every message, and its parts at every depth. *)
AllShown ==
  UNION {buildMessageFullMeta(receivedMessages[i]) : i \in 1 .. Len(receivedMessages)}

(* A message is found at its index. *)
LEMMA MessageIs ==
  ASSUME HttpInvariant, NEW i \in 1 .. Len(receivedMessages)
  PROVE  /\ receivedMessages[i].index = i - 1
         /\ ContentOf(receivedMessages[i]) \in Contents
         /\ Idx(i - 1) \in Steps /\ Idx(i - 1)[2] + 1 = i
         /\ retrieveMessage(Idx(i - 1)).status = "200"
         /\ Idx(i - 1) # Word("gui") /\ Idx(i - 1) # Word("postmessage")
<1>1. receivedMessages \in Seq(MessageType) /\ Len(receivedMessages) \in Nat
  BY DEF HttpInvariant, SmtpInvariant, TypeOK
<1>2. receivedMessages[i].index = i - 1
  BY DEF HttpInvariant, Positioned
<1>3. ContentOf(receivedMessages[i]) \in Contents
  <2>1. receivedMessages[i] \in MessageType
    BY <1>1
  <2>2. receivedMessages[i].payload.body \in 1 .. MaxMessages
    BY <2>1 DEF MessageType, PayloadType, Bodies
  <2> QED
    BY <2>2, MailsAssumption DEF ContentOf
<1>4. i - 1 \in Int /\ ~ (i - 1 >= Len(receivedMessages)) /\ ~ (i - 1 < 0) /\ i - 1 + 1 = i
  BY <1>1
<1>5. Idx(i - 1) \in Steps /\ IsIdx(Idx(i - 1)) /\ Idx(i - 1)[2] = i - 1
  BY <1>4, StepsAre
<1>6. retrieveMessage(Idx(i - 1)) = Shows({})
  BY <1>4, <1>5 DEF retrieveMessage
<1>7. \A w : Idx(i - 1) # Word(w)
  BY DEF Idx, Word
<1> QED
  BY <1>2, <1>3, <1>4, <1>5, <1>6, <1>7 DEF Shows

(* Only the indexes of messages find something, and only negative ones panic. *)
LEMMA Retrieved ==
  ASSUME HttpInvariant, NEW step \in Steps
  PROVE  /\ retrieveMessage(step).shows = {}
         /\ retrieveMessage(step).status = "panic" => IsIdx(step) /\ step[2] < 0
         /\ retrieveMessage(step).status = "200" =>
              \E i \in 1 .. Len(receivedMessages) : step = Idx(i - 1) /\ step[2] + 1 = i
<1>1. Len(receivedMessages) \in Nat
  BY DEF HttpInvariant, SmtpInvariant, TypeOK
<1>2. IsIdx(step) => step[2] \in Int /\ step = Idx(step[2])
  BY StepsAre
<1>3. CASE ~IsIdx(step) \/ step[2] >= Len(receivedMessages)
  BY <1>3 DEF retrieveMessage, Fails
<1>4. CASE IsIdx(step) /\ ~ (step[2] >= Len(receivedMessages)) /\ step[2] < 0
  BY <1>4 DEF retrieveMessage, Fails
<1>5. CASE IsIdx(step) /\ ~ (step[2] >= Len(receivedMessages)) /\ ~ (step[2] < 0)
  <2>1. retrieveMessage(step) = Shows({})
    BY <1>5 DEF retrieveMessage
  <2> DEFINE i == step[2] + 1
  <2>2. i \in 1 .. Len(receivedMessages) /\ i - 1 = step[2]
    BY <1>1, <1>2, <1>5
  <2> HIDE DEF i
  <2>3. step = Idx(i - 1)
    BY <1>2, <1>5, <2>2
  <2> QED
    BY <2>1, <2>2, <2>3 DEF Shows, i
<1> QED
  BY <1>3, <1>4, <1>5

(* What is left of a path after its first step. *)
LEMMA TailIs ==
  ASSUME NEW path \in Paths
  PROVE  /\ Len(path) # 1 => Tail(path) \in Paths /\ Head(Tail(path)) = path[2]
         /\ \A i \in 1 .. Len(Tail(path)) : i + 1 \in 1 .. Len(path) /\ Tail(path)[i] = path[i + 1]
<1>1. path \in Seq(Steps) /\ path # << >>
  BY DEF Paths
<1>2. /\ Tail(path) \in Seq(Steps) /\ Len(Tail(path)) = Len(path) - 1
      /\ \A i \in 1 .. Len(Tail(path)) : Tail(path)[i] = path[i + 1]
  BY <1>1, HeadTailProperties
<1>3. Len(path) \in Nat /\ Len(path) # 0
  BY <1>1
<1> HIDE DEF Paths
<1>4. \A i \in 1 .. Len(Tail(path)) : i + 1 \in 1 .. Len(path)
  BY <1>2, <1>3
<1>5. ASSUME Len(path) # 1 PROVE Tail(path) # << >> /\ Head(Tail(path)) = path[2]
  <2>1. Len(Tail(path)) # 0 /\ 1 \in 1 .. Len(Tail(path))
    BY <1>2, <1>3, <1>5
  <2>2. Tail(path) # << >>
    BY <2>1
  <2>3. Head(Tail(path)) = Tail(path)[1]
    BY <1>2, <2>2
  <2> QED
    BY <1>2, <2>1, <2>2, <2>3
<1> QED
  BY <1>2, <1>4, <1>5 DEF Paths

(* No answer for a message shows anything else. *)
LEMMA MessageShown ==
  ASSUME HttpInvariant, NEW path \in Paths, NEW search
  PROVE  /\ MessageEndpoint(path, search).shows \subseteq AllShown
         /\ MessageEndpoint(path, search).status = "panic" => Negative(path)
<1> DEFINE found == retrieveMessage(Head(path))
           msg == receivedMessages[Head(path)[2] + 1]
           inner == subrouteContentEndpoint(ContentOf(msg), Tail(path), search)
<1>1. Head(path) = path[1] /\ path[1] \in Steps /\ 1 \in 1 .. Len(path)
  <2>1. Head(path) = path[1] /\ path[1] \in Steps /\ Len(path) \in Nat \ {0}
    BY RestIs
  <2>2. \A n \in Nat : n # 0 => 1 \in 1 .. n
    OBVIOUS
  <2> QED
    BY <2>1, <2>2
<1>2. CASE found.status # "200"
  <2>1. MessageEndpoint(path, search) = found
    BY <1>2 DEF MessageEndpoint
  <2>2. found.shows = {} /\ (found.status = "panic" => IsIdx(path[1]) /\ path[1][2] < 0)
    BY <1>1, Retrieved
  <2> HIDE DEF found
  <2> QED
    BY <1>1, <2>1, <2>2 DEF Negative
<1>3. CASE found.status = "200"
  <2>1. PICK i \in 1 .. Len(receivedMessages) : Head(path) = Idx(i - 1) /\ Head(path)[2] + 1 = i
    BY <1>1, <1>3, Retrieved
  <2>2. /\ msg = receivedMessages[i] /\ msg.index = i - 1 /\ ContentOf(msg) \in Contents
        /\ Head(path) \in Steps
    BY <1>1, <2>1, MessageIs
  <2>3. buildMessageFullMeta(msg) \subseteq AllShown
    BY <2>2 DEF AllShown
  <2>4. MessageEndpoint(path, search) =
          IF Len(path) = 1 THEN Shows(buildMessageFullMeta(msg))
          ELSE IF Tail(path) = <<Word("raw")>> THEN Shows({})
          ELSE Under(Head(path), inner)
    BY <1>3 DEF MessageEndpoint
  <2>5. CASE Len(path) = 1 \/ Tail(path) = <<Word("raw")>>
    <3>1. MessageEndpoint(path, search) = Shows(buildMessageFullMeta(msg)) \/ MessageEndpoint(path, search) = Shows({})
      BY <2>4, <2>5
    <3> HIDE DEF msg
    <3> QED
      BY <2>3, <3>1 DEF Shows
  <2>6. CASE Len(path) # 1 /\ Tail(path) # <<Word("raw")>>
    <3>1. Tail(path) \in Paths
      BY <2>6, TailIs
    <3>2. /\ inner \in AnswerType /\ inner.shows \subseteq buildContentMeta[ContentOf(msg)]
          /\ inner.status = "panic" => Negative(Tail(path))
      BY <2>2, <3>1, ShownIsDescribed
    <3>3. Negative(Tail(path)) => Negative(path)
      BY TailIs DEF Negative
    <3> HIDE DEF inner, msg
    <3>4. /\ MessageEndpoint(path, search).shows = Below(Head(path), inner.shows)
          /\ MessageEndpoint(path, search).status = inner.status
      BY <2>2, <2>4, <2>6, <3>2, AnswersAre
    <3>5. Below(Head(path), inner.shows) \subseteq Below(Idx(msg.index), buildContentMeta[ContentOf(msg)])
      BY <2>1, <2>2, <3>2, BelowGrows
    <3> QED
      BY <2>3, <3>2, <3>3, <3>4, <3>5 DEF buildMessageFullMeta
  <2> QED
    BY <2>5, <2>6
<1> QED
  BY <1>2, <1>3

(* No answer shows anything else, and only a negative index makes a handler panic. *)
LEMMA AnswersConfined ==
  ASSUME HttpInvariant, NEW q, q.path \in Seq(Steps)
  PROVE  /\ Answer(q).shows \subseteq AllShown
         /\ Answer(q).status = "panic" => Negative(q.path)
<1> DEFINE path == q.path
<1>1. CASE path = << >>
  <2> DEFINE hits == {m \in ToSet(receivedMessages) :
                        allRegexesMatchAnyHeader(Headers(ContentOf(m)), q.search)}
  <2>1. Answer(q) = IF q.search = BadSearch THEN Fails("400")
                    ELSE Shows(UNION {buildMessageBasicMeta(m) : m \in hits})
    BY <1>1 DEF Answer, MessageIndex
  <2>2. DOMAIN receivedMessages = 1 .. Len(receivedMessages)
    BY DEF HttpInvariant, SmtpInvariant, TypeOK
  <2>3. \A m \in hits : buildMessageBasicMeta(m) \subseteq AllShown
    BY <2>2 DEF ToSet, AllShown, buildMessageFullMeta
  <2> HIDE DEF hits
  <2>4. UNION {buildMessageBasicMeta(m) : m \in hits} \subseteq AllShown
    BY <2>3
  <2> QED
    BY <2>1, <2>4 DEF Shows, Fails
<1>2. CASE path # << >> /\ Head(path) = Word("gui")
  <2>1. path \in Paths /\ Answer(q) = GUIEndpoint(path)
    BY <1>2 DEF Paths, Answer
  <2>2. CASE Len(path) = 1
    BY <2>1, <2>2 DEF GUIEndpoint, Shows
  <2>3. CASE Len(path) # 1
    <3>1. path[2] \in Steps /\ 2 \in 1 .. Len(path)
      BY <2>1, <2>3, RestIs
    <3>2. Tail(path) \in Paths /\ (Negative(Tail(path)) => Negative(path))
      BY <2>1, <2>3, TailIs DEF Negative
    <3>3. Answer(q) \in {retrieveMessage(path[2]), MessageEndpoint(Tail(path), {}), Fails("404")}
      BY <2>1, <2>3 DEF GUIEndpoint
    <3>4. /\ retrieveMessage(path[2]).shows = {}
          /\ retrieveMessage(path[2]).status = "panic" => Negative(path)
      BY <3>1, Retrieved DEF Negative
    <3>5. /\ MessageEndpoint(Tail(path), {}).shows \subseteq AllShown
          /\ MessageEndpoint(Tail(path), {}).status = "panic" => Negative(path)
      BY <3>2, MessageShown
    <3>6. Fails("404").shows = {} /\ Fails("404").status # "panic"
      BY DEF Fails
    <3> QED
      BY <3>3, <3>4, <3>5, <3>6
  <2> QED
    BY <2>2, <2>3
<1>3. CASE path # << >> /\ Head(path) # Word("gui")
  <2>1. path \in Paths
    BY <1>3 DEF Paths
  <2>2. Answer(q) = Fails("405") \/ Answer(q) = MessageEndpoint(path, q.search)
    BY <1>3 DEF Answer
  <2>3. Fails("405").shows = {} /\ Fails("405").status # "panic"
    BY DEF Fails
  <2> QED
    BY <2>1, <2>2, <2>3, MessageShown
<1> QED
  BY <1>1, <1>2, <1>3

(* The description of a message is what is found at its index. *)
LEMMA MessageFound ==
  ASSUME HttpInvariant, NEW i \in 1 .. Len(receivedMessages)
  PROVE  Answer(Get(<<Idx(i - 1)>>)).shows = buildMessageFullMeta(receivedMessages[i])
<1> DEFINE path == <<Idx(i - 1)>>
<1>1. path # << >> /\ Head(path) = Idx(i - 1) /\ Len(path) = 1
  OBVIOUS
<1>2. Answer(Get(path)) = MessageEndpoint(path, {})
  BY <1>1, MessageIs DEF Answer, Get
<1>3. MessageEndpoint(path, {}) = Shows(buildMessageFullMeta(receivedMessages[i]))
  BY <1>1, MessageIs DEF MessageEndpoint
<1> QED
  BY <1>2, <1>3 DEF Shows

(* All that can be shown can be looked up. *)
LEMMA ShownIsFound ==
  ASSUME HttpInvariant, NEW s \in AllShown PROVE s \in Answer(Get(s[1])).shows
<1>1. PICK i \in 1 .. Len(receivedMessages) : s \in buildMessageFullMeta(receivedMessages[i])
  BY DEF AllShown
<1> DEFINE m == receivedMessages[i]
           c == ContentOf(m)
<1>2. /\ m.index = i - 1 /\ c \in Contents /\ Idx(i - 1) \in Steps
      /\ retrieveMessage(Idx(i - 1)).status = "200" /\ Idx(i - 1)[2] + 1 = i
      /\ Idx(i - 1) # Word("gui") /\ Idx(i - 1) # Word("postmessage")
  BY MessageIs
<1>3. CASE s = << <<Idx(m.index)>>, c>>
  <2>1. s[1] = <<Idx(i - 1)>>
    BY <1>2, <1>3
  <2> QED
    BY <1>1, <2>1, MessageFound
<1>4. CASE s \in Below(Idx(m.index), buildContentMeta[c])
  <2>1. PICK t \in buildContentMeta[c] : s = << <<Idx(i - 1)>> \o t[1], t[2]>>
    BY <1>2, <1>4 DEF Below
  <2> DEFINE path == <<Idx(i - 1)>> \o t[1]
             inner == subrouteContentEndpoint(c, t[1], {})
  <2>2. t[1] \in Paths /\ Len(t[1]) # 1 /\ t \in inner.shows /\ inner \in AnswerType
    BY <1>2, LeadsThere, ShownIsDescribed
  <2>3. /\ path \in Seq(Steps) /\ path # << >> /\ Head(path) = Idx(i - 1)
        /\ Tail(path) = t[1] /\ Len(path) # 1
    <3>1. t[1] \in Seq(Steps) /\ t[1] # << >> /\ <<Idx(i - 1)>> \in Seq(Steps)
          /\ Len(<<Idx(i - 1)>>) = 1 /\ Len(t[1]) \in Nat /\ Len(t[1]) # 0
      BY <1>2, <2>2 DEF Paths
    <3>2. /\ path \in Seq(Steps) /\ Len(path) = Len(t[1]) + 1 /\ path[1] = Idx(i - 1)
          /\ \A k \in 1 .. Len(t[1]) : path[k + 1] = t[1][k]
      BY <3>1, ConcatProperties
    <3> HIDE DEF path
    <3>3. path # << >> /\ Len(path) # 1 /\ Head(path) = Idx(i - 1)
      BY <3>1, <3>2
    <3>4. /\ Tail(path) \in Seq(Steps) /\ Len(Tail(path)) = Len(t[1])
          /\ \A k \in 1 .. Len(Tail(path)) : Tail(path)[k] = path[k + 1]
      BY <3>1, <3>2, <3>3, HeadTailProperties
    <3>5. Tail(path) = t[1]
      BY <3>1, <3>2, <3>4, SeqEqual
    <3> QED
      BY <3>2, <3>3, <3>5
  <2>4. Tail(path) # <<Word("raw")>>
    <3>1. Len(<<Word("raw")>>) = 1
      OBVIOUS
    <3> QED
      BY <2>2, <2>3, <3>1
  <2> HIDE DEF path
  <2>5. Answer(Get(path)) = MessageEndpoint(path, {})
    BY <1>2, <2>3 DEF Answer, Get
  <2>6. MessageEndpoint(path, {}) = Under(Idx(i - 1), inner)
    BY <1>2, <2>3, <2>4 DEF MessageEndpoint
  <2>7. Under(Idx(i - 1), inner).shows = Below(Idx(i - 1), inner.shows)
    BY <1>2, <2>2, AnswersAre
  <2>8. s \in Below(Idx(i - 1), inner.shows)
    <3> HIDE DEF inner
    <3> QED
      BY <2>1, <2>2 DEF Below
  <2>9. s[1] = path
    BY <2>1 DEF path
  <2> QED
    BY <2>5, <2>6, <2>7, <2>8, <2>9
<1> QED
  BY <1>1, <1>3, <1>4 DEF buildMessageFullMeta, buildMessageBasicMeta

(* From the index on, everything can be looked up. *)
LEMMA AllIsReachable == HttpInvariant => AllReachable
<1> SUFFICES ASSUME HttpInvariant PROVE AllReachable
  OBVIOUS
<1> DEFINE N == Len(receivedMessages)
           index == Answer(Get(<< >>)).shows
           below == UNION {Answer(Get(s[1])).shows : s \in index}
           reached == {s[2] : s \in below}
           full(i) == buildMessageFullMeta(receivedMessages[i])
           content(i) == ContentOf(receivedMessages[i])
           shownOf(i, c) == \E s \in full(i) : c = s[2]
           partOf(i, c) == \E t \in buildContentMeta[content(i)] : c = t[2]
<1>1. DOMAIN receivedMessages = 1 .. N /\ ToSet(receivedMessages) = {receivedMessages[i] : i \in 1 .. N}
  BY DEF HttpInvariant, SmtpInvariant, TypeOK, ToSet
<1>2. index = {<< <<Idx(i - 1)>>, content(i)>> : i \in 1 .. N}
  <2>1. \A m : allRegexesMatchAnyHeader(Headers(ContentOf(m)), {})
    BY DEF allRegexesMatchAnyHeader
  <2>2. {} # BadSearch
    BY DEF BadSearch
  <2>3. index = UNION {buildMessageBasicMeta(m) : m \in ToSet(receivedMessages)}
    BY <2>1, <2>2 DEF Answer, Get, MessageIndex, Shows
  <2>4. \A i \in 1 .. N : buildMessageBasicMeta(receivedMessages[i]) = {<< <<Idx(i - 1)>>, content(i)>>}
    BY MessageIs DEF buildMessageBasicMeta
  <2> HIDE DEF index
  <2> QED
    BY <1>1, <2>3, <2>4
<1>3. below = UNION {full(i) : i \in 1 .. N}
  <2> DEFINE entry(i) == << <<Idx(i - 1)>>, content(i)>>
             found(s) == Answer(Get(s[1])).shows
  <2>1. \A i \in 1 .. N : found(entry(i)) = full(i)
    <3>1. \A i : entry(i)[1] = <<Idx(i - 1)>>
      OBVIOUS
    <3> HIDE DEF entry
    <3> QED
      BY <3>1, MessageFound
  <2>2. \A s : s \in index <=> \E i \in 1 .. N : s = entry(i)
    <3> HIDE DEF index
    <3> QED
      BY <1>2
  <2> HIDE DEF index, full, entry, found
  <2>3. \A x : x \in below <=> \E s \in index : x \in found(s)
    BY DEF found
  <2> HIDE DEF below
  <2>4. \A x : x \in below <=> \E i \in 1 .. N : x \in full(i)
    BY <2>1, <2>2, <2>3
  <2> QED
    BY <2>4
<1>4. \A c : c \in reached <=> \E i \in 1 .. N : shownOf(i, c)
  <2> HIDE DEF below, full
  <2> QED
    BY <1>3
<1>5. ASSUME NEW i \in 1 .. N
      PROVE  /\ content(i) \in Contents
             /\ \A c : shownOf(i, c) <=> c = content(i) \/ partOf(i, c)
  <2>1. content(i) \in Contents
    BY MessageIs
  <2> DEFINE step == Idx(receivedMessages[i].index)
             lower == buildContentMeta[content(i)]
             shown(t) == << <<step>> \o t[1], t[2]>>
  <2>2. \A s : s \in full(i) <=> s = << <<step>>, content(i)>> \/ \E t \in lower : s = shown(t)
    BY DEF buildMessageFullMeta, buildMessageBasicMeta, Below
  <2>3. << <<step>>, content(i)>>[2] = content(i) /\ \A t : shown(t)[2] = t[2]
    OBVIOUS
  <2> HIDE DEF full, content, step, lower, shown
  <2>4. ASSUME NEW c, NEW s \in full(i), c = s[2]
        PROVE  c = content(i) \/ \E t \in lower : c = t[2]
    BY <2>2, <2>3, <2>4
  <2>5. << <<step>>, content(i)>> \in full(i) /\ \A t \in lower : shown(t) \in full(i)
    BY <2>2
  <2>6. \A c : (\E s \in full(i) : c = s[2]) <=> c = content(i) \/ \E t \in lower : c = t[2]
    BY <2>3, <2>4, <2>5
  <2> QED
    BY <2>1, <2>6 DEF lower
<1> HIDE DEF index, below, reached, full, content, shownOf, partOf
<1>6. \A i \in 1 .. N : content(i) \in reached
  BY <1>4, <1>5
<1>7. ASSUME NEW c \in reached, NEW part \in ToSet(Multiparts(c)) PROVE part.content \in reached
  <2>1. PICK i \in 1 .. N : shownOf(i, c)
    BY <1>4
  <2>2. c = content(i) \/ partOf(i, c)
    BY <1>5, <2>1
  <2>3. partOf(i, part.content)
    <3>1. CASE c = content(i)
      BY <1>5, <3>1, DescribedThroughout DEF partOf
    <3>2. CASE partOf(i, c)
      BY <1>5, <3>2, DescribedThroughout DEF partOf
    <3> QED
      BY <2>2, <3>1, <3>2
  <2>4. shownOf(i, part.content)
    BY <1>5, <2>3
  <2> QED
    BY <1>4, <2>4
<1>8. ASSUME NEW q \in Queries, Answer(q).status = "panic"
      PROVE  \E i \in DOMAIN q.path : IsIdx(q.path[i]) /\ q.path[i][2] < 0
  <2>1. q.path \in Seq(Steps)
    BY QueriesAssumption
  <2>2. DOMAIN q.path = 1 .. Len(q.path)
    BY <2>1
  <2> QED
    BY <1>8, <2>1, <2>2, AnswersConfined DEF Negative
<1> QED
  BY <1>1, <1>6, <1>7, <1>8 DEF AllReachable, reached, below, index, content


(* Messages stay where they are, and a new one gets its position. *)
LEMMA ListGrows ==
  ASSUME HttpInvariant, [Next]_vars
  PROVE  /\ Positioned'
         /\ \A i \in 1 .. Len(receivedMessages) :
              i \in 1 .. Len(receivedMessages') /\ receivedMessages'[i] = receivedMessages[i]
<1>1. receivedMessages \in Seq(MessageType) /\ Len(receivedMessages) \in Nat
  BY DEF HttpInvariant, SmtpInvariant, TypeOK
<1>2. Log!LogNext \/ UNCHANGED receivedMessages
  BY LogStep DEF HttpInvariant
<1>3. CASE UNCHANGED receivedMessages
  BY <1>3 DEF HttpInvariant, Positioned
<1>4. CASE Log!LogNext
  <2>1. PICK p \in PayloadType :
          receivedMessages' = Append(receivedMessages, Message(Len(receivedMessages), p))
    BY <1>4 DEF Log!LogNext, Log!Add, Log!Entry, Message
  <2> DEFINE m == Message(Len(receivedMessages), p)
  <2>2. m.index = Len(receivedMessages) /\ m \in MessageType
    BY <1>1 DEF Message, MessageType
  <2> HIDE DEF m
  <2>3. /\ Len(receivedMessages') = Len(receivedMessages) + 1
        /\ receivedMessages'[Len(receivedMessages) + 1] = m
        /\ \A i \in 1 .. Len(receivedMessages) : receivedMessages'[i] = receivedMessages[i]
    BY <1>1, <2>1, <2>2, AppendProperties DEF m
  <2>4. ASSUME NEW i \in 1 .. Len(receivedMessages')
        PROVE  i \in 1 .. Len(receivedMessages) \/ i = Len(receivedMessages) + 1
    BY <1>1, <2>3
  <2>5. Positioned'
    BY <1>1, <2>2, <2>3, <2>4 DEF HttpInvariant, Positioned
  <2>6. \A i \in 1 .. Len(receivedMessages) : i \in 1 .. Len(receivedMessages')
    BY <1>1, <2>3
  <2> QED
    BY <2>3, <2>5, <2>6
<1> QED
  BY <1>2, <1>3, <1>4

(* What can be shown stays. *)
LEMMA ShownStays == HttpInvariant /\ [Next]_vars => AllShown \subseteq AllShown'
<1> SUFFICES ASSUME HttpInvariant, [Next]_vars, NEW s \in AllShown PROVE s \in AllShown'
  OBVIOUS
<1>1. PICK i \in 1 .. Len(receivedMessages) : s \in buildMessageFullMeta(receivedMessages[i])
  BY DEF AllShown
<1>2. i \in 1 .. Len(receivedMessages') /\ s \in buildMessageFullMeta(receivedMessages'[i])
  BY <1>1, ListGrows
<1> QED
  BY <1>2 DEF AllShown

(* The messages that can be parsed are among those that are sent. *)
LEMMA HttpNextIsNext == SmtpInvariant /\ [HttpNext]_vars => [Next]_vars
<1> SUFFICES ASSUME SmtpInvariant, [HttpNext]_vars PROVE [Next]_vars
  OBVIOUS
<1>1. CASE UNCHANGED vars
  BY <1>1
<1>2. ASSUME NEW s \in Sessions,
             \/ \E a \in Addresses : Mail(s, a) \/ Rcpt(s, a)
             \/ DataRead(s) \/ Reset(s) \/ DataAppend(s) \/ DataParseError(s)
      PROVE  Next
  BY <1>2 DEF Next, SessionStep
<1>3. ASSUME begun < MaxMessages, PostMessage(Mails[begun + 1].from, Mails[begun + 1].to) PROVE Next
  <2>1. begun + 1 \in 1 .. MaxMessages
    BY <1>3, SmtpAssumption DEF SmtpInvariant, TypeOK
  <2>2. Mails[begun + 1].from \in Addresses /\ Mails[begun + 1].to \in Addresses
    BY <2>1, MailsAssumption
  <2> QED
    BY <1>3, <2>2 DEF Next
<1> QED
  BY <1>1, <1>2, <1>3 DEF HttpNext

(* With messages that can or cannot be parsed, the server does nothing that
   SmtpServer does not allow: what is proved of it holds here as well. *)
THEOREM Http_ImplementsSmtp == HttpSpec => Spec /\ []HttpInvariant
<1>1. Init => HttpInvariant
  BY InitSmtp DEF Init, HttpInvariant, Positioned
<1>2. HttpInvariant /\ [HttpNext]_vars => [Next]_vars
  BY HttpNextIsNext DEF HttpInvariant
<1>3. HttpInvariant /\ [HttpNext]_vars => HttpInvariant'
  <2> SUFFICES ASSUME HttpInvariant, [HttpNext]_vars PROVE HttpInvariant'
    OBVIOUS
  <2>1. [Next]_vars
    BY <1>2
  <2>2. SmtpInvariant' /\ Positioned'
    BY <2>1, SmtpStep, ListGrows DEF HttpInvariant
  <2> QED
    BY <2>2 DEF HttpInvariant
<1> QED
  BY <1>1, <1>2, <1>3, PTL DEF HttpSpec, Spec

(* What ShownLeadsThere asks of a single state. *)
Confined == \A q \in Queries : Answer(q).shows \subseteq AllShown
Leads == \A s \in AllShown : s \in Answer(Get(s[1])).shows

(* No answer shows anything else, and all that can be shown is found. *)
LEMMA AnswersAreConfined == HttpInvariant => Confined /\ Leads
<1> SUFFICES ASSUME HttpInvariant PROVE Confined /\ Leads
  OBVIOUS
<1>1. Confined
  BY QueriesAssumption, AnswersConfined DEF Confined
<1>2. Leads
  BY ShownIsFound DEF Leads
<1> QED
  BY <1>1, <1>2

(* The same, one step later. *)
LEMMA NextAnswersAreConfined == HttpInvariant' => Confined' /\ Leads'
  BY AnswersAreConfined, PTL

(* All can be looked up one step later as well. *)
LEMMA NextAllIsReachable == HttpInvariant' => AllReachable'
  BY AllIsReachable, PTL

(* README.md:3147,3297,3337: whatever index, description or search result a
   client is given, the indexes in it lead to the very messages and parts they
   stand for, at every depth, and still do after whatever happens next. *)
THEOREM Http_ShownLeadsThere == HttpSpec => ShownLeadsThere
<1> DEFINE leads == \A q \in Queries : \A s \in Answer(q).shows \cup Answer(q).shows' :
                      (s \in Answer(Get(s[1])).shows)'
<1>1. ASSUME HttpInvariant, HttpInvariant', [Next]_vars PROVE [Grows => leads]_vars
  <2>1. Confined /\ Confined' /\ Leads'
    BY <1>1, AnswersAreConfined, NextAnswersAreConfined
  <2>2. AllShown \subseteq AllShown'
    BY <1>1, ShownStays
  <2>3. leads
    BY <2>1, <2>2 DEF Confined, Leads
  <2> QED
    BY <2>3
<1> QED
  BY <1>1, Http_ImplementsSmtp, PTL DEF Spec, ShownLeadsThere

(* README.md:3337,3360: everything that was accepted can be looked up, down to
   the innermost part, by following the indexes from /smtp on; and no request
   but one with a negative index makes a handler panic. *)
THEOREM Http_EverythingReachable == HttpSpec => EverythingReachable
<1>1. HttpInvariant' => [Grows => AllReachable']_vars
  BY NextAllIsReachable
<1> QED
  BY <1>1, Http_ImplementsSmtp, PTL DEF EverythingReachable

(***************************************************************************)
(* The proxy store                                                         *)
(***************************************************************************)

CONSTANTS Writers, Walkers, Visitors, Requests, Offsets, MaxEntries
VARIABLES Data, wpc, offset, request, view, writes, acked,
          rpc, roffset, count, next, status, seen

Proxy == INSTANCE HttpProxyStore

(* Requests are written one at a time, as the documented offsets need it. *)
OneWriter == \A v, w \in Writers : v = w

(* A write goes to the end of the list, at the offset that it has taken. *)
WritesAtTheEnd ==
  \A w \in Writers : /\ wpc[w] # "idle" => offset[w] = Len(Data)
                     /\ wpc[w] = "append" => view[w] = Data

(* A read that is under way has checked its offset against a list that can
   only have grown since. *)
ReadsInside ==
  \A c \in Walkers \cup Visitors :
    rpc[c] = "entry" => roffset[c] < count[c] /\ count[c] <= Len(Data)

ProxyInvariant ==
  /\ Proxy!TypeOK /\ WritesAtTheEnd /\ ReadsInside
  /\ Proxy!WrittenAtItsOffset /\ Proxy!OnlyNegativePanics

(* What is written is an entry, whichever write of a race it is from. *)
LEMMA EntryHasType ==
  ASSUME Proxy!TypeOK, NEW w \in Writers
  PROVE  Proxy!EntryOf(w) \in Proxy!EntryType
BY DEF Proxy!TypeOK, Proxy!EntryOf, Proxy!StoreEntry, Proxy!EntryType

(* The store is empty at first and nobody uses it. *)
LEMMA ProxyInit ==
  ASSUME Proxy!ProxyAssumption, Proxy!Init
  PROVE  ProxyInvariant
<1>1. Proxy!AnyRequest \in Requests
  BY DEF Proxy!ProxyAssumption, Proxy!AnyRequest
<1>2. Proxy!TypeOK
  BY <1>1, EmptySeq DEF Proxy!ProxyAssumption, Proxy!Init, Proxy!TypeOK, Proxy!Readers
<1>3. WritesAtTheEnd /\ ReadsInside
  BY DEF Proxy!Init, WritesAtTheEnd, ReadsInside, Proxy!Readers
<1>4. Proxy!WrittenAtItsOffset /\ Proxy!OnlyNegativePanics
  BY DEF Proxy!Init, Proxy!WrittenAtItsOffset, Proxy!OnlyNegativePanics, Proxy!Readers
<1> QED
  BY <1>2, <1>3, <1>4 DEF ProxyInvariant

(* Every step keeps the types, however many writers race. *)
LEMMA ProxyTypes ==
  ASSUME Proxy!ProxyAssumption, Proxy!TypeOK, [Proxy!Next]_(Proxy!vars)
  PROVE  Proxy!TypeOK'
<1> USE DEF Proxy!TypeOK, Proxy!Readers, Proxy!readVars, Proxy!writeVars
<1>1. ASSUME NEW w \in Writers, NEW r \in Requests, Proxy!WriteBegin(w, r) PROVE Proxy!TypeOK'
  <2>1. Len(Data) \in Nat
    BY LenProperties
  <2>2. writes' \in 0 .. MaxEntries
    BY <1>1 DEF Proxy!WriteBegin, Proxy!ProxyAssumption
  <2> QED
    BY <1>1, <2>1, <2>2 DEF Proxy!WriteBegin
<1>2. ASSUME NEW w \in Writers, Proxy!BodyError(w) PROVE Proxy!TypeOK'
  BY <1>2 DEF Proxy!BodyError
<1>3. ASSUME NEW w \in Writers, Proxy!AppendLoad(w) PROVE Proxy!TypeOK'
  BY <1>3 DEF Proxy!AppendLoad
<1>4. ASSUME NEW w \in Writers, Proxy!AppendStore(w) PROVE Proxy!TypeOK'
  <2>1. PICK v \in Proxy!Racing(w) : Data' = Append(view[w], Proxy!EntryOf(v))
    BY <1>4 DEF Proxy!AppendStore
  <2>2. v \in Writers
    BY DEF Proxy!Racing
  <2>3. Proxy!EntryOf(v) \in Proxy!EntryType /\ Proxy!EntryOf(w) \in Proxy!EntryType
    BY <2>2, EntryHasType
  <2>4. Data' \in Seq(Proxy!EntryType)
    BY <2>1, <2>3, AppendProperties
  <2> QED
    BY <1>4, <2>3, <2>4 DEF Proxy!AppendStore
<1>5. ASSUME NEW c \in Walkers \cup Visitors, NEW o \in Int, Proxy!ReadBegin(c, o)
      PROVE  Proxy!TypeOK'
  <2>1. Len(Data) \in Nat
    BY LenProperties
  <2> QED
    BY <1>5, <2>1 DEF Proxy!ReadBegin
<1>6. ASSUME NEW c \in Walkers \cup Visitors, Proxy!ReadEntry(c) PROVE Proxy!TypeOK'
  <2>1. CASE roffset[c] \in 0 .. Len(Data) - 1
    <3>1. roffset[c] + 1 \in 1 .. Len(Data) /\ Proxy!NextOffset(c) \in Nat
      BY <2>1, LenProperties DEF Proxy!NextOffset
    <3>2. Data[roffset[c] + 1] \in Proxy!EntryType
      BY <3>1, ElementOfSeq
    <3>3. seen' \in [Walkers \cup Visitors -> SUBSET Proxy!EntryType]
      <4> DEFINE all == seen[c] \cup {Data[roffset[c] + 1]}
      <4>1. seen[c] \subseteq Proxy!EntryType /\ c \in Proxy!Readers
        OBVIOUS
      <4>2. all \in SUBSET Proxy!EntryType
        BY <3>2, <4>1
      <4>3. seen' = [seen EXCEPT ![c] = all]
        BY <1>6, <2>1 DEF Proxy!ReadEntry
      <4> HIDE DEF all
      <4> QED
        BY <4>2, <4>3
    <3>4. /\ next' \in [Walkers \cup Visitors -> Nat]
          /\ status' \in [Walkers \cup Visitors -> {"none", "200", "400", "panic"}]
      BY <1>6, <2>1, <3>1 DEF Proxy!ReadEntry
    <3> QED
      BY <1>6, <2>1, <3>3, <3>4 DEF Proxy!ReadEntry
  <2>2. CASE roffset[c] \notin 0 .. Len(Data) - 1
    BY <1>6, <2>2 DEF Proxy!ReadEntry
  <2> QED
    BY <2>1, <2>2
<1>7. CASE UNCHANGED Proxy!vars
  BY <1>7 DEF Proxy!vars
<1>8. \A c \in Walkers : next[c] \in Int
  OBVIOUS
<1>9. Offsets \subseteq Int
  BY DEF Proxy!ProxyAssumption
<1> QED
  BY <1>1, <1>2, <1>3, <1>4, <1>5, <1>6, <1>7, <1>8, <1>9
     DEF Proxy!Next, Proxy!WriteStep, Proxy!WalkStep


(* With one writer the list only grows, at its end, by the entry that is
   answered with its offset. *)
LEMMA ProxyStep ==
  ASSUME Proxy!ProxyAssumption, OneWriter, ProxyInvariant, [Proxy!Next]_(Proxy!vars)
  PROVE  /\ ProxyInvariant'
         /\ [Proxy!Log!LogNext]_Data
<1>1. Proxy!TypeOK /\ Proxy!TypeOK'
  BY ProxyTypes DEF ProxyInvariant
<1>2. Len(Data) \in Nat
  BY <1>1, LenProperties DEF Proxy!TypeOK
<1> DEFINE Quiet == /\ WritesAtTheEnd' /\ ReadsInside'
                    /\ Proxy!WrittenAtItsOffset' /\ Proxy!OnlyNegativePanics'
                    /\ [Proxy!Log!LogNext]_Data
<1> USE DEF ProxyInvariant, Proxy!Readers, Proxy!readVars, Proxy!writeVars
<1>3. ASSUME NEW w \in Writers, NEW r \in Requests, Proxy!WriteBegin(w, r) PROVE Quiet
  BY <1>1, <1>3 DEF Proxy!WriteBegin, Proxy!TypeOK, WritesAtTheEnd, ReadsInside,
                    Proxy!WrittenAtItsOffset, Proxy!OnlyNegativePanics
<1>4. ASSUME NEW w \in Writers, Proxy!BodyError(w) \/ Proxy!AppendLoad(w) PROVE Quiet
  BY <1>1, <1>4 DEF Proxy!BodyError, Proxy!AppendLoad, Proxy!TypeOK, WritesAtTheEnd, ReadsInside,
                    Proxy!WrittenAtItsOffset, Proxy!OnlyNegativePanics
<1>5. ASSUME NEW w \in Writers, Proxy!AppendStore(w) PROVE Quiet
  <2> DEFINE new == Proxy!EntryOf(w)
  <2>1. Data' = Append(Data, new)
    <3>1. PICK v \in Proxy!Racing(w) : Data' = Append(view[w], Proxy!EntryOf(v))
      BY <1>5 DEF Proxy!AppendStore
    <3>2. v = w
      BY OneWriter DEF Proxy!Racing, OneWriter
    <3> QED
      BY <1>5, <3>1, <3>2 DEF Proxy!AppendStore, WritesAtTheEnd
  <2>2. /\ new \in Proxy!EntryType /\ new.index = Len(Data) /\ request[w] \in Requests
        /\ new = [index |-> Len(Data), payload |-> request[w]]
    BY <1>1, <1>5, EntryHasType
       DEF Proxy!AppendStore, WritesAtTheEnd, Proxy!EntryOf, Proxy!StoreEntry, Proxy!TypeOK
  <2> HIDE DEF new
  <2>3. /\ Len(Data') = Len(Data) + 1 /\ Data'[Len(Data) + 1] = new
        /\ \A i \in 1 .. Len(Data) : Data'[i] = Data[i]
    BY <1>1, <2>1, <2>2, AppendProperties DEF Proxy!TypeOK
  <2>4. acked' = acked \cup {new} /\ wpc' = [wpc EXCEPT ![w] = "idle"]
        /\ UNCHANGED <<offset, view, rpc, roffset, count, status>>
    BY <1>5 DEF Proxy!AppendStore, new
  <2>5. WritesAtTheEnd'
    BY <1>1, <2>4 DEF OneWriter, WritesAtTheEnd, Proxy!TypeOK
  <2>6. ReadsInside'
    BY <1>1, <1>2, <2>3, <2>4 DEF ReadsInside, Proxy!TypeOK
  <2>7. Proxy!WrittenAtItsOffset'
    <3> SUFFICES ASSUME NEW e \in acked' PROVE e.index < Len(Data') /\ Data'[e.index + 1] = e
      BY DEF Proxy!WrittenAtItsOffset
    <3>1. CASE e \in acked
      <4>1. e.index \in Nat /\ e.index < Len(Data) /\ Data[e.index + 1] = e
        BY <1>1, <3>1 DEF Proxy!WrittenAtItsOffset, Proxy!TypeOK, Proxy!EntryType
      <4>2. e.index + 1 \in 1 .. Len(Data)
        BY <1>2, <4>1
      <4> QED
        BY <1>2, <2>3, <4>1, <4>2
    <3>2. CASE e = new
      BY <1>2, <2>2, <2>3, <3>2
    <3> QED
      BY <2>4, <3>1, <3>2
  <2>8. Proxy!OnlyNegativePanics'
    BY <2>4 DEF Proxy!OnlyNegativePanics
  <2>9. Proxy!Log!LogNext
    BY <2>1, <2>2 DEF Proxy!Log!LogNext, Proxy!Log!Add, Proxy!Log!Entry
  <2> QED
    BY <2>5, <2>6, <2>7, <2>8, <2>9
<1>6. ASSUME NEW c \in Walkers \cup Visitors, NEW o \in Int, Proxy!ReadBegin(c, o) PROVE Quiet
  <2>1. ReadsInside'
    BY <1>1, <1>2, <1>6 DEF Proxy!ReadBegin, Proxy!TypeOK, ReadsInside
  <2>2. Proxy!OnlyNegativePanics'
    BY <1>1, <1>6 DEF Proxy!ReadBegin, Proxy!TypeOK, Proxy!OnlyNegativePanics
  <2> QED
    BY <1>6, <2>1, <2>2 DEF Proxy!ReadBegin, WritesAtTheEnd, Proxy!WrittenAtItsOffset
<1>7. ASSUME NEW c \in Walkers \cup Visitors, Proxy!ReadEntry(c) PROVE Quiet
  <2>1. ReadsInside'
    BY <1>1, <1>7 DEF Proxy!ReadEntry, Proxy!TypeOK, ReadsInside
  <2>2. Proxy!OnlyNegativePanics'
    <3>1. roffset[c] \notin 0 .. Len(Data) - 1 => roffset[c] < 0
      BY <1>1, <1>2, <1>7 DEF Proxy!ReadEntry, Proxy!TypeOK, ReadsInside
    <3> QED
      BY <1>1, <1>7, <3>1 DEF Proxy!ReadEntry, Proxy!TypeOK, Proxy!OnlyNegativePanics
  <2> QED
    BY <1>7, <2>1, <2>2 DEF Proxy!ReadEntry, WritesAtTheEnd, Proxy!WrittenAtItsOffset
<1>8. ASSUME UNCHANGED Proxy!vars PROVE Quiet
  <2>1. WritesAtTheEnd' /\ ReadsInside' /\ UNCHANGED Data
    BY <1>8 DEF Proxy!vars, WritesAtTheEnd, ReadsInside
  <2>2. Proxy!WrittenAtItsOffset'
    BY <1>8 DEF Proxy!vars, Proxy!WrittenAtItsOffset
  <2>3. Proxy!OnlyNegativePanics'
    BY <1>8 DEF Proxy!vars, Proxy!OnlyNegativePanics
  <2>4. [Proxy!Log!LogNext]_Data
    BY <2>1
  <2> QED
    BY <2>1, <2>2, <2>3, <2>4
<1>9. /\ \A c \in Walkers : next[c] \in Int
      /\ Offsets \subseteq Int
  BY <1>1 DEF Proxy!ProxyAssumption, Proxy!TypeOK
<1>10. Quiet
  BY <1>3, <1>4, <1>5, <1>6, <1>7, <1>8, <1>9
     DEF Proxy!Next, Proxy!WriteStep, Proxy!WalkStep
<1> QED
  BY <1>1, <1>10

(* Every variable of the store and of the handlers that use it keeps its type,
   for any number of writers and readers, racing or not (store.go:45). *)
THEOREM Proxy_TypeCorrect ==
  ASSUME Proxy!ProxyAssumption
  PROVE  Proxy!Spec => []Proxy!TypeOK
<1>1. Proxy!Init => Proxy!TypeOK
  BY ProxyInit DEF ProxyInvariant
<1>2. Proxy!TypeOK /\ [Proxy!Next]_(Proxy!vars) => Proxy!TypeOK'
  BY ProxyTypes
<1> QED
  BY <1>1, <1>2, PTL DEF Proxy!Spec

(* While one request is written at a time, what is read at the offset that a
   write was answered with is what it wrote, and a read makes its handler
   panic only at a negative offset (store.go:66, 96). *)
THEOREM Proxy_IsInvariant ==
  ASSUME Proxy!ProxyAssumption, OneWriter
  PROVE  Proxy!Spec => []ProxyInvariant
<1>1. Proxy!Init => ProxyInvariant
  BY ProxyInit
<1>2. ProxyInvariant /\ [Proxy!Next]_(Proxy!vars) => ProxyInvariant'
  BY ProxyStep
<1> QED
  BY <1>1, <1>2, PTL DEF Proxy!Spec

(* While one request is written at a time, the store is an append-only log in
   which every entry carries its own offset, whoever reads meanwhile
   (store.go:66). *)
THEOREM Proxy_ImplementsLog ==
  ASSUME Proxy!ProxyAssumption, OneWriter
  PROVE  Proxy!FairSpec => Proxy!ImplementsLog
<1>1. Proxy!Init => Proxy!Log!LogInit
  BY DEF Proxy!Init, Proxy!Log!LogInit
<1>2. ProxyInvariant /\ [Proxy!Next]_(Proxy!vars) => [Proxy!Log!LogNext]_Data
  BY ProxyStep
<1> QED
  BY <1>1, <1>2, Proxy_IsInvariant, PTL
     DEF Proxy!FairSpec, Proxy!Spec, Proxy!ImplementsLog, Proxy!Log!LogSpec

==============================================================================
