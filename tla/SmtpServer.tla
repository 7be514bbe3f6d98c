----------------------------- MODULE SmtpServer -----------------------------
(***************************************************************************)
(* The mock SMTP server: internal/smtp/server.go, and the HTTP handler of  *)
(* internal/smtp/http.go that adds a message.  Parsing the messages, and   *)
(* the handlers that look them up, are in SmtpHttp.                        *)
(*                                                                         *)
(* go-smtp runs every connection in a goroutine of its own and calls the   *)
(* session's Mail, Rcpt, Data and Reset one after the other, with a Reset  *)
(* after every Data, failed or not, and a Logout when the client leaves.   *)
(* It passes on a MAIL in the middle of a transaction: this abandons the   *)
(* transaction, but the session keeps the recipients.  net/http runs the   *)
(* HTTP handlers.  All of them share the list of received messages, under  *)
(* a mutex.                                                                *)
(*                                                                         *)
(* Mail transactions and posted messages are numbered, and the number      *)
(* stands for the body of the message.                                     *)
(***************************************************************************)
EXTENDS Integers, SequencesExt

CONSTANTS
  Sessions,     \* SMTP connections
  Addresses,    \* senders and recipients
  NoAddress,    \* the empty string
  MaxMessages,  \* bound on the transactions begun
  MaxRcpts      \* bound on the recipients of one transaction

ASSUME SmtpAssumption == /\ NoAddress \notin Addresses
                         /\ MaxMessages \in Nat /\ MaxRcpts \in Nat \ {0}

VARIABLES
  receivedMessages,
  spc,       \* what go-smtp lets the session do next
  from,      \* session.from
  rcptTo,    \* session.rcptTo
  tx,        \* the transaction of each session
  begun,     \* number of transactions begun
  intent,    \* history: by number, the sender that was asked for, and the
             \* recipients named in the session since it was last reset
  accepted   \* history: the numbers of the messages that were acknowledged

sessionVars == <<spc, from, rcptTo, tx>>
vars == <<receivedMessages, sessionVars, begun, intent, accepted>>

Envelope(f, to) == [from |-> f, to |-> to]

Payload(f, to, n) == [from |-> f, to |-> to, body |-> n]

Message(idx, p) == [index |-> idx, payload |-> p]

Init ==
  /\ receivedMessages = << >>
  /\ spc = [s \in Sessions |-> "ready"]
  /\ from = [s \in Sessions |-> NoAddress]
  /\ rcptTo = [s \in Sessions |-> << >>]
  /\ tx = [s \in Sessions |-> 0]
  /\ begun = 0
  /\ intent = << >>
  /\ accepted = {}

(***************************************************************************)
(* SMTP sessions                                                           *)
(***************************************************************************)

(* The recipients that the client of s has named since the last Reset. *)
Named(s) == IF spc[s] = "ready" THEN << >> ELSE intent[tx[s]].to

(* Mail sets the sender, and nothing else: recipients stay. *)
Mail(s, a) ==
  /\ spc[s] \in {"ready", "mail", "rcpt"}
  /\ begun < MaxMessages
  /\ begun' = begun + 1
  /\ tx' = [tx EXCEPT ![s] = begun + 1]
  /\ from' = [from EXCEPT ![s] = a]
  /\ intent' = Append(intent, Envelope(a, Named(s)))
  /\ spc' = [spc EXCEPT ![s] = IF rcptTo[s] = << >> THEN "mail" ELSE "rcpt"]
  /\ UNCHANGED <<receivedMessages, rcptTo, accepted>>

Rcpt(s, a) ==
  /\ spc[s] \in {"mail", "rcpt"}
  /\ Len(rcptTo[s]) < MaxRcpts
  /\ rcptTo' = [rcptTo EXCEPT ![s] = Append(@, a)]
  /\ intent' = [intent EXCEPT ![tx[s]].to = Append(@, a)]
  /\ spc' = [spc EXCEPT ![s] = "rcpt"]
  /\ UNCHANGED <<receivedMessages, from, tx, begun, accepted>>

(* Data reads the message without holding the mutex; the connection may
   break. *)
DataRead(s) ==
  /\ spc[s] = "rcpt"
  /\ \E next \in {"data", "reset"} : spc' = [spc EXCEPT ![s] = next]
  /\ UNCHANGED <<receivedMessages, from, rcptTo, tx, begun, intent, accepted>>

(* The rest of Data, under the mutex. *)
DataAppend(s) ==
  /\ spc[s] = "data"
  /\ receivedMessages' = Append(receivedMessages,
       Message(Len(receivedMessages), Payload(from[s], rcptTo[s], tx[s])))
  /\ accepted' = accepted \cup {tx[s]}
  /\ spc' = [spc EXCEPT ![s] = "reset"]
  /\ UNCHANGED <<from, rcptTo, tx, begun, intent>>

(* Mutant: the message is acknowledged although it was not kept. *)
DataParseError_Acknowledged(s) ==
  /\ spc[s] = "data"
  /\ accepted' = accepted \cup {tx[s]}
  /\ spc' = [spc EXCEPT ![s] = "reset"]
  /\ UNCHANGED <<receivedMessages, from, rcptTo, tx, begun, intent>>

(* newReceivedMessage cannot parse the message: it is not kept. *)
DataParseError(s) ==
  /\ spc[s] = "data"
  /\ spc' = [spc EXCEPT ![s] = "reset"]
  /\ UNCHANGED <<receivedMessages, from, rcptTo, tx, begun, intent, accepted>>

(* Mutant: the recipients stay. *)
Reset_KeepsRecipients(s) ==
  /\ spc[s] \in {"mail", "rcpt", "reset"}
  /\ from' = [from EXCEPT ![s] = NoAddress]
  /\ spc' = [spc EXCEPT ![s] = "ready"]
  /\ UNCHANGED <<receivedMessages, rcptTo, tx, begun, intent, accepted>>

(* After DATA, by RSET, or by Logout when the client leaves; a new connection
   starts with an empty session as well. *)
Reset(s) ==
  /\ spc[s] \in {"mail", "rcpt", "reset"}
  /\ from' = [from EXCEPT ![s] = NoAddress]
  /\ rcptTo' = [rcptTo EXCEPT ![s] = << >>]
  /\ spc' = [spc EXCEPT ![s] = "ready"]
  /\ UNCHANGED <<receivedMessages, tx, begun, intent, accepted>>

(***************************************************************************)
(* HTTP handlers                                                           *)
(***************************************************************************)

(* Mutant: the index stays 0. *)
AppendMessage_KeepsIndex(p) == receivedMessages' = Append(receivedMessages, Message(0, p))

AppendMessage(p) ==
  receivedMessages' = Append(receivedMessages, Message(Len(receivedMessages), p))

(* handlePostMessage with a message that can be parsed; any other one is
   refused and changes nothing.  The envelope is taken from the headers. *)
PostMessage(f, to) ==
  /\ begun < MaxMessages
  /\ begun' = begun + 1
  /\ intent' = Append(intent, Envelope(f, <<to>>))
  /\ AppendMessage(Payload(f, <<to>>, begun + 1))
  /\ accepted' = accepted \cup {begun + 1}
  /\ UNCHANGED sessionVars

SessionStep(s) ==
  \/ \E a \in Addresses : Mail(s, a) \/ Rcpt(s, a)
  \/ DataRead(s) \/ DataAppend(s) \/ DataParseError(s) \/ Reset(s)

Next ==
  \/ \E s \in Sessions : SessionStep(s)
  \/ \E f, to \in Addresses : PostMessage(f, to)

Spec == Init /\ [][Next]_vars

(***************************************************************************)
(* Properties                                                              *)
(***************************************************************************)

Bodies == 1 .. MaxMessages

Recipients == UNION {[1 .. n -> Addresses] : n \in 0 .. MaxRcpts}

EnvelopeType == [from: Addresses, to: Recipients]
PayloadType  == [from: Addresses, to: Recipients, body: Bodies]
MessageType  == [index: Nat, payload: PayloadType]

(* Every variable of the SMTP server and its sessions keeps its type. *)
TypeOK ==
  /\ receivedMessages \in Seq(MessageType)
  /\ spc \in [Sessions -> {"ready", "mail", "rcpt", "data", "reset"}]
  /\ from \in [Sessions -> Addresses \cup {NoAddress}]
  /\ rcptTo \in [Sessions -> Recipients]
  /\ tx \in [Sessions -> 0 .. MaxMessages]
  /\ begun \in 0 .. MaxMessages
  /\ intent \in Seq(EnvelopeType) /\ Len(intent) = begun
  /\ accepted \subseteq Bodies

(* server.go:71,139: SMTP sessions and HTTP posts together keep one
   append-only list in which every message carries its own position. *)
Log == INSTANCE AppendLog WITH Payloads <- PayloadType, entries <- receivedMessages
ImplementsLog == Log!LogSpec

(* server.go:162,176: a stored message has the sender of its own MAIL and exactly
   the recipients that its client has named since the last Reset: those of its
   own transaction, after those of the ones abandoned by another MAIL without
   RSET.  Whatever else was sent on the connection, or on another, is not in it. *)
EnvelopeIntact ==
  \A i \in DOMAIN receivedMessages :
    LET p == receivedMessages[i].payload
    IN  intent[p.body] = Envelope(p.from, p.to)

(* server.go:147: the messages in the list are those that were acknowledged,
   each of them once. *)
AcceptedIsStored ==
  /\ {receivedMessages[i].payload.body : i \in DOMAIN receivedMessages} = accepted
  /\ \A i, j \in DOMAIN receivedMessages :
       receivedMessages[i].payload.body = receivedMessages[j].payload.body => i = j
=============================================================================
