----------------------------- MODULE MCMessages -----------------------------
(***************************************************************************)
(* The three ways of a message through the backend, one at a time: events  *)
(* to the subscribers (Dispatcher), received mail to the store (Inbox) and *)
(* sent messages with their confirmations (MessageDelivery).  Which one a  *)
(* behaviour is about is chosen at the start; the others stay in Init.     *)
(***************************************************************************)
EXTENDS Dispatcher

CONSTANTS
  EventBuffer, MaxMail, MaxRepeats, MaxExecs, MaxReads, Peers, MaxRelabels,
  MaxFailures,                                                \* Inbox
  Messages, NoMessage, AckBuffer, MaxAcks, MaxStoreFailures  \* MessageDelivery

ASSUME MCMessagesAssumption ==
  /\ EventBuffer \in Nat \ {0}
  /\ {MaxMail, MaxRepeats, MaxExecs, MaxReads} \subseteq Nat
  /\ {MaxRelabels, MaxFailures} \subseteq Nat
  /\ Peers # {}
  /\ NoMessage \notin Messages
  /\ {AckBuffer, MaxAcks, MaxStoreFailures} \subseteq Nat

VARIABLES
  which,
  inbox, drainReq, radio, dpc, epc, hand, batch, events, peer, relabels,
  stored, unread, broadcast, mail, repeats, execs, asked, replied, reads,
  handed, execTook, failures,
  pc, sendRadio, onAir, confirmed, acks, status, coded, receptions, rec, snap,
  result, early, storeFailures

Mail == INSTANCE Inbox
Sending == INSTANCE MessageDelivery
             WITH radio <- sendRadio, failures <- storeFailures

mailVars == <<inbox, drainReq, radio, dpc, epc, hand, batch, events, peer,
              relabels, stored, unread, broadcast, mail, repeats, execs, asked,
              replied, reads, handed, execTook, failures>>
sendVars == <<pc, sendRadio, onAir, confirmed, acks, status, coded, receptions,
              rec, snap, result, early, storeFailures>>
mcVars == <<which, vars, mailVars, sendVars>>

MCInit ==
  /\ which \in {"events", "mail", "sending"}
  /\ Init /\ Mail!Init /\ Sending!Init

MCNext ==
  \/ which = "events" /\ Next /\ UNCHANGED <<which, mailVars, sendVars>>
  \/ which = "mail" /\ Mail!Next /\ UNCHANGED <<which, vars, sendVars>>
  \/ which = "sending" /\ Sending!Next /\ UNCHANGED <<which, vars, mailVars>>

\* Each component's own fairness.  Init enables a fair step of the drain loop
\* only, which is owed only when the mail is chosen.
MailFairness ==
  /\ WF_mailVars(which = "mail" /\ Mail!DrainWake)
  /\ WF_mailVars(which = "mail" /\ (Mail!DrainLock \/ Mail!ExecLock))
  /\ WF_mailVars(which = "mail" /\ Mail!DrainStep)
  /\ WF_mailVars(which = "mail" /\ Mail!ExecStep)
  /\ SF_mailVars(which = "mail" /\ Mail!ExecTimeout)

MCSpec ==
  /\ MCInit /\ [][MCNext]_mcVars
  /\ WF_vars(EmitStep) /\ MailFairness /\ Sending!Fairness

-----------------------------------------------------------------------------
(* The components' properties; the dispatcher's have their own names.      *)

\* messages.go, server.go (Inbox): mail is not lost or shown unstored, and is
\* handed out once under every peer.
MailIsKept == which = "mail" => Mail!MailIsKept

\* messages.go (Inbox): no MSG_WAITING signal is lost.
InboxEmptied == Mail!InboxEmptied

\* repeaters.go (Inbox): repeater_exec returns.
ExecReturns == Mail!ExecReturns

\* messages.go, server.go (MessageDelivery): delivered means confirmed, and
\* every confirmation that can be matched delivers.
DeliveryIsTrue == which = "sending" => Sending!DeliveryIsTrue

\* messages.go (MessageDelivery): delivered is never taken back.
DeliveredIsFinal == Sending!DeliveredIsFinal

\* server.go (MessageDelivery): send_text and wait_ack return.
CallerReturns == Sending!CallerReturns
=============================================================================
