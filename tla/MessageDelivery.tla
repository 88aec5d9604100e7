-------------------------- MODULE MessageDelivery --------------------------
(***************************************************************************)
(* Outgoing direct messages of the backend: send_text (persist, send, mark *)
(* sent), the confirmations the radio pushes (SendConfirmed), recordAck    *)
(* and its store update, and wait_ack.  One caller per message; the radio  *)
(* lock is held from the persist to the mark and during the wait.          *)
(*                                                                         *)
(* Every message has its own ack code, so a code is named by its message.  *)
(* A statement of the store is one step; AppendAck is two (SELECT, then    *)
(* UPDATE), outside a transaction.                                         *)
(***************************************************************************)
EXTENDS Naturals, Sequences

CONSTANTS
  Messages,         \* outgoing messages
  NoMessage,        \* the radio lock is free
  AckBuffer,        \* capacity of Client.acks (16 in the code)
  MaxAcks,          \* bound: confirmations of one message (mesh paths)
  MaxStoreFailures  \* bound: store statements that fail

AckIds == 1..MaxAcks
Statuses == {"none", "queued", "sent", "delivered", "unconfirmed", "failed"}

VARIABLES
  pc,         \* caller: idle | lock | send | mark | sent | waitlock | wait | done
  radio,      \* message whose caller holds the radio lock
  onAir,      \* the radio has accepted the message
  confirmed,  \* SendConfirmed pushes handled so far
  acks,       \* Client.acks
  status,     \* messages.status, none when there is no row
  coded,      \* messages.ack_code is set
  receptions, \* messages.receptions: the confirmations recorded
  rec,        \* recordAck goroutines: none | select | update | done
  snap,       \* receptions each of them has read
  result,     \* what wait_ack returned: none | acked | timeout
  early,      \* history: confirmations that came before ack_code was set
  failures    \* store statements that failed

callVars  == <<pc, radio, result>>
storeVars == <<status, coded, receptions>>
recVars   == <<rec, snap>>
ackVars   == <<confirmed, acks, early>>
vars == <<callVars, onAir, ackVars, storeVars, recVars, failures>>

Init ==
  /\ pc = [m \in Messages |-> "idle"]
  /\ radio = NoMessage
  /\ onAir = [m \in Messages |-> FALSE]
  /\ confirmed = [m \in Messages |-> 0]
  /\ acks = <<>>
  /\ status = [m \in Messages |-> "none"]
  /\ coded = [m \in Messages |-> FALSE]
  /\ receptions = [m \in Messages |-> {}]
  /\ rec = [m \in Messages |-> [n \in AckIds |-> "none"]]
  /\ snap = [m \in Messages |-> [n \in AckIds |-> {}]]
  /\ result = [m \in Messages |-> "none"]
  /\ early = [m \in Messages |-> {}]
  /\ failures = 0

Goto(m, where) == pc' = [pc EXCEPT ![m] = where]

StoreFails ==
  /\ failures < MaxStoreFailures
  /\ failures' = failures + 1
-----------------------------------------------------------------------------
(* send_text                                                               *)

SendText(m) ==
  /\ pc[m] = "idle"
  /\ Goto(m, "lock")
  /\ UNCHANGED <<radio, result, onAir, ackVars, storeVars, recVars, failures>>

\* persistOutgoing; when the insert fails the message is sent all the same,
\* with row id 0.
Persist(m) ==
  /\ pc[m] = "lock"
  /\ radio = NoMessage
  /\ radio' = m
  /\ Goto(m, "send")
  /\ \/ status' = [status EXCEPT ![m] = "queued"] /\ UNCHANGED failures
     \/ StoreFails /\ UNCHANGED status
  /\ UNCHANGED <<result, onAir, ackVars, coded, receptions, recVars>>

\* SendTextToContact returns the receipt.
SendOk(m) ==
  /\ pc[m] = "send"
  /\ onAir[m]
  /\ Goto(m, "mark")
  /\ UNCHANGED <<radio, result, onAir, ackVars, storeVars, recVars, failures>>

\* setMessageStatus with id 0 does nothing.
SetStatus(m, s) == [status EXCEPT ![m] = IF @ = "none" THEN @ ELSE s]

\* The request failed or timed out, possibly after the radio took it.
SendErr(m) ==
  /\ pc[m] = "send"
  /\ Goto(m, "done")
  /\ radio' = NoMessage
  /\ \/ status' = SetStatus(m, "failed") /\ UNCHANGED failures
     \/ StoreFails /\ UNCHANGED status
  /\ UNCHANGED <<result, onAir, ackVars, coded, receptions, recVars>>

\* setMessageStatus(id, sent, code); then the lock is released.
MarkSent(m) ==
  /\ pc[m] = "mark"
  /\ Goto(m, "sent")
  /\ radio' = NoMessage
  /\ \/ /\ status' = SetStatus(m, "sent")
        /\ coded' = [coded EXCEPT ![m] = status[m] # "none"]
        /\ UNCHANGED failures
     \/ StoreFails /\ UNCHANGED <<status, coded>>
  /\ UNCHANGED <<result, onAir, ackVars, receptions, recVars>>
-----------------------------------------------------------------------------
(* wait_ack                                                                *)

WaitAck(m) ==
  /\ pc[m] = "sent"
  /\ Goto(m, "waitlock")
  /\ UNCHANGED <<radio, result, onAir, ackVars, storeVars, recVars, failures>>

WaitLock(m) ==
  /\ pc[m] = "waitlock"
  /\ radio = NoMessage
  /\ radio' = m
  /\ Goto(m, "wait")
  /\ UNCHANGED <<result, onAir, ackVars, storeVars, recVars, failures>>

\* The waiter takes whatever code comes and throws away those of others.
TakeAck(m) ==
  /\ pc[m] = "wait"
  /\ acks # <<>>
  /\ acks' = Tail(acks)
  /\ IF Head(acks) = m
     THEN /\ Goto(m, "done")
          /\ radio' = NoMessage
          /\ result' = [result EXCEPT ![m] = "acked"]
     ELSE UNCHANGED callVars
  /\ UNCHANGED <<onAir, confirmed, early, storeVars, recVars, failures>>

\* Faulty variant: the status is not looked at.
WaitTimeout_Overwrites(m) ==
  /\ pc[m] = "wait"
  /\ Goto(m, "done")
  /\ radio' = NoMessage
  /\ result' = [result EXCEPT ![m] = "timeout"]
  /\ status' = [status EXCEPT ![m] = IF coded[m] THEN "unconfirmed" ELSE @]
  /\ UNCHANGED <<onAir, ackVars, coded, receptions, recVars, failures>>

\* Faulty variant: the error return forgets the radio lock.
WaitTimeout_KeepsRadio(m) ==
  /\ pc[m] = "wait"
  /\ Goto(m, "done")
  /\ result' = [result EXCEPT ![m] = "timeout"]
  /\ status' = [status EXCEPT ![m] = IF @ = "sent" THEN "unconfirmed" ELSE @]
  /\ UNCHANGED <<radio, onAir, ackVars, coded, receptions, recVars, failures>>

\* The window elapses or the client closes; markUnconfirmed touches only a
\* row that has the code and is still sent.
WaitTimeout(m) ==
  /\ pc[m] = "wait"
  /\ Goto(m, "done")
  /\ radio' = NoMessage
  /\ result' = [result EXCEPT ![m] = "timeout"]
  /\ \/ /\ status' = [status EXCEPT ![m] =
             IF coded[m] /\ @ = "sent" THEN "unconfirmed" ELSE @]
        /\ UNCHANGED failures
     \/ StoreFails /\ UNCHANGED status
  /\ UNCHANGED <<onAir, ackVars, coded, receptions, recVars>>
-----------------------------------------------------------------------------
(* recordAck and AppendAck                                                 *)

\* Faulty variant: only rows that are still sent are looked up.
AppendAckSelect_OnlySent(m, n) ==
  /\ rec[m][n] = "select"
  /\ LET found == coded[m] /\ status[m] = "sent"
     IN  /\ rec' = [rec EXCEPT ![m][n] = IF found THEN "update" ELSE "done"]
         /\ snap' = [snap EXCEPT ![m][n] = IF found THEN receptions[m] ELSE @]
  /\ UNCHANGED <<callVars, onAir, ackVars, storeVars, failures>>

\* SELECT id, receptions ... WHERE ack_code = ?; without a row the
\* confirmation is forgotten.
AppendAckSelect(m, n) ==
  /\ rec[m][n] = "select"
  /\ \/ /\ coded[m]
        /\ rec' = [rec EXCEPT ![m][n] = "update"]
        /\ snap' = [snap EXCEPT ![m][n] = receptions[m]]
        /\ UNCHANGED failures
     \/ /\ ~coded[m]
        /\ rec' = [rec EXCEPT ![m][n] = "done"]
        /\ UNCHANGED <<snap, failures>>
     \/ /\ StoreFails
        /\ rec' = [rec EXCEPT ![m][n] = "done"]
        /\ UNCHANGED snap
  /\ UNCHANGED <<callVars, onAir, ackVars, storeVars>>

\* UPDATE ... SET receptions = what was read, plus this one.
AppendAckUpdate(m, n) ==
  /\ rec[m][n] = "update"
  /\ rec' = [rec EXCEPT ![m][n] = "done"]
  /\ \/ /\ status' = [status EXCEPT ![m] = "delivered"]
        /\ receptions' = [receptions EXCEPT ![m] = snap[m][n] \union {n}]
        /\ UNCHANGED failures
     \/ StoreFails /\ UNCHANGED <<status, receptions>>
  /\ UNCHANGED <<callVars, onAir, ackVars, coded, snap>>
-----------------------------------------------------------------------------
(* The radio (external) and handleAsync                                    *)

RadioAccepts(m) ==
  /\ pc[m] = "send"
  /\ ~onAir[m]
  /\ onAir' = [onAir EXCEPT ![m] = TRUE]
  /\ UNCHANGED <<callVars, ackVars, storeVars, recVars, failures>>

\* select { case c.acks <- code: default: }
Offer(m) == IF Len(acks) < AckBuffer THEN Append(acks, m) ELSE acks

\* A SendConfirmed push: the code goes to Client.acks unless that is full,
\* and observeEvent starts a recordAck goroutine.
SendConfirmed(m) ==
  LET n == confirmed[m] + 1
  IN  /\ onAir[m]
      /\ confirmed[m] < MaxAcks
      /\ confirmed' = [confirmed EXCEPT ![m] = n]
      /\ acks' = Offer(m)
      /\ rec' = [rec EXCEPT ![m][n] = "select"]
      /\ early' = [early EXCEPT ![m] = IF coded[m] THEN @ ELSE @ \union {n}]
      /\ UNCHANGED <<callVars, onAir, storeVars, snap, failures>>
-----------------------------------------------------------------------------
CallStep(m) ==
  \/ Persist(m) \/ SendOk(m) \/ SendErr(m) \/ MarkSent(m) \/ WaitLock(m)
  \/ TakeAck(m) \/ WaitTimeout(m)

RecordStep(m, n) == AppendAckSelect(m, n) \/ AppendAckUpdate(m, n)

Next ==
  \E m \in Messages :
    \/ SendText(m)
    \/ WaitAck(m)
    \/ CallStep(m)
    \/ \E n \in AckIds : RecordStep(m, n)
    \/ RadioAccepts(m)
    \/ SendConfirmed(m)

Spec == Init /\ [][Next]_vars

(***************************************************************************)
(* Requests and waits have deadlines, goroutines keep running, and a free  *)
(* mutex is given to some waiter.  Nothing is assumed of the radio.        *)
(***************************************************************************)
Fairness ==
  /\ WF_vars(\E m \in Messages : Persist(m) \/ WaitLock(m))
  /\ \A m \in Messages : WF_vars(SendErr(m) \/ MarkSent(m) \/ WaitTimeout(m))

FairSpec == Spec /\ Fairness
-----------------------------------------------------------------------------
(* Properties                                                              *)

\* Types of the variables; the ack channel within its capacity.
TypeOK ==
  /\ pc \in [Messages -> {"idle", "lock", "send", "mark", "sent", "waitlock",
                          "wait", "done"}]
  /\ radio \in Messages \union {NoMessage}
  /\ onAir \in [Messages -> BOOLEAN]
  /\ confirmed \in [Messages -> 0..MaxAcks]
  /\ acks \in Seq(Messages)
  /\ Len(acks) <= AckBuffer
  /\ status \in [Messages -> Statuses]
  /\ coded \in [Messages -> BOOLEAN]
  /\ receptions \in [Messages -> SUBSET AckIds]
  /\ rec \in [Messages -> [AckIds -> {"none", "select", "update", "done"}]]
  /\ snap \in [Messages -> [AckIds -> SUBSET AckIds]]
  /\ result \in [Messages -> {"none", "acked", "timeout"}]
  /\ early \in [Messages -> SUBSET AckIds]
  /\ failures \in 0..MaxStoreFailures

\* A message is shown as delivered only if the radio confirmed this very
\* message, and what its row records are confirmations of it.
DeliveredIsConfirmed ==
  \A m \in Messages :
    /\ status[m] = "delivered" <=> receptions[m] # {}
    /\ receptions[m] \subseteq 1..confirmed[m]

\* delivered is final: neither the mark after the send nor the end of a wait
\* takes it back, however they interleave with recordAck.
DeliveredIsFinal ==
  [][\A m \in Messages :
       status[m] = "delivered" => status'[m] = "delivered"]_vars

\* No recordAck of m is running.
Settled(m) == \A n \in AckIds : rec[m][n] \in {"none", "done"}

\* server.go: "If an ack does arrive later, the async MessageAcknowledged path
\* still records it and marks the message delivered": a confirmation that
\* comes once the code is stored is never lost for the status, even after the
\* wait has given up or when several are recorded at once.
LateAckDelivers ==
  \A m \in Messages :
    /\ failures = 0
    /\ Settled(m)
    /\ 1..confirmed[m] \ early[m] # {}
    => status[m] = "delivered"

\* Both, over well-typed states: a message is shown as delivered exactly when a
\* confirmation of it has been recorded, and every confirmation with a code to
\* match is.
DeliveryIsTrue == TypeOK /\ DeliveredIsConfirmed /\ LateAckDelivers

\* Every send_text and every wait_ack returns: no caller is for ever at a lock,
\* a request or a wait (none goes back to idle).
CallerReturns ==
  \A m \in Messages : []<>(pc[m] \in {"idle", "sent", "done"})

\* messages.go: "Called for every SendConfirmed, so repeated acks accumulate".
AcksAccumulate ==
  \A m \in Messages :
    failures = 0 /\ Settled(m) =>
      1..confirmed[m] \ early[m] \subseteq receptions[m]
=============================================================================
