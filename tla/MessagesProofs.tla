--------------------------- MODULE MessagesProofs ---------------------------
(***************************************************************************)
(* Theorems about received mail (Inbox) and sent messages (MessageDelivery)*)
(* as MCMessages puts them together, for any number of messages, failures, *)
(* confirmations and requests and any capacity of the channels.            *)
(***************************************************************************)
EXTENDS MCMessages, TLAPS

-----------------------------------------------------------------------------
(* Sent messages                                                           *)

\* The code is stored after the send; only then can a message be delivered or
\* a recordAck have found its row.
CodeInv ==
  \A m \in Messages :
    /\ coded[m] => pc[m] \in {"sent", "waitlock", "wait", "done"}
    /\ status[m] = "delivered" => coded[m]
    /\ \A n \in Sending!AckIds : rec[m][n] = "update" => coded[m]

\* A recordAck is about a confirmation that has come, and has read confirmations
\* that have come.
RecordInv ==
  \A m \in Messages : \A n \in Sending!AckIds :
    /\ rec[m][n] # "none" => n <= confirmed[m]
    /\ snap[m][n] \subseteq 1..confirmed[m]

\* Unless a statement failed, a confirmation that came once the code was stored
\* is being recorded, or its message is delivered.
LateInv ==
  \A m \in Messages : \A n \in 1..confirmed[m] \ early[m] :
    /\ coded[m]
    /\ storeFailures = 0 =>
         rec[m][n] \in {"select", "update"} \/ status[m] = "delivered"

\* The inductive invariant for sent messages.
SendInv ==
  /\ Sending!TypeOK
  /\ CodeInv /\ RecordInv /\ LateInv
  /\ Sending!DeliveredIsConfirmed

\* No message has been sent yet.
LEMMA SendInit == Sending!Init => SendInv
  <1> SUFFICES ASSUME Sending!Init PROVE SendInv
    OBVIOUS
  <1> USE MCMessagesAssumption DEF Sending!Init, Sending!AckIds
  <1>1. Sending!TypeOK
    <2>1. acks \in Seq(Messages) /\ Len(acks) <= AckBuffer
      OBVIOUS
    <2>2. /\ rec \in [Messages -> [1..MaxAcks -> {"none", "select", "update", "done"}]]
          /\ snap \in [Messages -> [1..MaxAcks -> SUBSET (1..MaxAcks)]]
      OBVIOUS
    <2>3. onAir \in [Messages -> BOOLEAN] /\ coded \in [Messages -> BOOLEAN]
      OBVIOUS
    <2>4. confirmed \in [Messages -> 0..MaxAcks] /\ storeFailures \in 0..MaxStoreFailures
      OBVIOUS
    <2> QED
      BY <2>1, <2>2, <2>3, <2>4 DEF Sending!TypeOK, Sending!Statuses
  <1>2. CodeInv /\ RecordInv /\ LateInv /\ Sending!DeliveredIsConfirmed
    BY DEF CodeInv, RecordInv, LateInv, Sending!DeliveredIsConfirmed
  <1> QED
    BY <1>1, <1>2 DEF SendInv

\* A step of the composition is a step of this component or leaves it alone.
LEMMA SendingSteps == [MCNext]_mcVars => [Sending!Next]_(Sending!vars)
  <1> SUFFICES ASSUME [MCNext]_mcVars PROVE Sending!Next \/ UNCHANGED sendVars
    BY DEF sendVars, Sending!vars, Sending!callVars, Sending!ackVars,
           Sending!storeVars, Sending!recVars
  <1> QED
    BY DEF MCNext, mcVars

\* A store statement that fails is counted.
LEMMA StoreFailsCounts ==
  ASSUME storeFailures \in 0..MaxStoreFailures, Sending!StoreFails
  PROVE  storeFailures' \in 0..MaxStoreFailures /\ storeFailures' # 0
  BY MCMessagesAssumption DEF Sending!StoreFails

\* No step takes delivered back: a row with a code is past the mark.
LEMMA DeliveredStays ==
  ASSUME SendInv, Sending!Next, NEW m \in Messages, status[m] = "delivered"
  PROVE  status'[m] = "delivered"
  <1> USE DEF SendInv, Sending!TypeOK, CodeInv, Sending!storeVars
  <1>1. coded[m] /\ pc[m] \in {"sent", "waitlock", "wait", "done"}
    OBVIOUS
  <1>2. PICK k \in Messages :
          \/ Sending!SendText(k) \/ Sending!WaitAck(k) \/ Sending!CallStep(k)
          \/ \E n \in Sending!AckIds : Sending!RecordStep(k, n)
          \/ Sending!RadioAccepts(k) \/ Sending!SendConfirmed(k)
    BY DEF Sending!Next
  <1>3. CASE Sending!CallStep(k)
    BY <1>1, <1>3
    DEF Sending!CallStep, Sending!Persist, Sending!SendOk, Sending!SendErr,
        Sending!MarkSent, Sending!WaitLock, Sending!TakeAck,
        Sending!WaitTimeout, Sending!SetStatus
  <1>4. CASE \E n \in Sending!AckIds : Sending!RecordStep(k, n)
    BY <1>4
    DEF Sending!RecordStep, Sending!AppendAckSelect, Sending!AppendAckUpdate
  <1> QED
    BY <1>2, <1>3, <1>4
    DEF Sending!SendText, Sending!WaitAck, Sending!RadioAccepts,
        Sending!SendConfirmed

\* What changing one entry of a table leaves behind.
LEMMA TableUpdate ==
  ASSUME NEW A, NEW B, NEW C, NEW f \in [A -> [B -> C]],
         NEW a \in A, NEW b \in B, NEW c \in C,
         NEW g, g = [f EXCEPT ![a][b] = c]
  PROVE  /\ g \in [A -> [B -> C]]
         /\ \A x \in A, y \in B :
              g[x][y] = IF x = a /\ y = b THEN c ELSE f[x][y]
  <1>1. g[a] = [f[a] EXCEPT ![b] = c] /\ \A x \in A : x # a => g[x] = f[x]
    OBVIOUS
  <1>2. DOMAIN g = A /\ g = [x \in A |-> g[x]]
    OBVIOUS
  <1>3. g[a] \in [B -> C]
    BY <1>1
  <1>4. \A x \in A : g[x] \in [B -> C]
    BY <1>1, <1>3
  <1>5. g \in [A -> [B -> C]]
    BY <1>2, <1>4
  <1>6. \A y \in B : g[a][y] = IF y = b THEN c ELSE f[a][y]
    BY <1>1
  <1> QED
    BY <1>1, <1>5, <1>6

\* Every step preserves it.
LEMMA SendStep == SendInv /\ [Sending!Next]_(Sending!vars) => SendInv'
  <1> SUFFICES ASSUME SendInv, [Sending!Next]_(Sending!vars) PROVE SendInv'
    OBVIOUS
  <1> USE MCMessagesAssumption
      DEF SendInv, Sending!callVars, Sending!storeVars, Sending!recVars,
          Sending!ackVars, Sending!Goto
  <1>0. /\ storeFailures \in 0..MaxStoreFailures
        /\ Sending!StoreFails =>
             storeFailures' \in 0..MaxStoreFailures /\ storeFailures' # 0
    BY StoreFailsCounts DEF Sending!TypeOK
  <1>1. ASSUME NEW m \in Messages, Sending!SendText(m)
        PROVE  SendInv'
    <2>1. Sending!TypeOK'
      BY <1>0, <1>1 DEF Sending!SendText, Sending!TypeOK, Sending!Statuses
    <2>2. CodeInv'
      BY <1>0, <1>1 DEF Sending!SendText, Sending!TypeOK, CodeInv,
         Sending!AckIds
    <2>3. RecordInv'
      BY <1>0, <1>1 DEF Sending!SendText, Sending!TypeOK, RecordInv, CodeInv,
         Sending!AckIds
    <2>4. LateInv'
      BY <1>0, <1>1 DEF Sending!SendText, Sending!TypeOK, CodeInv, RecordInv,
         LateInv, Sending!AckIds
    <2>5. Sending!DeliveredIsConfirmed'
      BY <1>0, <1>1 DEF Sending!SendText, Sending!TypeOK, CodeInv, RecordInv,
         Sending!DeliveredIsConfirmed, Sending!AckIds
    <2> QED
      BY <2>1, <2>2, <2>3, <2>4, <2>5
  <1>2. ASSUME NEW m \in Messages, Sending!Persist(m)
        PROVE  SendInv'
    <2>1. Sending!TypeOK'
      BY <1>0, <1>2
      DEF Sending!Persist, Sending!TypeOK, Sending!Statuses
    <2>2. LateInv'
      <3>1. /\ UNCHANGED <<confirmed, early, rec>>
            /\ \A k \in Messages : coded[k] => coded'[k]
            /\ storeFailures' = 0 => storeFailures = 0
        BY <1>0, <1>2 DEF Sending!Persist, Sending!TypeOK, CodeInv
      <3>2. \A k \in Messages : status[k] = "delivered" => status'[k] = "delivered"
        BY <1>2, DeliveredStays DEF Sending!Next, Sending!CallStep
      <3> QED
        BY <3>1, <3>2 DEF LateInv
    <2>3. CodeInv' /\ RecordInv' /\ Sending!DeliveredIsConfirmed'
      BY <1>0, <1>2
      DEF Sending!Persist, Sending!TypeOK, CodeInv, RecordInv,
          Sending!DeliveredIsConfirmed, Sending!AckIds
    <2> QED
      BY <2>1, <2>2, <2>3
  <1>3. ASSUME NEW m \in Messages, Sending!SendOk(m)
        PROVE  SendInv'
    <2>1. Sending!TypeOK'
      BY <1>0, <1>3 DEF Sending!SendOk, Sending!TypeOK, Sending!Statuses
    <2>2. CodeInv'
      BY <1>0, <1>3 DEF Sending!SendOk, Sending!TypeOK, CodeInv, Sending!AckIds
    <2>3. RecordInv'
      BY <1>0, <1>3 DEF Sending!SendOk, Sending!TypeOK, RecordInv, CodeInv,
         Sending!AckIds
    <2>4. LateInv'
      BY <1>0, <1>3 DEF Sending!SendOk, Sending!TypeOK, CodeInv, RecordInv,
         LateInv, Sending!AckIds
    <2>5. Sending!DeliveredIsConfirmed'
      BY <1>0, <1>3 DEF Sending!SendOk, Sending!TypeOK, CodeInv, RecordInv,
         Sending!DeliveredIsConfirmed, Sending!AckIds
    <2> QED
      BY <2>1, <2>2, <2>3, <2>4, <2>5
  <1>4. ASSUME NEW m \in Messages, Sending!SendErr(m)
        PROVE  SendInv'
    <2>1. Sending!TypeOK'
      BY <1>0, <1>4
      DEF Sending!SendErr, Sending!SetStatus, Sending!TypeOK, Sending!Statuses
    <2>2. LateInv'
      <3>1. /\ UNCHANGED <<confirmed, early, rec>>
            /\ \A k \in Messages : coded[k] => coded'[k]
            /\ storeFailures' = 0 => storeFailures = 0
        BY <1>0, <1>4 DEF Sending!SendErr, Sending!TypeOK, CodeInv
      <3>2. \A k \in Messages : status[k] = "delivered" => status'[k] = "delivered"
        BY <1>4, DeliveredStays DEF Sending!Next, Sending!CallStep
      <3> QED
        BY <3>1, <3>2 DEF LateInv
    <2>3. CodeInv' /\ RecordInv' /\ Sending!DeliveredIsConfirmed'
      BY <1>0, <1>4
      DEF Sending!SendErr, Sending!SetStatus, Sending!TypeOK, CodeInv,
          RecordInv, Sending!DeliveredIsConfirmed, Sending!AckIds
    <2> QED
      BY <2>1, <2>2, <2>3
  <1>5. ASSUME NEW m \in Messages, Sending!MarkSent(m)
        PROVE  SendInv'
    <2>1. Sending!TypeOK'
      BY <1>0, <1>5
      DEF Sending!MarkSent, Sending!SetStatus, Sending!TypeOK, Sending!Statuses
    <2>2. LateInv'
      <3>1. /\ UNCHANGED <<confirmed, early, rec>>
            /\ \A k \in Messages : coded[k] => coded'[k]
            /\ storeFailures' = 0 => storeFailures = 0
        BY <1>0, <1>5 DEF Sending!MarkSent, Sending!TypeOK, CodeInv
      <3>2. \A k \in Messages : status[k] = "delivered" => status'[k] = "delivered"
        BY <1>5, DeliveredStays DEF Sending!Next, Sending!CallStep
      <3> QED
        BY <3>1, <3>2 DEF LateInv
    <2>3. CodeInv' /\ RecordInv'
      BY <1>0, <1>5
      DEF Sending!MarkSent, Sending!SetStatus, Sending!TypeOK, CodeInv,
          RecordInv, Sending!AckIds
    <2>4. Sending!DeliveredIsConfirmed'
      BY <1>0, <1>5
      DEF Sending!MarkSent, Sending!SetStatus, Sending!TypeOK, CodeInv,
          RecordInv, Sending!DeliveredIsConfirmed, Sending!AckIds
    <2> QED
      BY <2>1, <2>2, <2>3, <2>4
  <1>6. ASSUME NEW m \in Messages, Sending!WaitAck(m)
        PROVE  SendInv'
    <2>1. Sending!TypeOK'
      BY <1>0, <1>6 DEF Sending!WaitAck, Sending!TypeOK, Sending!Statuses
    <2>2. CodeInv'
      BY <1>0, <1>6 DEF Sending!WaitAck, Sending!TypeOK, CodeInv, Sending!AckIds
    <2>3. RecordInv'
      BY <1>0, <1>6 DEF Sending!WaitAck, Sending!TypeOK, RecordInv, CodeInv,
         Sending!AckIds
    <2>4. LateInv'
      BY <1>0, <1>6 DEF Sending!WaitAck, Sending!TypeOK, CodeInv, RecordInv,
         LateInv, Sending!AckIds
    <2>5. Sending!DeliveredIsConfirmed'
      BY <1>0, <1>6 DEF Sending!WaitAck, Sending!TypeOK, CodeInv, RecordInv,
         Sending!DeliveredIsConfirmed, Sending!AckIds
    <2> QED
      BY <2>1, <2>2, <2>3, <2>4, <2>5
  <1>7. ASSUME NEW m \in Messages, Sending!WaitLock(m)
        PROVE  SendInv'
    <2>1. Sending!TypeOK'
      BY <1>0, <1>7 DEF Sending!WaitLock, Sending!TypeOK, Sending!Statuses
    <2>2. CodeInv'
      BY <1>0, <1>7 DEF Sending!WaitLock, Sending!TypeOK, CodeInv,
         Sending!AckIds
    <2>3. RecordInv'
      BY <1>0, <1>7 DEF Sending!WaitLock, Sending!TypeOK, RecordInv, CodeInv,
         Sending!AckIds
    <2>4. LateInv'
      BY <1>0, <1>7 DEF Sending!WaitLock, Sending!TypeOK, CodeInv, RecordInv,
         LateInv, Sending!AckIds
    <2>5. Sending!DeliveredIsConfirmed'
      BY <1>0, <1>7 DEF Sending!WaitLock, Sending!TypeOK, CodeInv, RecordInv,
         Sending!DeliveredIsConfirmed, Sending!AckIds
    <2> QED
      BY <2>1, <2>2, <2>3, <2>4, <2>5
  <1>8. ASSUME NEW m \in Messages, Sending!TakeAck(m)
        PROVE  SendInv'
    <2>1. Sending!TypeOK'
      <3>1. acks' \in Seq(Messages) /\ Len(acks') <= AckBuffer
        BY <1>8 DEF Sending!TakeAck, Sending!TypeOK
      <3> QED
        BY <1>8, <3>1 DEF Sending!TakeAck, Sending!TypeOK
    <2>2. CodeInv' /\ RecordInv' /\ Sending!DeliveredIsConfirmed'
      BY <1>0, <1>8
      DEF Sending!TakeAck, Sending!TypeOK, CodeInv, RecordInv,
          Sending!DeliveredIsConfirmed, Sending!AckIds
    <2>3. LateInv'
      BY <1>0, <1>8
      DEF Sending!TakeAck, Sending!TypeOK, CodeInv, RecordInv, LateInv,
          Sending!AckIds
    <2> QED
      BY <2>1, <2>2, <2>3
  <1>9. ASSUME NEW m \in Messages, Sending!WaitTimeout(m)
        PROVE  SendInv'
    <2>1. Sending!TypeOK'
      BY <1>0, <1>9
      DEF Sending!WaitTimeout, Sending!TypeOK, Sending!Statuses
    <2>2. LateInv'
      BY <1>0, <1>9
      DEF Sending!WaitTimeout, Sending!TypeOK, CodeInv, RecordInv, LateInv,
          Sending!AckIds
    <2>3. CodeInv' /\ RecordInv' /\ Sending!DeliveredIsConfirmed'
      BY <1>0, <1>9
      DEF Sending!WaitTimeout, Sending!TypeOK, CodeInv, RecordInv,
          Sending!DeliveredIsConfirmed, Sending!AckIds
    <2> QED
      BY <2>1, <2>2, <2>3
  <1>10. ASSUME NEW m \in Messages, NEW n \in Sending!AckIds, Sending!AppendAckSelect(m, n)
        PROVE  SendInv'
    <2> DEFINE States == {"none", "select", "update", "done"}
    <2>0. PICK v \in {"update", "done"} :
            /\ rec' = [rec EXCEPT ![m][n] = v]
            /\ v = "update" => coded[m]
            /\ storeFailures' = 0 => storeFailures = 0 /\ (coded[m] => v = "update")
      BY <1>0, <1>10 DEF Sending!AppendAckSelect
    <2>r. /\ rec' \in [Messages -> [Sending!AckIds -> States]]
          /\ \A k \in Messages, j \in Sending!AckIds :
               rec'[k][j] = IF k = m /\ j = n THEN v ELSE rec[k][j]
      <3>1. v \in States /\ rec \in [Messages -> [Sending!AckIds -> States]]
        BY DEF Sending!TypeOK
      <3> HIDE DEF States
      <3> QED
        BY <1>10, <2>0, <3>1, TableUpdate
    <2>s. PICK w \in {snap[m][n], receptions[m]} :
            snap' = [snap EXCEPT ![m][n] = w]
      BY <1>10 DEF Sending!AppendAckSelect, Sending!TypeOK
    <2>t. /\ snap' \in [Messages -> [Sending!AckIds -> SUBSET Sending!AckIds]]
          /\ \A k \in Messages, j \in Sending!AckIds :
               snap'[k][j] = IF k = m /\ j = n THEN w ELSE snap[k][j]
      BY <1>10, <2>s, TableUpdate DEF Sending!TypeOK
    <2>u. UNCHANGED <<Sending!callVars, onAir, Sending!ackVars, Sending!storeVars>>
      BY <1>10 DEF Sending!AppendAckSelect
    <2>1. Sending!TypeOK'
      BY <1>0, <1>10, <2>r, <2>t, <2>u DEF Sending!AppendAckSelect,
         Sending!TypeOK
    <2>2. CodeInv'
      BY <2>0, <2>r, <2>u DEF CodeInv
    <2>3. RecordInv'
      BY <1>10, <2>r, <2>s, <2>t, <2>u
      DEF Sending!AppendAckSelect, RecordInv, Sending!DeliveredIsConfirmed
    <2>4. LateInv'
      BY <2>0, <2>r, <2>u DEF LateInv, Sending!AckIds, Sending!TypeOK
    <2>5. Sending!DeliveredIsConfirmed'
      BY <1>0, <1>10 DEF Sending!AppendAckSelect, Sending!TypeOK, CodeInv,
         RecordInv, Sending!DeliveredIsConfirmed, Sending!AckIds
    <2> QED
      BY <2>1, <2>2, <2>3, <2>4, <2>5
  <1>11. ASSUME NEW m \in Messages, NEW n \in Sending!AckIds, Sending!AppendAckUpdate(m, n)
        PROVE  SendInv'
    <2> DEFINE States == {"none", "select", "update", "done"}
    <2>r. /\ rec' \in [Messages -> [Sending!AckIds -> States]]
          /\ \A k \in Messages, j \in Sending!AckIds :
               rec'[k][j] = IF k = m /\ j = n THEN "done" ELSE rec[k][j]
      <3>1. "done" \in States /\ rec \in [Messages -> [Sending!AckIds -> States]]
        BY DEF Sending!TypeOK
      <3>2. rec' = [rec EXCEPT ![m][n] = "done"]
        BY <1>11 DEF Sending!AppendAckUpdate
      <3> HIDE DEF States
      <3> QED
        BY <1>11, <3>1, <3>2, TableUpdate
    <2>u. UNCHANGED <<Sending!callVars, onAir, Sending!ackVars, coded, snap>>
      BY <1>11 DEF Sending!AppendAckUpdate
    <2>w. coded[m] /\ n \in 1..confirmed[m] /\ snap[m][n] \subseteq 1..confirmed[m]
      BY <1>11
      DEF Sending!AppendAckUpdate, RecordInv, CodeInv, Sending!AckIds,
          Sending!TypeOK
    <2>s. \/ /\ status' = [status EXCEPT ![m] = "delivered"]
             /\ receptions' = [receptions EXCEPT ![m] = snap[m][n] \union {n}]
             /\ UNCHANGED storeFailures
          \/ /\ UNCHANGED <<status, receptions>>
             /\ storeFailures' \in 0..MaxStoreFailures /\ storeFailures' # 0
      BY <1>0, <1>11 DEF Sending!AppendAckUpdate
    <2>p. \/ /\ \A k \in Messages \ {m} :
                  status'[k] = status[k] /\ receptions'[k] = receptions[k]
             /\ status'[m] = "delivered"
             /\ receptions'[m] = snap[m][n] \union {n}
             /\ UNCHANGED storeFailures
          \/ UNCHANGED <<status, receptions>> /\ storeFailures' # 0
      BY <2>s DEF Sending!TypeOK
    <2>1. Sending!TypeOK'
      <3>1. snap[m][n] \union {n} \in SUBSET Sending!AckIds
        BY <1>11 DEF Sending!TypeOK
      <3>2. receptions' \in [Messages -> SUBSET Sending!AckIds]
        BY <2>s, <3>1 DEF Sending!TypeOK
      <3> QED
        BY <1>0, <2>r, <2>s, <2>u, <3>2 DEF Sending!TypeOK, Sending!Statuses
    <2>2. CodeInv'
      BY <2>r, <2>p, <2>u, <2>w DEF CodeInv
    <2>3. RecordInv'
      BY <2>r, <2>u, <2>w DEF RecordInv
    <2>4. LateInv'
      <3> SUFFICES ASSUME NEW k \in Messages, NEW j \in 1..confirmed[k] \ early[k]
                   PROVE  /\ coded[k]
                          /\ storeFailures' = 0 =>
                               \/ rec'[k][j] \in {"select", "update"}
                               \/ status'[k] = "delivered"
        BY <2>u DEF LateInv
      <3>1. j \in Sending!AckIds
        BY DEF Sending!AckIds, Sending!TypeOK
      <3> QED
        BY <2>r, <2>p, <3>1 DEF LateInv
    <2>5. Sending!DeliveredIsConfirmed'
      <3> SUFFICES ASSUME NEW k \in Messages
                   PROVE  /\ status'[k] = "delivered" <=> receptions'[k] # {}
                          /\ receptions'[k] \subseteq 1..confirmed[k]
        BY <2>u DEF Sending!DeliveredIsConfirmed
      <3>1. CASE k = m
        BY <2>p, <2>w, <3>1 DEF Sending!DeliveredIsConfirmed
      <3>2. CASE k # m
        BY <2>p, <3>2 DEF Sending!DeliveredIsConfirmed
      <3> QED
        BY <3>1, <3>2
    <2> QED
      BY <2>1, <2>2, <2>3, <2>4, <2>5
  <1>12. ASSUME NEW m \in Messages, Sending!RadioAccepts(m)
        PROVE  SendInv'
    <2>1. Sending!TypeOK'
      BY <1>0, <1>12 DEF Sending!RadioAccepts, Sending!TypeOK, Sending!Statuses
    <2>2. CodeInv'
      BY <1>0, <1>12 DEF Sending!RadioAccepts, Sending!TypeOK, CodeInv,
         Sending!AckIds
    <2>3. RecordInv'
      BY <1>0, <1>12 DEF Sending!RadioAccepts, Sending!TypeOK, RecordInv,
         CodeInv, Sending!AckIds
    <2>4. LateInv'
      BY <1>0, <1>12 DEF Sending!RadioAccepts, Sending!TypeOK, CodeInv,
         RecordInv, LateInv, Sending!AckIds
    <2>5. Sending!DeliveredIsConfirmed'
      BY <1>0, <1>12 DEF Sending!RadioAccepts, Sending!TypeOK, CodeInv,
         RecordInv, Sending!DeliveredIsConfirmed, Sending!AckIds
    <2> QED
      BY <2>1, <2>2, <2>3, <2>4, <2>5
  <1>13. ASSUME NEW m \in Messages, Sending!SendConfirmed(m)
        PROVE  SendInv'
    <2>1. Sending!TypeOK'
      BY <1>0, <1>13, SMTT(30)
      DEF Sending!SendConfirmed, Sending!Offer, Sending!TypeOK,
          Sending!Statuses, Sending!AckIds
    <2>2. CodeInv' /\ RecordInv' /\ LateInv' /\ Sending!DeliveredIsConfirmed'
      BY <1>0, <1>13, SMTT(30)
      DEF Sending!SendConfirmed, Sending!Offer, Sending!TypeOK, CodeInv,
          RecordInv, LateInv, Sending!DeliveredIsConfirmed, Sending!AckIds
    <2> QED
      BY <2>1, <2>2
  <1>14. CASE UNCHANGED Sending!vars
    <2>1. Sending!TypeOK'
      BY <1>0, <1>14 DEF Sending!vars, Sending!TypeOK, Sending!Statuses
    <2>2. CodeInv'
      BY <1>0, <1>14 DEF Sending!vars, Sending!TypeOK, CodeInv, Sending!AckIds
    <2>3. RecordInv'
      BY <1>0, <1>14 DEF Sending!vars, Sending!TypeOK, RecordInv, CodeInv,
         Sending!AckIds
    <2>4. LateInv'
      BY <1>0, <1>14 DEF Sending!vars, Sending!TypeOK, CodeInv, RecordInv,
         LateInv, Sending!AckIds
    <2>5. Sending!DeliveredIsConfirmed'
      BY <1>0, <1>14 DEF Sending!vars, Sending!TypeOK, CodeInv, RecordInv,
         Sending!DeliveredIsConfirmed, Sending!AckIds
    <2> QED
      BY <2>1, <2>2, <2>3, <2>4, <2>5
  <1> HIDE DEF SendInv
  <1> QED
    BY <1>1, <1>2, <1>3, <1>4, <1>5, <1>6, <1>7, <1>8, <1>9, <1>10, <1>11,
       <1>12, <1>13, <1>14
    DEF Sending!Next, Sending!CallStep, Sending!RecordStep

\* The invariant holds of every state of the composition, whichever component
\* it runs.
LEMMA SendAlways == MCSpec => []SendInv
  <1>1. MCInit => SendInv
    BY SendInit DEF MCInit
  <1>2. SendInv /\ [MCNext]_mcVars => SendInv'
    BY SendStep, SendingSteps
  <1> QED
    BY <1>1, <1>2, PTL DEF MCSpec

\* A sent message is shown as delivered exactly when a confirmation of it has
\* been recorded (SendConfirmed, recordAck, AppendAck), and every confirmation
\* that comes once its code is stored delivers unless a statement fails.
THEOREM DeliveryTrue == MCSpec => []DeliveryIsTrue
  <1>1. SendInv => DeliveryIsTrue
    <2> SUFFICES ASSUME SendInv PROVE Sending!LateAckDelivers
      BY DEF SendInv, DeliveryIsTrue, Sending!DeliveryIsTrue
    <2> SUFFICES ASSUME NEW m \in Messages, storeFailures = 0,
                        Sending!Settled(m), 1..confirmed[m] \ early[m] # {}
                 PROVE  status[m] = "delivered"
      BY DEF Sending!LateAckDelivers
    <2>1. PICK n \in 1..confirmed[m] \ early[m] : TRUE
      OBVIOUS
    <2>2. n \in Sending!AckIds
      BY <2>1, MCMessagesAssumption DEF SendInv, Sending!TypeOK, Sending!AckIds
    <2> QED
      BY <2>1, <2>2 DEF SendInv, LateInv, Sending!Settled
  <1> QED
    BY <1>1, SendAlways, PTL

\* No step of a caller, a waiter or a recordAck takes delivered back
\* (setMessageStatus, markUnconfirmed), in whatever order they come.
THEOREM DeliveredFinal == MCSpec => DeliveredIsFinal
  <1> DEFINE Stays == \A m \in Messages :
                        status[m] = "delivered" => status'[m] = "delivered"
  <1>1. SendInv /\ [MCNext]_mcVars => [Stays]_(Sending!vars)
    BY DeliveredStays, SendingSteps
  <1> QED
    BY <1>1, SendAlways, PTL
    DEF MCSpec, DeliveredIsFinal, Sending!DeliveredIsFinal

-----------------------------------------------------------------------------
(* Received mail                                                           *)

\* A message is in hand from its fetch to its emit; the drain loop has stored it
\* in between, and repeater_exec has noted it.
HandInv ==
  /\ hand # <<>> <=> dpc \in {"persist", "emit"} \/ epc = "emit"
  /\ epc = "emit" => hand[1] \in execTook
  /\ dpc = "emit" /\ failures = 0 => hand[1] \in Mail!StoredMail
  /\ epc # "idle" => execs >= 1

\* A row that has been handed out is marked read, unless a statement failed;
\* until a sender resolves to another peer all rows have the first one.
ReadInv ==
  /\ \A m \in Mail!Row :
       /\ handed[m] <= reads
       /\ failures = 0 =>
            \/ handed[m] = 0
            \/ handed[m] = 1 /\ m \in stored /\ m \notin unread
  /\ relabels = 0 => \A m \in stored : m.peer = peer

\* The inductive invariant for received mail.
MailInv ==
  /\ Mail!TypeOK
  /\ HandInv /\ ReadInv
  /\ Mail!NothingVanishes /\ Mail!PersistedFirst

\* A sequence of messages without and with its head.
LEMMA HeadTail ==
  ASSUME NEW S, NEW s \in Seq(S), s # <<>>
  PROVE  /\ Head(s) \in S /\ Tail(s) \in Seq(S) /\ Len(Tail(s)) = Len(s) - 1
         /\ Mail!ToSet(s) = {Head(s)} \union Mail!ToSet(Tail(s))
  <1>1. /\ Head(s) \in S /\ Tail(s) \in Seq(S) /\ Len(Tail(s)) = Len(s) - 1
        /\ Head(s) = s[1] /\ Len(s) \in Nat \ {0}
        /\ \A i \in 1..Len(s) - 1 : Tail(s)[i] = s[i + 1]
        /\ DOMAIN s = 1..Len(s) /\ DOMAIN Tail(s) = 1..Len(s) - 1
    OBVIOUS
  <1> DEFINE n == Len(s)
  <1>2. ASSUME NEW i \in 1..n, i # 1
        PROVE  i - 1 \in 1..n - 1 /\ Tail(s)[i - 1] = s[i]
    <2>1. n \in Nat /\ \A j \in 1..n - 1 : Tail(s)[j] = s[j + 1]
      BY <1>1
    <2> HIDE DEF n
    <2>2. i - 1 \in 1..n - 1 /\ (i - 1) + 1 = i
      BY <1>2, <2>1
    <2> QED
      BY <2>1, <2>2
  <1>3. ASSUME NEW i \in 1..n - 1
        PROVE  i + 1 \in 1..n /\ Tail(s)[i] = s[i + 1]
    BY <1>1
  <1>4. Mail!ToSet(s) \subseteq {Head(s)} \union Mail!ToSet(Tail(s))
    <2> SUFFICES ASSUME NEW i \in 1..n, i # 1
                 PROVE  s[i] \in Mail!ToSet(Tail(s))
      BY <1>1 DEF Mail!ToSet
    <2> QED
      BY <1>1, <1>2 DEF Mail!ToSet
  <1>5. {Head(s)} \union Mail!ToSet(Tail(s)) \subseteq Mail!ToSet(s)
    BY <1>1, <1>3 DEF Mail!ToSet
  <1> QED
    BY <1>1, <1>4, <1>5

\* A sequence of messages before and after it grows by one.
LEMMA AppendToSet ==
  ASSUME NEW S, NEW s \in Seq(S), NEW e \in S
  PROVE  /\ Append(s, e) \in Seq(S) /\ Len(Append(s, e)) = Len(s) + 1
         /\ Mail!ToSet(Append(s, e)) = Mail!ToSet(s) \union {e}
  <1> DEFINE t == Append(s, e)
  <1>1. /\ t \in Seq(S) /\ Len(t) = Len(s) + 1 /\ Len(s) \in Nat
        /\ t[Len(s) + 1] = e /\ \A i \in 1..Len(s) : t[i] = s[i]
        /\ DOMAIN s = 1..Len(s) /\ DOMAIN t = 1..Len(s) + 1
    OBVIOUS
  <1> HIDE DEF t
  <1>2. \A i \in 1..Len(s) + 1 : i \in 1..Len(s) \/ i = Len(s) + 1
    BY <1>1
  <1>3. Mail!ToSet(t) \subseteq Mail!ToSet(s) \union {e}
    BY <1>1, <1>2 DEF Mail!ToSet
  <1>4. Mail!ToSet(s) \union {e} \subseteq Mail!ToSet(t)
    BY <1>1 DEF Mail!ToSet
  <1> QED
    BY <1>1, <1>3, <1>4 DEF t

\* A sequence of one message.
LEMMA OneInHand ==
  ASSUME NEW S, NEW s \in Seq(S), Len(s) <= 1, s # <<>>
  PROVE  Len(s) = 1 /\ s[1] \in S /\ Mail!ToSet(s) = {s[1]}
  <1>1. Len(s) = 1 /\ s[1] \in S /\ DOMAIN s = {1}
    OBVIOUS
  <1> QED
    BY <1>1 DEF Mail!ToSet

\* The radio has heard nothing yet.
LEMMA MailInit == Mail!Init => MailInv
  <1> SUFFICES ASSUME Mail!Init PROVE MailInv
    OBVIOUS
  <1> USE MCMessagesAssumption DEF Mail!Init
  <1>1. Mail!TypeOK
    <2>1. <<>> \in Seq(Mail!Message) /\ Len(<<>>) = 0
      OBVIOUS
    <2>2. handed \in [Mail!Row -> 0..MaxReads] /\ peer \in Peers
      OBVIOUS
    <2>3. /\ inbox \in Seq(Mail!Message) /\ batch \in Seq(Mail!Message)
          /\ hand \in Seq(Mail!Message) /\ Len(hand) <= 1
          /\ events \in Seq(Mail!Message) /\ Len(events) <= EventBuffer
      BY <2>1
    <2>4. /\ asked \subseteq 1..execs /\ replied \subseteq asked
          /\ stored \subseteq Mail!Row /\ unread \subseteq stored
          /\ broadcast \subseteq Mail!Message /\ execTook \subseteq Mail!Message
      OBVIOUS
    <2>5. /\ mail \in 0..MaxMail /\ repeats \in 0..MaxRepeats
          /\ execs \in 0..MaxExecs /\ reads \in 0..MaxReads
          /\ failures \in 0..MaxFailures /\ relabels \in 0..MaxRelabels
      OBVIOUS
    <2>6. drainReq \in BOOLEAN
      OBVIOUS
    <2> QED
      BY <2>2, <2>3, <2>4, <2>5, <2>6 DEF Mail!TypeOK, Mail!Busy
  <1>2. HandInv /\ ReadInv
    BY DEF HandInv, ReadInv
  <1>3. Mail!NothingVanishes /\ Mail!PersistedFirst
    BY DEF Mail!NothingVanishes, Mail!PersistedFirst, Mail!Arrived
  <1> QED
    BY <1>1, <1>2, <1>3 DEF MailInv

\* A failure is counted.
LEMMA FailsCounts ==
  ASSUME failures \in 0..MaxFailures, Mail!Fails
  PROVE  failures' \in 0..MaxFailures /\ failures' # 0
  BY MCMessagesAssumption DEF Mail!Fails

\* A step of the composition is a step of this component or leaves it alone.
LEMMA MailSteps == [MCNext]_mcVars => [Mail!Next]_(Mail!vars)
  <1> SUFFICES ASSUME [MCNext]_mcVars PROVE Mail!Next \/ UNCHANGED mailVars
    BY DEF mailVars, Mail!vars, Mail!radioVars, Mail!loopVars, Mail!storeVars,
           Mail!eventVars, Mail!execVars, Mail!readVars
  <1> QED
    BY DEF MCNext, mcVars

\* Every step preserves it.
LEMMA MailStep == MailInv /\ [Mail!Next]_(Mail!vars) => MailInv'
  <1> SUFFICES ASSUME MailInv, [Mail!Next]_(Mail!vars) PROVE MailInv'
    OBVIOUS
  <1> USE MCMessagesAssumption
      DEF MailInv, Mail!radioVars, Mail!loopVars, Mail!storeVars,
          Mail!eventVars, Mail!execVars, Mail!readVars
  <1>0. /\ failures \in 0..MaxFailures
        /\ Mail!Fails => failures' \in 0..MaxFailures /\ failures' # 0
        /\ stored' = stored => Mail!StoredMail' = Mail!StoredMail
    BY FailsCounts DEF Mail!TypeOK, Mail!StoredMail
  <1>s. /\ inbox \in Seq(Mail!Message)
        /\ hand \in Seq(Mail!Message) /\ Len(hand) <= 1
        /\ batch \in Seq(Mail!Message)
        /\ events \in Seq(Mail!Message) /\ Len(events) <= EventBuffer
    BY DEF Mail!TypeOK
  <1>1. CASE Mail!ChatArrives
    <2>0. Mail!Chat(mail') \in Mail!Message /\ inbox' = Append(inbox, Mail!Chat(mail'))
      BY <1>1, SMTT(30) DEF Mail!ChatArrives, Mail!Arrive, Mail!Message, Mail!Chat,
         Mail!Reply, Mail!TypeOK
    <2>i. /\ inbox' \in Seq(Mail!Message)
          /\ Mail!ToSet(inbox') = Mail!ToSet(inbox) \union {Mail!Chat(mail')}
      BY <1>s, <2>0, AppendToSet
    <2>m. mail' \in 0..MaxMail /\ repeats' \in 0..MaxRepeats /\ mail' >= mail
      BY <1>1, SMTT(30) DEF Mail!ChatArrives, Mail!TypeOK
    <2>1. Mail!TypeOK'
      BY <1>0, <1>1, <2>i, <2>m
      DEF Mail!ChatArrives, Mail!Arrive, Mail!TypeOK, Mail!Busy
    <2>2. HandInv' /\ ReadInv' /\ Mail!PersistedFirst'
      BY <1>0, <1>1, <2>0, <2>i, <2>m
      DEF Mail!ChatArrives, Mail!Arrive, Mail!Arrived, Mail!TypeOK, Mail!Busy,
          HandInv, ReadInv, Mail!PersistedFirst
    <2>3. Mail!NothingVanishes'
      <3>1. Mail!Arrived' = Mail!Arrived \union {Mail!Chat(mail')}
        <4>0. mail \in Nat /\ mail' = mail + 1 /\ UNCHANGED replied
          BY <1>1 DEF Mail!ChatArrives, Mail!TypeOK
        <4>1. 1..mail' = 1..mail \union {mail'}
          BY <4>0
        <4> QED
          BY <4>0, <4>1 DEF Mail!Arrived
      <3> QED
        BY <1>0, <1>1, <2>i, <3>1 DEF Mail!ChatArrives, Mail!Arrive,
           Mail!NothingVanishes
    <2> QED
      BY <2>1, <2>2, <2>3
  <1>2. ASSUME NEW n \in 1..MaxMail, Mail!ChatRepeats(n)
        PROVE  MailInv'
    <2>0. Mail!Chat(n) \in Mail!Message /\ inbox' = Append(inbox, Mail!Chat(n))
      BY <1>2 DEF Mail!ChatRepeats, Mail!Arrive, Mail!Message, Mail!Chat,
         Mail!Reply, Mail!TypeOK
    <2>i. /\ inbox' \in Seq(Mail!Message)
          /\ Mail!ToSet(inbox') = Mail!ToSet(inbox) \union {Mail!Chat(n)}
      BY <1>s, <2>0, AppendToSet
    <2>m. mail' \in 0..MaxMail /\ repeats' \in 0..MaxRepeats /\ mail' >= mail
      BY <1>2, SMTT(30) DEF Mail!ChatRepeats, Mail!TypeOK
    <2>1. Mail!TypeOK'
      BY <1>0, <1>2, <2>i, <2>m
      DEF Mail!ChatRepeats, Mail!Arrive, Mail!TypeOK, Mail!Busy
    <2>2. HandInv' /\ ReadInv' /\ Mail!NothingVanishes' /\ Mail!PersistedFirst'
      BY <1>0, <1>2, <2>0, <2>i, <2>m
      DEF Mail!ChatRepeats, Mail!Arrive, Mail!Arrived, Mail!TypeOK, Mail!Busy,
          HandInv, ReadInv, Mail!NothingVanishes, Mail!PersistedFirst
    <2> QED
      BY <2>1, <2>2
  <1>3. ASSUME NEW k \in 1..MaxExecs, Mail!ReplyArrives(k)
        PROVE  MailInv'
    <2>0. Mail!Reply(k) \in Mail!Message /\ inbox' = Append(inbox, Mail!Reply(k))
      BY <1>3 DEF Mail!ReplyArrives, Mail!Arrive, Mail!Message, Mail!Chat,
         Mail!Reply, Mail!TypeOK
    <2>i. /\ inbox' \in Seq(Mail!Message)
          /\ Mail!ToSet(inbox') = Mail!ToSet(inbox) \union {Mail!Reply(k)}
      BY <1>s, <2>0, AppendToSet
    <2>m. mail' \in 0..MaxMail /\ repeats' \in 0..MaxRepeats /\ mail' >= mail
      BY <1>3 DEF Mail!ReplyArrives, Mail!TypeOK
    <2>1. Mail!TypeOK'
      BY <1>0, <1>3, <2>i, <2>m
      DEF Mail!ReplyArrives, Mail!Arrive, Mail!TypeOK, Mail!Busy
    <2>2. HandInv' /\ ReadInv' /\ Mail!PersistedFirst'
      BY <1>0, <1>3, <2>0, <2>i, <2>m
      DEF Mail!ReplyArrives, Mail!Arrive, Mail!Arrived, Mail!TypeOK, Mail!Busy,
          HandInv, ReadInv, Mail!PersistedFirst
    <2>3. Mail!NothingVanishes'
      BY <1>0, <1>3, <2>0, <2>i, <2>m
      DEF Mail!ReplyArrives, Mail!Arrive, Mail!Arrived, Mail!TypeOK, Mail!Busy,
          HandInv, Mail!NothingVanishes
    <2> QED
      BY <2>1, <2>2, <2>3
  <1>4. CASE Mail!DrainWake
    BY <1>0, <1>4
    DEF Mail!DrainWake, Mail!TypeOK, Mail!Busy, HandInv, ReadInv,
        Mail!NothingVanishes, Mail!PersistedFirst, Mail!Arrived
  <1>5. CASE Mail!DrainLock
    BY <1>0, <1>5
    DEF Mail!DrainLock, Mail!TypeOK, Mail!Busy, HandInv, ReadInv,
        Mail!NothingVanishes, Mail!PersistedFirst, Mail!Arrived
  <1>6. CASE Mail!DrainFetch
    <2>i. /\ Head(inbox) \in Mail!Message
          /\ inbox' \in Seq(Mail!Message)
          /\ Mail!ToSet(inbox) = {Head(inbox)} \union Mail!ToSet(inbox')
      BY <1>s, <1>6, HeadTail DEF Mail!DrainFetch, Mail!Fetch
    <2>h. /\ hand' \in Seq(Mail!Message) /\ Len(hand') = 1 /\ hand' # <<>>
          /\ hand'[1] = Head(inbox) /\ Mail!ToSet(hand') = {Head(inbox)}
      BY <1>6, <2>i DEF Mail!DrainFetch, Mail!Fetch, Mail!ToSet
    <2>e. Mail!ToSet(hand) = {}
      BY <1>6, SMTT(30) DEF Mail!DrainFetch, Mail!ToSet, HandInv, Mail!TypeOK, Mail!Busy
    <2>1. Mail!TypeOK'
      <3>1. inbox' \in Seq(Mail!Message) /\ hand' \in Seq(Mail!Message)
        BY <2>i, <2>h
      <3>2. Len(hand') <= 1
        BY <2>h
      <3> QED
        BY <1>0, <1>6, <3>1, <3>2 DEF Mail!DrainFetch, Mail!TypeOK, Mail!Busy
    <2>2. HandInv' /\ ReadInv' /\ Mail!NothingVanishes' /\ Mail!PersistedFirst'
      BY <1>0, <1>6, <2>i, <2>h, <2>e
      DEF Mail!DrainFetch, Mail!Fetch, Mail!TypeOK, Mail!Busy, HandInv,
          ReadInv, Mail!NothingVanishes, Mail!Arrived, Mail!PersistedFirst
    <2> QED
      BY <2>1, <2>2
  <1>7. CASE Mail!DrainEmpty
    BY <1>0, <1>7
    DEF Mail!DrainEmpty, Mail!TypeOK, Mail!Busy, HandInv, ReadInv,
        Mail!NothingVanishes, Mail!PersistedFirst, Mail!Arrived
  <1>8. CASE Mail!DrainErr
    <2>i. inbox' \in Seq(Mail!Message)
      BY <1>s, <1>8, HeadTail, ZenonT(30) DEF Mail!DrainErr, Mail!FetchFails
    <2>1. Mail!TypeOK'
      BY <1>0, <1>8, <2>i
      DEF Mail!DrainErr, Mail!FetchFails, Mail!TypeOK, Mail!Busy
    <2>2. HandInv' /\ ReadInv' /\ Mail!NothingVanishes' /\ Mail!PersistedFirst'
      BY <1>0, <1>8, <2>i
      DEF Mail!DrainErr, Mail!FetchFails, Mail!TypeOK, Mail!Busy, HandInv,
          ReadInv, Mail!NothingVanishes, Mail!Arrived, Mail!PersistedFirst
    <2> QED
      BY <2>1, <2>2
  <1>9. CASE Mail!DrainPersist
    <2>h. hand # <<>> /\ hand[1] \in Mail!Message
      BY <1>s, <1>9, OneInHand DEF Mail!DrainPersist, HandInv
    <2> DEFINE row == [msg |-> hand[1], peer |-> peer']
    <2>p. /\ peer' \in Peers /\ relabels' \in 0..MaxRelabels
          /\ relabels' = 0 => peer' = peer /\ relabels = 0
      BY <1>9, SMTT(30) DEF Mail!DrainPersist, Mail!ResolvePeer, Mail!TypeOK
    <2>w. row \in Mail!Row /\ row.msg = hand[1] /\ row.peer = peer'
      BY <2>h, <2>p DEF Mail!Row
    <2>q. \/ /\ stored' = stored \union {row}
             /\ unread' = IF row \in stored THEN unread ELSE unread \union {row}
             /\ UNCHANGED failures
          \/ Mail!Fails /\ UNCHANGED <<stored, unread>>
      BY <1>9 DEF Mail!DrainPersist, Mail!RecordReceived
    <2>m. /\ Mail!StoredMail \subseteq Mail!StoredMail'
          /\ failures' = 0 => hand[1] \in Mail!StoredMail'
      BY <1>0, <2>w, <2>q DEF Mail!StoredMail
    <2> HIDE DEF row
    <2>f. failures' \in 0..MaxFailures /\ (failures' = 0 => failures = 0)
      BY <1>0, <2>q, SMTT(30)
    <2>t. stored' \subseteq Mail!Row /\ unread' \subseteq stored'
      BY <2>q, <2>w, SMTT(30) DEF Mail!TypeOK
    <2>1. Mail!TypeOK'
      BY <1>9, <2>p, <2>f, <2>t DEF Mail!DrainPersist, Mail!TypeOK, Mail!Busy
    <2>2. ReadInv'
      <3>1. ASSUME NEW m \in Mail!Row, failures' = 0
            PROVE  \/ handed'[m] = 0
                   \/ handed'[m] = 1 /\ m \in stored' /\ m \notin unread'
        BY <1>9, <2>f, <2>q, <3>1 DEF Mail!DrainPersist, ReadInv
      <3>2. relabels' = 0 => \A m \in stored' : m.peer = peer'
        BY <2>p, <2>w, <2>q DEF ReadInv
      <3> QED
        BY <1>9, <3>1, <3>2 DEF Mail!DrainPersist, ReadInv
    <2>3. HandInv' /\ Mail!NothingVanishes' /\ Mail!PersistedFirst'
      BY <1>9, <2>h, <2>f, <2>m
      DEF Mail!DrainPersist, Mail!TypeOK, Mail!Busy, HandInv,
          Mail!NothingVanishes, Mail!Arrived, Mail!PersistedFirst
    <2> QED
      BY <2>1, <2>2, <2>3
  <1>10. CASE Mail!DrainEmit
    <2>h. hand # <<>> /\ hand[1] \in Mail!Message /\ Mail!ToSet(hand) = {hand[1]}
      BY <1>s, <1>10, OneInHand DEF Mail!DrainEmit, HandInv
    <2>n. /\ hand' = <<>> /\ hand' \in Seq(Mail!Message) /\ Len(hand') = 0
          /\ Mail!ToSet(hand') = {}
      BY <1>10 DEF Mail!DrainEmit, Mail!ToSet
    <2>r. Mail!MakeRoom \in Seq(Mail!Message) /\ Len(Mail!MakeRoom) <= EventBuffer - 1
      BY <1>s, HeadTail DEF Mail!MakeRoom
    <2>v. /\ events' \in Seq(Mail!Message) /\ Len(events') <= EventBuffer
          /\ broadcast' = broadcast \union {hand[1]}
      BY <1>10, <2>h, <2>r, AppendToSet DEF Mail!DrainEmit, Mail!Emit
    <2>1. Mail!TypeOK'
      <3>1. /\ hand' \in Seq(Mail!Message) /\ Len(hand') <= 1
            /\ events' \in Seq(Mail!Message) /\ Len(events') <= EventBuffer
            /\ broadcast' \subseteq Mail!Message
        BY <2>h, <2>n, <2>v, SMTT(30) DEF Mail!TypeOK
      <3> QED
        BY <1>0, <1>10, <3>1 DEF Mail!DrainEmit, Mail!TypeOK, Mail!Busy
    <2>2. HandInv' /\ ReadInv' /\ Mail!NothingVanishes' /\ Mail!PersistedFirst'
      BY <1>0, <1>10, <2>h, <2>n, <2>v
      DEF Mail!DrainEmit, Mail!Emit, Mail!TypeOK, Mail!Busy, HandInv, ReadInv,
          Mail!NothingVanishes, Mail!Arrived, Mail!PersistedFirst
    <2> QED
      BY <2>1, <2>2
  <1>11. CASE Mail!DrainReturn
    BY <1>0, <1>11
    DEF Mail!DrainReturn, Mail!TypeOK, Mail!Busy, HandInv, ReadInv,
        Mail!NothingVanishes, Mail!PersistedFirst, Mail!Arrived
  <1>12. CASE Mail!ExecStart
    <2>1. Mail!TypeOK'
      BY <1>0, <1>12, SMTT(30)
      DEF Mail!ExecStart, Mail!TypeOK, Mail!Busy
    <2>2. HandInv' /\ ReadInv' /\ Mail!NothingVanishes' /\ Mail!PersistedFirst'
      BY <1>0, <1>12, SMTT(30)
      DEF Mail!ExecStart, Mail!TypeOK, Mail!Busy, HandInv, ReadInv,
          Mail!NothingVanishes, Mail!Arrived, Mail!PersistedFirst
    <2> QED
      BY <2>1, <2>2
  <1>13. CASE Mail!ExecLock
    BY <1>0, <1>13
    DEF Mail!ExecLock, Mail!TypeOK, Mail!Busy, HandInv, ReadInv,
        Mail!NothingVanishes, Mail!PersistedFirst, Mail!Arrived
  <1>14. CASE Mail!ExecSend
    <2>a. execs \in Nat /\ execs \in 1..execs
      BY <1>14, SMTT(30) DEF Mail!ExecSend, Mail!ExecSendErr, HandInv, Mail!TypeOK
    <2>1. Mail!TypeOK'
      BY <1>0, <1>14, <2>a
      DEF Mail!ExecSend, Mail!TypeOK, Mail!Busy
    <2>2. HandInv' /\ ReadInv' /\ Mail!NothingVanishes' /\ Mail!PersistedFirst'
      BY <1>0, <1>14, <2>a
      DEF Mail!ExecSend, Mail!TypeOK, Mail!Busy, HandInv, ReadInv,
          Mail!NothingVanishes, Mail!Arrived, Mail!PersistedFirst
    <2> QED
      BY <2>1, <2>2
  <1>15. CASE Mail!ExecSendErr
    <2>a. execs \in Nat /\ execs \in 1..execs
      BY <1>15 DEF Mail!ExecSend, Mail!ExecSendErr, HandInv, Mail!TypeOK
    <2>1. Mail!TypeOK'
      BY <1>0, <1>15, <2>a
      DEF Mail!ExecSendErr, Mail!ExecReturn, Mail!TypeOK, Mail!Busy
    <2>2. HandInv' /\ ReadInv' /\ Mail!NothingVanishes' /\ Mail!PersistedFirst'
      BY <1>0, <1>15, <2>a
      DEF Mail!ExecSendErr, Mail!ExecReturn, Mail!TypeOK, Mail!Busy, HandInv,
          ReadInv, Mail!NothingVanishes, Mail!Arrived, Mail!PersistedFirst
    <2> QED
      BY <2>1, <2>2
  <1>16. CASE Mail!ExecEvent
    <2>v. events' \in Seq(Mail!Message) /\ Len(events') <= EventBuffer
      BY <1>s, <1>16, HeadTail DEF Mail!ExecEvent
    <2>1. Mail!TypeOK'
      BY <1>0, <1>16, <2>v
      DEF Mail!ExecEvent, Mail!ExecReturn, Mail!TypeOK, Mail!Busy
    <2>2. HandInv' /\ ReadInv' /\ Mail!NothingVanishes' /\ Mail!PersistedFirst'
      BY <1>0, <1>16, <2>v
      DEF Mail!ExecEvent, Mail!ExecReturn, Mail!TypeOK, Mail!Busy, HandInv,
          ReadInv, Mail!NothingVanishes, Mail!Arrived, Mail!PersistedFirst
    <2> QED
      BY <2>1, <2>2
  <1>17. CASE Mail!ExecTick
    BY <1>0, <1>17
    DEF Mail!ExecTick, Mail!TypeOK, Mail!Busy, HandInv, ReadInv,
        Mail!NothingVanishes, Mail!PersistedFirst, Mail!Arrived
  <1>18. CASE Mail!ExecFetch
    <2>i. /\ Head(inbox) \in Mail!Message
          /\ inbox' \in Seq(Mail!Message)
          /\ Mail!ToSet(inbox) = {Head(inbox)} \union Mail!ToSet(inbox')
      BY <1>s, <1>18, HeadTail DEF Mail!ExecFetch, Mail!Fetch
    <2>h. /\ hand' \in Seq(Mail!Message) /\ Len(hand') = 1 /\ hand' # <<>>
          /\ hand'[1] = Head(inbox) /\ Mail!ToSet(hand') = {Head(inbox)}
      BY <1>18, <2>i DEF Mail!ExecFetch, Mail!Fetch, Mail!ToSet
    <2>e. Mail!ToSet(hand) = {}
      BY <1>18, SMTT(30) DEF Mail!ExecFetch, Mail!ToSet, HandInv, Mail!TypeOK, Mail!Busy
    <2>1. Mail!TypeOK'
      <3>1. inbox' \in Seq(Mail!Message) /\ hand' \in Seq(Mail!Message)
        BY <2>i, <2>h
      <3>2. Len(hand') <= 1
        BY <2>h
      <3> QED
        BY <1>0, <1>18, <2>i, <3>1, <3>2 DEF Mail!ExecFetch, Mail!TypeOK,
           Mail!Busy
    <2>2. HandInv' /\ ReadInv' /\ Mail!NothingVanishes' /\ Mail!PersistedFirst'
      BY <1>0, <1>18, <2>i, <2>h, <2>e
      DEF Mail!ExecFetch, Mail!Fetch, Mail!TypeOK, Mail!Busy, HandInv, ReadInv,
          Mail!NothingVanishes, Mail!Arrived, Mail!PersistedFirst
    <2> QED
      BY <2>1, <2>2
  <1>19. CASE Mail!ExecEmit
    <2>h. hand # <<>> /\ hand[1] \in Mail!Message /\ Mail!ToSet(hand) = {hand[1]}
      BY <1>s, <1>19, OneInHand DEF Mail!ExecEmit, HandInv
    <2>n. /\ hand' = <<>> /\ hand' \in Seq(Mail!Message) /\ Len(hand') = 0
          /\ Mail!ToSet(hand') = {}
      BY <1>19 DEF Mail!ExecEmit, Mail!ToSet
    <2>r. Mail!MakeRoom \in Seq(Mail!Message) /\ Len(Mail!MakeRoom) <= EventBuffer - 1
      BY <1>s, HeadTail DEF Mail!MakeRoom
    <2>v. /\ events' \in Seq(Mail!Message) /\ Len(events') <= EventBuffer
          /\ broadcast' = broadcast \union {hand[1]}
      BY <1>19, <2>h, <2>r, AppendToSet DEF Mail!ExecEmit, Mail!Emit
    <2>b. batch' \in Seq(Mail!Message)
      BY <1>s, <1>19, <2>h, AppendToSet DEF Mail!ExecEmit
    <2>1. Mail!TypeOK'
      <3>1. /\ hand' \in Seq(Mail!Message) /\ Len(hand') <= 1
            /\ events' \in Seq(Mail!Message) /\ Len(events') <= EventBuffer
            /\ broadcast' \subseteq Mail!Message
        BY <2>h, <2>n, <2>v, SMTT(30) DEF Mail!TypeOK
      <3> QED
        BY <1>0, <1>19, <3>1, <2>b DEF Mail!ExecEmit, Mail!TypeOK, Mail!Busy
    <2>2. HandInv' /\ ReadInv' /\ Mail!NothingVanishes' /\ Mail!PersistedFirst'
      BY <1>0, <1>19, <2>h, <2>n, <2>v, <2>b
      DEF Mail!ExecEmit, Mail!Emit, Mail!TypeOK, Mail!Busy, HandInv, ReadInv,
          Mail!NothingVanishes, Mail!Arrived, Mail!PersistedFirst
    <2> QED
      BY <2>1, <2>2
  <1>20. CASE Mail!ExecEmpty
    BY <1>0, <1>20
    DEF Mail!ExecEmpty, Mail!TypeOK, Mail!Busy, HandInv, ReadInv,
        Mail!NothingVanishes, Mail!PersistedFirst, Mail!Arrived
  <1>21. CASE Mail!ExecSyncErr
    <2>i. inbox' \in Seq(Mail!Message)
      BY <1>s, <1>21, HeadTail, ZenonT(30) DEF Mail!ExecSyncErr, Mail!FetchFails
    <2>b. batch' \in Seq(Mail!Message)
      BY <1>21 DEF Mail!ExecSyncErr
    <2>1. Mail!TypeOK'
      BY <1>0, <1>21, <2>i, <2>b
      DEF Mail!ExecSyncErr, Mail!FetchFails, Mail!TypeOK, Mail!Busy
    <2>2. HandInv' /\ ReadInv' /\ Mail!NothingVanishes' /\ Mail!PersistedFirst'
      BY <1>0, <1>21, <2>i, <2>b
      DEF Mail!ExecSyncErr, Mail!FetchFails, Mail!TypeOK, Mail!Busy, HandInv,
          ReadInv, Mail!NothingVanishes, Mail!Arrived, Mail!PersistedFirst
    <2> QED
      BY <2>1, <2>2
  <1>22. CASE Mail!ExecScan
    <2>b. batch' \in Seq(Mail!Message)
      BY <1>22 DEF Mail!ExecScan
    <2>1. Mail!TypeOK'
      BY <1>0, <1>22, <2>b
      DEF Mail!ExecScan, Mail!ExecReturn, Mail!TypeOK, Mail!Busy
    <2>2. HandInv' /\ ReadInv' /\ Mail!NothingVanishes' /\ Mail!PersistedFirst'
      BY <1>0, <1>22, <2>b
      DEF Mail!ExecScan, Mail!ExecReturn, Mail!TypeOK, Mail!Busy, HandInv,
          ReadInv, Mail!NothingVanishes, Mail!Arrived, Mail!PersistedFirst
    <2> QED
      BY <2>1, <2>2
  <1>23. CASE Mail!ExecTimeout
    BY <1>0, <1>23
    DEF Mail!ExecTimeout, Mail!ExecReturn, Mail!TypeOK, Mail!Busy, HandInv,
        ReadInv, Mail!NothingVanishes, Mail!PersistedFirst, Mail!Arrived
  <1>24. CASE Mail!ReadInbox
    <2>r. /\ reads \in 0..MaxReads /\ reads' = reads + 1 /\ reads' \in 0..MaxReads
      BY <1>24, SMTT(30) DEF Mail!ReadInbox, Mail!TypeOK
    <2>d. \A m \in Mail!Row : handed[m] \in 0..reads /\ handed'[m] \in 0..reads'
               /\ handed'[m] = IF m \in unread THEN handed[m] + 1 ELSE handed[m]
      BY <1>24, <2>r, SMTT(30) DEF Mail!ReadInbox, ReadInv, Mail!TypeOK
    <2>f. handed' \in [Mail!Row -> 0..MaxReads]
      <3>1. \A m \in Mail!Row : handed'[m] \in 0..MaxReads
        BY <2>r, <2>d
      <3> QED
        BY <1>24, <3>1 DEF Mail!ReadInbox
    <2>1. Mail!TypeOK'
      BY <1>0, <1>24, <2>r, <2>f
      DEF Mail!ReadInbox, Mail!TypeOK, Mail!Busy
    <2>2. ReadInv'
      <3>0. \A m \in stored' : relabels' = 0 => m.peer = peer'
        BY <1>24 DEF Mail!ReadInbox, ReadInv
      <3> SUFFICES ASSUME NEW m \in Mail!Row
                   PROVE  /\ handed'[m] <= reads'
                          /\ failures' = 0 =>
                               \/ handed'[m] = 0
                               \/ handed'[m] = 1 /\ m \in stored' /\ m \notin unread'
        BY <3>0 DEF ReadInv
      <3>1. handed[m] \in Nat /\ handed'[m] <= reads'
        BY <2>r, <2>d
      <3>2. CASE m \in unread
        BY <1>0, <1>24, <2>d, <3>1, <3>2, SMTT(30) DEF Mail!ReadInbox, ReadInv,
           Mail!TypeOK
      <3>3. CASE m \notin unread
        BY <1>0, <1>24, <2>d, <3>1, <3>3 DEF Mail!ReadInbox, ReadInv
      <3> QED
        BY <3>1, <3>2, <3>3
    <2>3. HandInv' /\ Mail!NothingVanishes' /\ Mail!PersistedFirst'
      BY <1>0, <1>24, <2>r, <2>f
      DEF Mail!ReadInbox, Mail!TypeOK, Mail!Busy, HandInv,
          Mail!NothingVanishes, Mail!Arrived, Mail!PersistedFirst
    <2> QED
      BY <2>1, <2>2, <2>3
  <1>25. CASE Mail!DrainSkip
    BY <1>0, <1>25
    DEF Mail!DrainSkip, Mail!TypeOK, Mail!Busy, HandInv, ReadInv,
        Mail!NothingVanishes, Mail!PersistedFirst, Mail!Arrived
  <1>26. CASE UNCHANGED Mail!vars
    BY <1>0, <1>26
    DEF Mail!vars, Mail!TypeOK, Mail!Busy, HandInv, ReadInv,
        Mail!NothingVanishes, Mail!PersistedFirst, Mail!Arrived
  <1> HIDE DEF MailInv
  <1> QED
    BY <1>1, <1>2, <1>3, <1>4, <1>5, <1>6, <1>7, <1>8, <1>9, <1>10, <1>11,
       <1>12, <1>13, <1>14, <1>15, <1>16, <1>17, <1>18, <1>19, <1>20, <1>21,
       <1>22, <1>23, <1>24, <1>25, <1>26
    DEF Mail!Next, Mail!DrainStep, Mail!ExecStep

\* Mail on its way from the radio to the user (drainLoop, persistIncoming,
\* RepeaterExecContact, storedInbox) is not lost and not shown to watchers
\* before it is stored, however the three interleave, unless a request or a
\* statement fails or a drain is skipped; what repeater_exec fetched is only
\* broadcast.  A row is handed out once, and a message has one row until its
\* sender resolves to another peer.
THEOREM MailKept == MCSpec => []MailIsKept
  <1>1. MCInit => MailInv
    BY MailInit DEF MCInit
  <1>2. MailInv /\ [MCNext]_mcVars => MailInv'
    BY MailStep, MailSteps
  <1>3. MailInv => MailIsKept
    <2>1. ASSUME Mail!TypeOK, ReadInv PROVE Mail!HandedOutOnce
      <3>1. ASSUME NEW q \in stored, NEW m \in stored, relabels = 0, q.msg = m.msg
            PROVE  q = m
        BY <2>1, <3>1 DEF ReadInv, Mail!TypeOK, Mail!Row
      <3> QED
        BY <2>1, <3>1 DEF ReadInv, Mail!HandedOutOnce
    <2> QED
      BY <2>1 DEF MailInv, MailIsKept, Mail!MailIsKept
  <1> QED
    BY <1>1, <1>2, <1>3, PTL DEF MCSpec
=============================================================================
