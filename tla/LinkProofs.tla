----------------------------- MODULE LinkProofs -----------------------------
(***************************************************************************)
(* Theorems about the layers between a command and its answer: the         *)
(* handshake and the first requests behind it (Handshake), the serial and  *)
(* the BLE connection (PacketConn), the routing of decoded packets and the *)
(* places of their fields (CompanionCodec), and the framing of a byte      *)
(* stream (StreamFrame).                                                   *)
(***************************************************************************)
EXTENDS MCLink, TLAPS

-----------------------------------------------------------------------------
(* Handshake: the inductive invariant.                                     *)

Phases == {"start", "self", "query", "info", "up", "asked", "requested",
           "failed", "down"}
Waits == {"self", "info", "asked", "requested"}
Sendable == {"AppStart", "DeviceQuery", "Request"}
Heard == {"SelfInfo", "DeviceInfo", "Reply", "push"}

HsTypes == /\ hsPc \in Phases
           /\ out \in Seq(Sendable) /\ line \in Seq(Heard)
           /\ late \in BOOLEAN /\ wrong \in BOOLEAN

\* What a phase that waits has sent, and what answers it.
CommandOf(c) == CASE c = "self" -> "AppStart"
                  [] c \in {"info", "asked"} -> "DeviceQuery"
                  [] OTHER -> "Request"
AnswerOf(c) == CASE c = "self" -> "SelfInfo"
                 [] c \in {"info", "asked"} -> "DeviceInfo"
                 [] OTHER -> "Reply"

OnlyPushes(s) == \A i \in 1..Len(s) : s[i] = "push"
OneAnswer(s, a) ==
  \E i \in 1..Len(s) : s[i] = a /\ \A j \in 1..Len(s) : j # i => s[j] = "push"

\* Nothing is outstanding; the command is on its way; or its answer is.
Quiet == out = <<>> /\ OnlyPushes(line)
Queued == out = <<CommandOf(hsPc)>> /\ OnlyPushes(line)
Replied == out = <<>> /\ OneAnswer(line, AnswerOf(hsPc))

\* As long as nothing was given up, at most the answer to the command that is
\* waited for is outstanding, and no other command's.
OutstandingInv ==
  ~late => /\ ~wrong
           /\ \/ hsPc = "failed"
              \/ Quiet
              \/ hsPc \in Waits /\ (Queued \/ Replied)

HsInv == HsTypes /\ OutstandingInv

\* What reading and sending do to a line.
LEMMA PushesRead ==
  ASSUME NEW s \in Seq(Heard), OnlyPushes(s), s # <<>>
  PROVE  Head(s) = "push" /\ OnlyPushes(Tail(s)) /\ Tail(s) \in Seq(Heard)
  <1>1. /\ Tail(s) \in Seq(Heard) /\ Len(Tail(s)) = Len(s) - 1
        /\ Len(s) \in Nat /\ 1 \in 1..Len(s) /\ Head(s) = s[1]
        /\ \A k \in 1..Len(Tail(s)) : Tail(s)[k] = s[k + 1]
    OBVIOUS
  <1>2. \A k \in 1..Len(Tail(s)) : k + 1 \in 1..Len(s)
    BY <1>1
  <1> QED
    BY <1>1, <1>2 DEF OnlyPushes

LEMMA AnswerRead ==
  ASSUME NEW s \in Seq(Heard), NEW a, a # "push", OneAnswer(s, a)
  PROVE  /\ s # <<>> /\ Tail(s) \in Seq(Heard)
         /\ \/ Head(s) = "push" /\ OneAnswer(Tail(s), a)
            \/ Head(s) = a /\ OnlyPushes(Tail(s))
  <1>1. PICK i \in 1..Len(s) :
          s[i] = a /\ \A j \in 1..Len(s) : j # i => s[j] = "push"
    BY DEF OneAnswer
  <1>2. s # <<>> /\ Len(s) \in Nat
    BY <1>1
  <1>3. /\ Tail(s) \in Seq(Heard) /\ Len(Tail(s)) = Len(s) - 1
        /\ 1 \in 1..Len(s) /\ Head(s) = s[1]
        /\ \A k \in 1..Len(Tail(s)) : Tail(s)[k] = s[k + 1]
    BY <1>2
  <1>4. \A k \in 1..Len(Tail(s)) : k + 1 \in 1..Len(s) /\ k + 1 # 1
    BY <1>2, <1>3
  <1>5. CASE i = 1
    BY <1>1, <1>2, <1>3, <1>4, <1>5 DEF OnlyPushes
  <1>6. CASE i # 1
    <2>1. i - 1 \in 1..Len(Tail(s)) /\ Tail(s)[i - 1] = a
      BY <1>1, <1>2, <1>3, <1>6
    <2>2. \A k \in 1..Len(Tail(s)) : k # i - 1 => k + 1 # i
      BY <1>2
    <2>3. \A k \in 1..Len(Tail(s)) : k # i - 1 => Tail(s)[k] = "push"
      BY <1>1, <1>3, <1>4, <2>2
    <2>4. OneAnswer(Tail(s), a)
      BY <2>1, <2>3 DEF OneAnswer
    <2> QED
      BY <1>1, <1>2, <1>3, <1>6, <2>4
  <1> QED
    BY <1>5, <1>6

LEMMA LineGrows ==
  ASSUME NEW s \in Seq(Heard), NEW a \in Heard
  PROVE  /\ Append(s, a) \in Seq(Heard)
         /\ OnlyPushes(s) => OneAnswer(Append(s, a), a)
         /\ OnlyPushes(s) => OnlyPushes(Append(s, "push"))
         /\ \A b : OneAnswer(s, b) => OneAnswer(Append(s, "push"), b)
  <1>1. ASSUME NEW x
        PROVE  /\ Len(Append(s, x)) = Len(s) + 1 /\ Len(s) \in Nat
               /\ \A k \in 1..Len(s) : Append(s, x)[k] = s[k]
               /\ Append(s, x)[Len(s) + 1] = x
               /\ \A k \in 1..Len(Append(s, x)) :
                    k \in 1..Len(s) \/ k = Len(s) + 1
               /\ \A k \in 1..Len(s) : k \in 1..Len(Append(s, x))
               /\ Len(s) + 1 \in 1..Len(Append(s, x))
    OBVIOUS
  <1>2. OnlyPushes(s) => OneAnswer(Append(s, a), a)
    BY <1>1 DEF OnlyPushes, OneAnswer
  <1>3. OnlyPushes(s) => OnlyPushes(Append(s, "push"))
    BY <1>1 DEF OnlyPushes
  <1>4. ASSUME NEW b, OneAnswer(s, b) PROVE OneAnswer(Append(s, "push"), b)
    <2>1. PICK i \in 1..Len(s) :
            s[i] = b /\ \A j \in 1..Len(s) : j # i => s[j] = "push"
      BY <1>4 DEF OneAnswer
    <2> QED
      BY <1>1, <2>1 DEF OneAnswer
  <1> QED
    BY <1>2, <1>3, <1>4

\* The device.
LEMMA StepDevice ==
  ASSUME HsInv, Hs!Boot \/ Hs!Answer \/ Hs!Push
  PROVE  HsInv'
  <1>1. UNCHANGED <<hsPc, late, wrong>>
    BY DEF Hs!Boot, Hs!Answer, Hs!Push
  <1>2. CASE Hs!Boot
    <2>1. out # <<>> /\ out' = Tail(out) /\ line' = line
      BY <1>2 DEF Hs!Boot
    <2>2. HsTypes'
      BY <1>1, <2>1 DEF HsInv, HsTypes
    <2>3. Queued => out' = <<>>
      BY <2>1 DEF Queued
    <2> QED
      BY <1>1, <2>1, <2>2, <2>3
      DEF HsInv, OutstandingInv, Quiet, Queued, Replied
  <1>3. CASE Hs!Push
    <2>1. out' = out /\ line' = Append(line, "push")
      BY <1>3 DEF Hs!Push
    <2>2. "push" \in Heard /\ line \in Seq(Heard)
      BY DEF Heard, HsInv, HsTypes
    <2>3. /\ line' \in Seq(Heard) /\ (OnlyPushes(line) => OnlyPushes(line'))
          /\ OneAnswer(line, AnswerOf(hsPc)) => OneAnswer(line', AnswerOf(hsPc))
      BY <2>1, <2>2, LineGrows
    <2>4. HsTypes'
      BY <1>1, <2>1, <2>3 DEF HsInv, HsTypes
    <2>5. /\ Quiet => Quiet'
          /\ Queued => Queued'
          /\ Replied => Replied'
      BY <1>1, <2>1, <2>3 DEF Quiet, Queued, Replied
    <2> QED
      BY <1>1, <2>4, <2>5 DEF HsInv, OutstandingInv
  <1>4. CASE Hs!Answer
    <2> DEFINE a == CASE Head(out) = "AppStart" -> "SelfInfo"
                      [] Head(out) = "DeviceQuery" -> "DeviceInfo"
                      [] Head(out) = "Request" -> "Reply"
    <2>1. out # <<>> /\ out' = Tail(out) /\ line' = Append(line, a)
      BY <1>4 DEF Hs!Answer
    <2>2. out \in Seq(Sendable) /\ line \in Seq(Heard) /\ Head(out) \in Sendable
      BY <2>1 DEF HsInv, HsTypes
    <2>3. a \in Heard
      BY <2>2 DEF Sendable, Heard
    <2>4. hsPc \in Waits /\ Head(out) = CommandOf(hsPc) => a = AnswerOf(hsPc)
      BY DEF Waits, CommandOf, AnswerOf
    <2> HIDE DEF a
    <2>5. line' \in Seq(Heard) /\ (OnlyPushes(line) => OneAnswer(line', a))
      BY <2>1, <2>2, <2>3, LineGrows
    <2>6. HsTypes'
      BY <1>1, <2>1, <2>2, <2>5 DEF HsInv, HsTypes
    <2>7. hsPc \in Waits /\ Queued => Replied'
      BY <1>1, <2>1, <2>2, <2>4, <2>5 DEF Queued, Replied
    <2>8. ~Quiet /\ ~Replied
      BY <2>1 DEF Quiet, Replied
    <2> QED
      BY <1>1, <2>6, <2>7, <2>8 DEF HsInv, OutstandingInv
  <1> QED
    BY <1>2, <1>3, <1>4

\* A command is sent when nothing is outstanding.
LEMMA StepSend ==
  ASSUME HsInv, hsPc \in {"start", "query", "up"}, hsPc' \in Waits,
         Hs!Write(CommandOf(hsPc')), UNCHANGED <<line, late, wrong>>
  PROVE  HsInv'
  <1>1. CommandOf(hsPc') \in Sendable /\ out \in Seq(Sendable)
    BY DEF Waits, CommandOf, Sendable, HsInv, HsTypes
  <1>2. \/ out' = Append(out, CommandOf(hsPc'))
        \/ out' = out
    BY DEF Hs!Write
  <1>3. out' \in Seq(Sendable)
    BY <1>1, <1>2
  <1>4. HsTypes'
    BY <1>3 DEF HsInv, HsTypes, Waits, Phases
  <1>5. ~late => ~wrong /\ Quiet
    BY DEF HsInv, OutstandingInv, Waits
  <1>6. Quiet => Quiet' \/ Queued'
    <2>1. Append(<<>>, CommandOf(hsPc')) = <<CommandOf(hsPc')>>
      BY <1>1
    <2> QED
      BY <1>2, <2>1 DEF Quiet, Queued
  <1> QED
    BY <1>4, <1>5, <1>6 DEF HsInv, OutstandingInv

\* A packet is read by a phase that waits: unless something was given up, a
\* push, or the answer it waits for.
LEMMA StepRead ==
  ASSUME HsInv, line # <<>>, line' = Tail(line), UNCHANGED <<out, late>>,
         hsPc' \in Phases, wrong' \in BOOLEAN,
         hsPc \in Waits \union {"up"},
         Head(line) = "push" => hsPc' = hsPc /\ wrong' = wrong,
         hsPc = "up" => hsPc' = hsPc /\ wrong' = wrong,
         hsPc \in Waits /\ Head(line) = AnswerOf(hsPc) => wrong' = wrong
  PROVE  HsInv'
  <1>1. line \in Seq(Heard) /\ AnswerOf(hsPc) # "push"
    BY DEF HsInv, HsTypes, AnswerOf
  <1>2. line' \in Seq(Heard)
    BY <1>1
  <1>3. HsTypes'
    BY <1>2 DEF HsInv, HsTypes
  <1>4. ASSUME ~late PROVE OutstandingInv'
    <2>1. ~wrong /\ (Quiet \/ (hsPc \in Waits /\ (Queued \/ Replied)))
      BY <1>4 DEF HsInv, OutstandingInv, Waits
    <2>2. CASE Quiet
      <3>1. Head(line) = "push" /\ OnlyPushes(line')
        BY <1>1, <2>2, PushesRead DEF Quiet
      <3> QED
        BY <2>1, <2>2, <3>1 DEF OutstandingInv, Quiet
    <2>3. CASE hsPc \in Waits /\ Queued
      <3>1. Head(line) = "push" /\ OnlyPushes(line')
        BY <1>1, <2>3, PushesRead DEF Queued
      <3> QED
        BY <2>1, <2>3, <3>1 DEF OutstandingInv, Queued
    <2>4. CASE hsPc \in Waits /\ Replied
      <3>1. \/ Head(line) = "push" /\ OneAnswer(line', AnswerOf(hsPc))
            \/ Head(line) = AnswerOf(hsPc) /\ OnlyPushes(line')
        BY <1>1, <2>4, AnswerRead DEF Replied
      <3>2. CASE Head(line) = "push" /\ OneAnswer(line', AnswerOf(hsPc))
        BY <2>1, <2>4, <3>2 DEF OutstandingInv, Replied
      <3>3. CASE Head(line) = AnswerOf(hsPc) /\ OnlyPushes(line')
        BY <2>1, <2>4, <3>3 DEF OutstandingInv, Quiet, Replied
      <3> QED
        BY <3>1, <3>2, <3>3
    <2> QED
      BY <2>1, <2>2, <2>3, <2>4
  <1> QED
    BY <1>3, <1>4 DEF HsInv, OutstandingInv

\* The inductive step.
LEMMA StepHsInv ==
  ASSUME HsInv, [Hs!Next]_(Hs!vars)
  PROVE  HsInv'
  <1>1. CASE UNCHANGED Hs!vars
    BY <1>1 DEF Hs!vars, HsInv, HsTypes, OutstandingInv, Quiet, Queued, Replied
  <1>2. CASE Hs!Boot \/ Hs!Answer \/ Hs!Push
    BY <1>2, StepDevice
  <1>3. CASE Hs!SendAppStart
    BY <1>3, StepSend DEF Hs!SendAppStart, CommandOf, Waits
  <1>4. CASE Hs!SendQuery
    BY <1>4, StepSend DEF Hs!SendQuery, CommandOf, Waits
  <1>5. CASE Hs!Ask
    BY <1>5, StepSend DEF Hs!Ask, CommandOf, Waits
  <1>6. CASE Hs!ReadSelf
    <2>1. /\ hsPc = "self" /\ line # <<>> /\ line' = Tail(line)
          /\ UNCHANGED <<out, late, wrong>>
      BY <1>6 DEF Hs!ReadSelf, Hs!TakePacket, Hs!Readable
    <2>2. /\ hsPc' \in Phases /\ (Head(line) = "push" => hsPc' = "self")
      BY <1>6 DEF Hs!ReadSelf, Phases
    <2>3. wrong' \in BOOLEAN
      BY <2>1 DEF HsInv, HsTypes
    <2> QED
      BY <2>1, <2>2, <2>3, StepRead DEF Waits
  <1>7. CASE Hs!ReadInfo
    <2>1. /\ hsPc = "info" /\ line # <<>> /\ line' = Tail(line)
          /\ UNCHANGED <<out, late, wrong>>
      BY <1>7 DEF Hs!ReadInfo, Hs!TakePacket, Hs!Readable
    <2>2. /\ hsPc' \in Phases /\ (Head(line) = "push" => hsPc' = "info")
      BY <1>7 DEF Hs!ReadInfo, Phases
    <2>3. wrong' \in BOOLEAN
      BY <2>1 DEF HsInv, HsTypes
    <2> QED
      BY <2>1, <2>2, <2>3, StepRead DEF Waits
  <1>8. CASE Hs!Deliver
    <2>1. /\ hsPc \in {"up", "asked", "requested"}
          /\ line # <<>> /\ line' = Tail(line) /\ UNCHANGED <<out, late>>
      BY <1>8 DEF Hs!Deliver, Hs!Waiting, Hs!TakePacket, Hs!Readable
    <2>2. /\ hsPc' \in Phases
          /\ Head(line) = "push" => hsPc' = hsPc /\ wrong' = wrong
          /\ hsPc = "up" => hsPc' = hsPc /\ wrong' = wrong
      BY <1>8, <2>1 DEF Hs!Deliver, Hs!Waiting, Phases
    <2>3. wrong' = wrong
          \/ (wrong' = (wrong \/ Head(line) # Hs!Wanted) /\ Hs!Waiting)
      BY <1>8 DEF Hs!Deliver
    <2>4. wrong \in BOOLEAN
      BY DEF HsInv, HsTypes
    <2>5. wrong' \in BOOLEAN
      BY <2>3, <2>4
    <2>6. hsPc \in Waits /\ Head(line) = AnswerOf(hsPc) => wrong' = wrong
      <3>1. Hs!Waiting => Hs!Wanted = AnswerOf(hsPc)
        BY DEF Hs!Waiting, Hs!Wanted, AnswerOf
      <3> QED
        BY <2>3, <2>4, <3>1
    <2> QED
      BY <2>1, <2>2, <2>5, <2>6, StepRead DEF Waits
  <1>9. CASE Hs!SelfTimeout \/ Hs!InfoTimeout \/ Hs!AskTimeout
             \/ Hs!ReadLoopFails
    <2>1. /\ late' = TRUE /\ UNCHANGED <<out, line, wrong>>
      BY <1>9 DEF Hs!SelfTimeout, Hs!InfoTimeout, Hs!AskTimeout,
                  Hs!ReadLoopFails, Hs!GiveUp, Hs!PastDeadline, Hs!link
    <2>2. hsPc' \in Phases
      BY <1>9 DEF Hs!SelfTimeout, Hs!InfoTimeout, Hs!AskTimeout,
                  Hs!ReadLoopFails, Phases
    <2>3. late' \in BOOLEAN
      BY <2>1
    <2> QED
      BY <2>1, <2>2, <2>3 DEF HsInv, HsTypes, OutstandingInv
  <1>10. CASE Hs!QueryGivenUp \/ Hs!Fail
    <2>1. /\ UNCHANGED <<out, line, late, wrong>>
          /\ \/ hsPc = "query" /\ hsPc' = "up"
             \/ hsPc' = "failed"
      BY <1>10 DEF Hs!QueryGivenUp, Hs!Fail, Hs!link
    <2>2. HsTypes'
      BY <2>1 DEF HsInv, HsTypes, Phases
    <2>3. Quiet => Quiet'
      BY <2>1 DEF Quiet
    <2> QED
      BY <2>1, <2>2, <2>3 DEF HsInv, OutstandingInv, Waits
  <1> QED
    BY <1>1, <1>2, <1>3, <1>4, <1>5, <1>6, <1>7, <1>8, <1>9, <1>10
    DEF Hs!Next, Hs!Host

\* A request of a new connection gets another command's answer only if the
\* handshake or a request before it was given up, on every transport, for any
\* boot loss, line and number of pushes (handshake, deviceQueryWithRetry).
THEOREM StaleIsLate == MCSpec => []StaleOnlyAfterTimeout
  <1>1. MCInit => HsInv
    <2> SUFFICES ASSUME Hs!Init PROVE HsInv
      BY DEF MCInit
    <2>1. /\ hsPc = "start" /\ out = <<>> /\ line = <<>>
          /\ late = FALSE /\ wrong = FALSE
      BY DEF Hs!Init
    <2>2. out \in Seq(Sendable) /\ line \in Seq(Heard) /\ OnlyPushes(line)
      BY <2>1 DEF OnlyPushes
    <2>3. late \in BOOLEAN /\ wrong \in BOOLEAN
      BY <2>1
    <2>4. HsTypes
      BY <2>1, <2>2, <2>3 DEF HsTypes, Phases
    <2> QED
      BY <2>1, <2>2, <2>4 DEF HsInv, OutstandingInv, Quiet
  <1>2. HsInv /\ [MCNext]_mcVars => HsInv'
    <2> SUFFICES ASSUME HsInv, [MCNext]_mcVars PROVE HsInv'
      OBVIOUS
    <2>1. [Hs!Next]_(Hs!vars)
      BY DEF MCNext, mcVars, hsVars, Hs!vars
    <2> QED
      BY <2>1, StepHsInv
  <1>3. HsInv => StaleOnlyAfterTimeout
    BY DEF HsInv, OutstandingInv, StaleOnlyAfterTimeout,
           Hs!StaleOnlyAfterTimeout
  <1> QED
    BY <1>1, <1>2, <1>3, PTL DEF MCSpec

-----------------------------------------------------------------------------
(* PacketConn: the inductive invariant.                                    *)

Feeders == {"off", "read", "put", "drop", "last", "ended"}
Feeding == {"put", "drop", "last"}

InTypes == /\ frames \in Nat /\ packets \in Seq(Nat) /\ connGot \in Seq(Nat)
           /\ feeder \in Feeders

\* The goroutine that feeds the channel has the newest packet, or none.
HandInv == /\ feeder \in Feeding => hand = <<frames>>
           /\ feeder \notin Feeding => hand = <<>>

\* The BLE callback has made room before its last attempt.
RoomInv == /\ Len(packets) <= Capacity
           /\ feeder = "last" => Len(packets) < Capacity

\* Over serial the channel goes on where the read loop is, and what both have
\* is all the port has given while the goroutine reads.
SerialInv ==
  connKind = "serial" =>
    /\ feeder \notin {"drop", "last"}
    /\ \A i \in 1..Len(connGot) : connGot[i] = i
    /\ \A j \in 1..Len(packets) : packets[j] = Len(connGot) + j
    /\ feeder \in {"off", "read"} => Len(connGot) + Len(packets) = frames
    /\ feeder = "put" => Len(connGot) + Len(packets) + 1 = frames

\* Packets are in order in the channel and behind it.
RisingInv ==
  /\ \A i, j \in 1..Len(connGot) : i < j => connGot[i] < connGot[j]
  /\ \A i, j \in 1..Len(packets) : i < j => packets[i] < packets[j]
  /\ \A i \in 1..Len(connGot) : \A j \in 1..Len(packets) :
       connGot[i] < packets[j]

Top == IF feeder \in Feeding THEN frames - 1 ELSE frames
BelowInv == /\ \A i \in 1..Len(connGot) : connGot[i] <= Top
            /\ \A j \in 1..Len(packets) : packets[j] <= Top
            /\ feeder \in Feeding => frames > 0

\* The newest packet is the last one of the channel, or of the read loop.
NewestInv ==
  (frames > 0 /\ ~done /\ feeder \notin Feeding) =>
    \/ packets # <<>> /\ packets[Len(packets)] = frames
    \/ packets = <<>> /\ connGot # <<>> /\ connGot[Len(connGot)] = frames

InInv == InTypes /\ HandInv /\ RoomInv /\ SerialInv /\ RisingInv /\ BelowInv
         /\ NewestInv

\* Before Open has succeeded nothing feeds the channel.
EarlyInv == stage \in {"new", "scan", "found", "linked"} => feeder = "off"

\* The write whose caller waits is the newest; the others have none.
OutInv ==
  /\ writes \in Nat /\ current \in {0, writes} /\ air \in Seq(Nat)
  /\ flying \subseteq 1..writes /\ flying \subseteq gaveUp \union {current}
  /\ \A i \in 1..Len(air) : air[i] \in 1..writes
  /\ \A i, j \in 1..Len(air) : i < j /\ air[i] > air[j] => air[j] \in gaveUp

ConnInv == InInv /\ EarlyInv /\ OutInv /\ Conn!NothingLeftOpen

\* What a rising sequence needs to rise with one more element.
LEMMA RisesOn ==
  ASSUME NEW s, NEW t, NEW n \in Nat, NEW x \in Nat,
         \A k \in 1..n : s[k] \in Nat /\ s[k] < x /\ t[k] = s[k],
         t[n + 1] = x,
         \A i, j \in 1..n : i < j => s[i] < s[j]
  PROVE  \A i, j \in 1..(n + 1) : i < j => t[i] < t[j]
  <1> SUFFICES ASSUME NEW i \in 1..(n + 1), NEW j \in 1..(n + 1), i < j
               PROVE  t[i] < t[j]
    OBVIOUS
  <1>1. i \in 1..n
    OBVIOUS
  <1>2. CASE j \in 1..n
    BY <1>1, <1>2
  <1>3. CASE j = n + 1
    BY <1>1, <1>3
  <1> QED
    BY <1>2, <1>3

\* What one sequence loses the other one gains.
LEMMA MovesOne ==
  ASSUME NEW a \in Nat, NEW b \in Nat, NEW c \in Nat, NEW d \in Nat,
         c = a + 1, d + 1 = b
  PROVE  c + d = a + b
  OBVIOUS

\* Steps that move no packet.
LEMMA InSame ==
  ASSUME InInv, UNCHANGED <<connKind, frames, packets, hand, connGot>>,
         done => done',
         \/ feeder' = feeder
         \/ feeder = "off" /\ feeder' = "read"
         \/ feeder = "read" /\ feeder' = "ended"
  PROVE  InInv'
  <1>1. /\ feeder' \in Feeders
        /\ feeder' \in Feeding <=> feeder \in Feeding
        /\ feeder' \in {"put", "drop", "last"} => feeder' = feeder
    BY DEF InInv, InTypes, Feeders, Feeding
  <1>2. InTypes' /\ HandInv' /\ RoomInv'
    BY <1>1 DEF InInv, InTypes, HandInv, RoomInv
  <1>3. SerialInv'
    BY <1>1 DEF InInv, SerialInv
  <1>4. RisingInv'
    BY DEF InInv, RisingInv
  <1>5. Top' = Top
    BY <1>1 DEF Top
  <1>6. BelowInv'
    BY <1>1, <1>5 DEF InInv, BelowInv
  <1>7. NewestInv'
    BY <1>1 DEF InInv, NewestInv
  <1> QED
    BY <1>2, <1>3, <1>4, <1>6, <1>7 DEF InInv

\* A packet arrives.
LEMMA InReceive ==
  ASSUME InInv, Conn!Receive
  PROVE  InInv'
  <1>1. /\ feeder = "read" /\ feeder' = "put" /\ frames' = frames + 1
        /\ hand' = <<frames'>>
        /\ UNCHANGED <<connKind, packets, connGot, done>>
    BY DEF Conn!Receive, Conn!Feed, Conn!FeederOnly
  <1>2. frames \in Nat /\ Top = frames /\ Top' = frames
    BY <1>1 DEF InInv, InTypes, Top, Feeding
  <1>3. Len(connGot) \in Nat /\ Len(packets) \in Nat
    BY DEF InInv, InTypes
  <1>4. InTypes' /\ HandInv' /\ RoomInv' /\ NewestInv'
    BY <1>1, <1>2
    DEF InInv, InTypes, HandInv, RoomInv, NewestInv, Feeders, Feeding
  <1>5. SerialInv'
    BY <1>1, <1>2, <1>3 DEF InInv, SerialInv
  <1>6. RisingInv'
    BY <1>1 DEF InInv, RisingInv
  <1>7. BelowInv'
    BY <1>1, <1>2 DEF InInv, BelowInv
  <1> QED
    BY <1>4, <1>5, <1>6, <1>7 DEF InInv

\* The packet in hand is stored behind the others.
LEMMA InStored ==
  ASSUME InInv, feeder \in {"put", "last"}, Conn!Stored,
         UNCHANGED <<connKind, frames, connGot, done>>
  PROVE  InInv'
  <1>1. /\ Len(packets) < Capacity /\ packets' = packets \o hand
        /\ hand' = <<>> /\ feeder' = "read" /\ hand = <<frames>>
    BY DEF Conn!Stored, Conn!Feed, InInv, HandInv, Feeding
  <1>2. /\ frames \in Nat /\ packets \in Seq(Nat) /\ connGot \in Seq(Nat)
        /\ Len(packets) \in Nat /\ Len(connGot) \in Nat
    BY DEF InInv, InTypes
  <1>3. /\ packets' \in Seq(Nat) /\ Len(packets') = Len(packets) + 1
        /\ \A k \in 1..Len(packets) : packets'[k] = packets[k]
        /\ packets'[Len(packets) + 1] = frames
    BY <1>1, <1>2
  <1>4. \A k \in 1..Len(packets') : k \in 1..Len(packets) \/ k = Len(packets')
    BY <1>2, <1>3
  <1>5. Top = frames - 1 /\ Top' = frames /\ frames > 0
    BY <1>1 DEF Top, InInv, BelowInv, Feeding
  <1>6. /\ \A k \in 1..Len(packets) : packets[k] \in Nat /\ packets[k] < frames
        /\ \A k \in 1..Len(connGot) : connGot[k] \in Nat /\ connGot[k] < frames
    BY <1>2, <1>5 DEF InInv, BelowInv
  <1>7. InTypes' /\ HandInv' /\ RoomInv'
    BY <1>1, <1>2, <1>3, MCLinkAssumption
    DEF InTypes, HandInv, RoomInv, Feeders, Feeding
  <1>8. SerialInv'
    <2> SUFFICES ASSUME connKind = "serial" PROVE SerialInv'
      BY DEF SerialInv
    <2>1. feeder = "put" /\ Len(connGot) + Len(packets) + 1 = frames
      BY DEF InInv, SerialInv
    <2>2. Len(connGot) + Len(packets') = frames
      <3> DEFINE m == Len(packets)
                 g == Len(connGot)
                 q == Len(packets')
      <3>1. m \in Nat /\ g \in Nat /\ q = m + 1 /\ g + m + 1 = frames
        BY <1>2, <1>3, <2>1
      <3> HIDE DEF m, g, q
      <3>2. g + q = frames
        BY <3>1
      <3> QED
        BY <3>2 DEF g, q
    <2>3. \A j \in 1..Len(packets') : packets'[j] = Len(connGot) + j
      <3> SUFFICES ASSUME NEW j \in 1..Len(packets')
                   PROVE  packets'[j] = Len(connGot) + j
        OBVIOUS
      <3>1. CASE j \in 1..Len(packets)
        BY <1>3, <3>1 DEF InInv, SerialInv
      <3>2. CASE j = Len(packets')
        BY <1>3, <2>2, <3>2
      <3> QED
        BY <1>4, <3>1, <3>2
    <2> QED
      BY <1>1, <2>2, <2>3 DEF InInv, SerialInv
  <1>9. RisingInv'
    <2>1. \A i, j \in 1..Len(packets') : i < j => packets'[i] < packets'[j]
      <3>1. \A i, j \in 1..Len(packets) : i < j => packets[i] < packets[j]
        BY DEF InInv, RisingInv
      <3>2. \A k \in 1..Len(packets) : /\ packets[k] \in Nat
                                       /\ packets[k] < frames
                                       /\ packets'[k] = packets[k]
        BY <1>3, <1>6
      <3>3. /\ Len(packets) \in Nat /\ frames \in Nat
            /\ packets'[Len(packets) + 1] = frames
        BY <1>2, <1>3
      <3> DEFINE n == Len(packets)
                 q == packets'
                 r == packets
                 x == frames
      <3> HIDE DEF n, q, r, x
      <3>4. /\ n \in Nat /\ x \in Nat /\ q[n + 1] = x
            /\ \A k \in 1..n : r[k] \in Nat /\ r[k] < x /\ q[k] = r[k]
            /\ \A i, j \in 1..n : i < j => r[i] < r[j]
        BY <3>1, <3>2, <3>3, Zenon DEF n, q, r, x
      <3>5. \A i, j \in 1..(n + 1) : i < j => q[i] < q[j]
        BY <3>4, RisesOn, ZenonT(30)
      <3> QED
        BY <1>3, <3>5 DEF n, q
    <2>2. \A i \in 1..Len(connGot) : \A j \in 1..Len(packets') :
            connGot[i] < packets'[j]
      BY <1>3, <1>4, <1>6 DEF InInv, RisingInv
    <2> QED
      BY <2>1, <2>2 DEF InInv, RisingInv
  <1>10. BelowInv'
    BY <1>1, <1>2, <1>3, <1>4, <1>5, <1>6 DEF BelowInv, Feeding
  <1>11. NewestInv'
    <2>1. packets' # <<>>
      BY <1>2, <1>3
    <2> QED
      BY <1>3, <2>1 DEF NewestInv
  <1> QED
    BY <1>7, <1>8, <1>9, <1>10, <1>11 DEF InInv

\* The packet in hand is given up, which happens only behind Close.
LEMMA InGivenUp ==
  ASSUME InInv, feeder = "put", done, hand' = <<>>,
         feeder' = IF connKind = "serial" THEN "ended" ELSE "read",
         UNCHANGED <<connKind, frames, packets, connGot, done>>
  PROVE  InInv'
  <1>1. frames \in Nat /\ Top = frames - 1 /\ Top' = frames
    BY DEF InInv, InTypes, Top, Feeding
  <1>2. InTypes' /\ HandInv' /\ RoomInv' /\ NewestInv'
    BY DEF InInv, InTypes, HandInv, RoomInv, NewestInv, Feeders, Feeding
  <1>3. SerialInv' /\ RisingInv'
    BY DEF InInv, SerialInv, RisingInv
  <1>4. \A k \in 1..Len(packets) : packets[k] \in Nat
    BY DEF InInv, InTypes
  <1>5. \A k \in 1..Len(connGot) : connGot[k] \in Nat
    BY DEF InInv, InTypes
  <1>6. BelowInv'
    BY <1>1, <1>4, <1>5 DEF InInv, BelowInv, Feeding
  <1> QED
    BY <1>2, <1>3, <1>6 DEF InInv

\* The BLE callback finds the channel full and drops the oldest packet.
LEMMA InDrop ==
  ASSUME InInv,
         \/ /\ feeder = "put" /\ feeder' = "drop" /\ connKind = "ble"
            /\ packets' = packets
         \/ /\ feeder = "drop" /\ feeder' = "last"
            /\ packets' = IF packets = <<>> THEN packets ELSE Tail(packets),
         UNCHANGED <<connKind, frames, hand, connGot, done>>
  PROVE  InInv'
  <1>1. connKind # "serial"
    BY DEF InInv, SerialInv
  <1>2. packets \in Seq(Nat) /\ connGot \in Seq(Nat) /\ Len(packets) \in Nat
    BY DEF InInv, InTypes
  <1>3. \E off \in Nat :
          /\ packets' \in Seq(Nat) /\ Len(packets') \in Nat
          /\ Len(packets') + off = Len(packets)
          /\ feeder' = "last" => off = 1 \/ Len(packets) = 0
          /\ \A k \in 1..Len(packets') : /\ k + off \in 1..Len(packets)
                                         /\ packets'[k] = packets[k + off]
    <2>1. CASE packets' = packets
      <3>1. feeder' = "last" => Len(packets) = 0
        <4>1. Len(Tail(packets)) # Len(packets) \/ packets = <<>>
          BY <1>2
        <4> QED
          BY <1>2, <2>1, <4>1
      <3>2. \A k \in 1..Len(packets) : k + 0 = k
        BY <1>2
      <3>3. Len(packets) + 0 = Len(packets)
        BY <1>2
      <3> QED
        BY <1>2, <2>1, <3>1, <3>2, <3>3
    <2>2. CASE packets # <<>> /\ packets' = Tail(packets)
      <3>1. /\ packets' \in Seq(Nat) /\ Len(packets') + 1 = Len(packets)
            /\ Len(packets') \in Nat
            /\ \A k \in 1..Len(packets') : packets'[k] = packets[k + 1]
        BY <1>2, <2>2
      <3>2. \A k \in 1..Len(packets') : k + 1 \in 1..Len(packets)
        BY <1>2, <3>1
      <3> QED
        BY <3>1, <3>2
    <2> QED
      BY <2>1, <2>2
  <1>4. PICK off \in Nat :
          /\ packets' \in Seq(Nat) /\ Len(packets') \in Nat
          /\ Len(packets') + off = Len(packets)
          /\ feeder' = "last" => off = 1 \/ Len(packets) = 0
          /\ \A k \in 1..Len(packets') : /\ k + off \in 1..Len(packets)
                                         /\ packets'[k] = packets[k + off]
    BY <1>3
  <1>5. InTypes' /\ HandInv' /\ NewestInv'
    BY <1>4
    DEF InInv, InTypes, HandInv, NewestInv, Feeders, Feeding
  <1>6. RoomInv'
    BY <1>2, <1>4, MCLinkAssumption DEF InInv, RoomInv
  <1>7. RisingInv'
    <2>1. \A i, j \in 1..Len(packets') : i < j => i + off < j + off
      BY <1>4
    <2> QED
      BY <1>4, <2>1 DEF InInv, RisingInv
  <1>8. Top' = Top /\ (feeder' \in Feeding <=> feeder \in Feeding)
    BY DEF Top, Feeding
  <1>9. BelowInv'
    BY <1>4, <1>8 DEF InInv, BelowInv
  <1> QED
    BY <1>1, <1>5, <1>6, <1>7, <1>9 DEF InInv, SerialInv

\* The read loop takes the oldest packet.
LEMMA InRead ==
  ASSUME InInv, Conn!ReadPacket
  PROVE  InInv'
  <1> DEFINE p == Head(packets)
  <1>1. /\ packets # <<>> /\ connGot' = Append(connGot, p)
        /\ packets' = Tail(packets)
        /\ UNCHANGED <<connKind, frames, hand, feeder, done>>
    BY DEF Conn!ReadPacket
  <1>2. /\ frames \in Nat /\ packets \in Seq(Nat) /\ connGot \in Seq(Nat)
        /\ Len(packets) \in Nat /\ Len(connGot) \in Nat
    BY DEF InInv, InTypes
  <1>3. /\ packets' \in Seq(Nat) /\ Len(packets') + 1 = Len(packets)
        /\ Len(packets') \in Nat /\ 1 \in 1..Len(packets) /\ p = packets[1]
        /\ p \in Nat
        /\ \A k \in 1..Len(packets') : packets'[k] = packets[k + 1]
    BY <1>1, <1>2
  <1>4. \A k \in 1..Len(packets') : k + 1 \in 1..Len(packets) /\ 1 < k + 1
    BY <1>2, <1>3
  <1> HIDE DEF p
  <1>5. /\ connGot' \in Seq(Nat) /\ Len(connGot') = Len(connGot) + 1
        /\ \A k \in 1..Len(connGot) : connGot'[k] = connGot[k]
        /\ connGot'[Len(connGot) + 1] = p
    BY <1>1, <1>2, <1>3
  <1>6. \A k \in 1..Len(connGot') : k \in 1..Len(connGot) \/ k = Len(connGot')
    BY <1>2, <1>5
  <1>7. InTypes' /\ HandInv' /\ RoomInv'
    BY <1>1, <1>2, <1>3, <1>5, MCLinkAssumption
    DEF InInv, InTypes, HandInv, RoomInv
  <1>8. SerialInv'
    <2> SUFFICES ASSUME connKind = "serial" PROVE SerialInv'
      BY <1>1 DEF SerialInv
    <2>1. p = Len(connGot) + 1
      BY <1>3 DEF InInv, SerialInv
    <2>2. \A i \in 1..Len(connGot') : connGot'[i] = i
      BY <1>5, <1>6, <2>1 DEF InInv, SerialInv
    <2>3. \A j \in 1..Len(packets') : packets'[j] = Len(connGot') + j
      <3>1. \A j \in 1..Len(packets') : packets'[j] = Len(connGot) + (j + 1)
        BY <1>3, <1>4 DEF InInv, SerialInv
      <3> QED
        BY <1>2, <1>3, <1>5, <3>1
    <2>4. Len(connGot') + Len(packets') = Len(connGot) + Len(packets)
      <3>1. /\ Len(connGot) \in Nat /\ Len(packets) \in Nat
            /\ Len(connGot') \in Nat /\ Len(packets') \in Nat
            /\ Len(connGot') = Len(connGot) + 1
            /\ Len(packets') + 1 = Len(packets)
        BY <1>2, <1>3, <1>5
      <3> QED
        BY <3>1, MovesOne, ZenonT(30)
    <2> QED
      BY <1>1, <2>2, <2>3, <2>4 DEF InInv, SerialInv
  <1>9. RisingInv'
    <2>1. \A i, j \in 1..Len(connGot') : i < j => connGot'[i] < connGot'[j]
      <3>1. \A i, j \in 1..Len(connGot) : i < j => connGot[i] < connGot[j]
        BY DEF InInv, RisingInv
      <3>2. \A k \in 1..Len(connGot) : /\ connGot[k] \in Nat /\ connGot[k] < p
                                       /\ connGot'[k] = connGot[k]
        BY <1>2, <1>3, <1>5, SMTT(30) DEF InInv, RisingInv
      <3>3. /\ Len(connGot) \in Nat /\ p \in Nat
            /\ connGot'[Len(connGot) + 1] = p
        BY <1>2, <1>3, <1>5
      <3> DEFINE n == Len(connGot)
                 q == connGot'
      <3> HIDE DEF n, q
      <3>4. \A i, j \in 1..(n + 1) : i < j => q[i] < q[j]
        BY <3>1, <3>2, <3>3, RisesOn, ZenonT(30) DEF n, q
      <3> QED
        BY <1>5, <3>4 DEF n, q
    <2>2. \A i, j \in 1..Len(packets') : i < j => i + 1 < j + 1
      BY <1>3
    <2>3. \A i, j \in 1..Len(packets') : i < j => packets'[i] < packets'[j]
      BY <1>3, <1>4, <2>2 DEF InInv, RisingInv
    <2>4. \A i \in 1..Len(connGot') : \A j \in 1..Len(packets') :
            connGot'[i] < packets'[j]
      BY <1>3, <1>4, <1>5, <1>6, ZenonT(30) DEF InInv, RisingInv
    <2> QED
      BY <2>1, <2>3, <2>4 DEF RisingInv
  <1>10. BelowInv'
    <2>1. Top' = Top
      BY <1>1 DEF Top
    <2> QED
      BY <1>1, <1>3, <1>4, <1>5, <1>6, <2>1 DEF InInv, BelowInv
  <1>11. NewestInv'
    <2> SUFFICES ASSUME frames > 0, ~done, feeder \notin Feeding
                 PROVE  NewestInv'
      BY <1>1 DEF NewestInv
    <2>1. packets[Len(packets)] = frames
      BY <1>1 DEF InInv, NewestInv
    <2>2. CASE Len(packets') = 0
      <3>1. Len(packets) = 1 /\ packets' = <<>>
        BY <1>3, <2>2
      <3>2. p = frames
        BY <1>3, <2>1, <3>1
      <3>3. connGot' # <<>> /\ connGot'[Len(connGot')] = frames
        BY <1>2, <1>5, <3>2
      <3> QED
        BY <1>1, <3>1, <3>3 DEF NewestInv
    <2>3. CASE Len(packets') # 0
      <3>1. packets' # <<>> /\ Len(packets') \in 1..Len(packets')
        BY <1>3, <2>3
      <3>2. packets'[Len(packets')] = packets[Len(packets') + 1]
        BY <1>3, <3>1
      <3>3. packets'[Len(packets')] = frames
        BY <1>3, <2>1, <3>2
      <3> QED
        BY <1>1, <3>1, <3>3 DEF NewestInv
    <2> QED
      BY <2>2, <2>3
  <1> QED
    BY <1>7, <1>8, <1>9, <1>10, <1>11 DEF InInv

\* Steps of the goroutine that feeds the channel.
LEMMA InPut ==
  ASSUME InInv, Conn!Put \/ Conn!DropOldest \/ Conn!PutLast
  PROVE  InInv'
  <1>1. UNCHANGED <<connKind, frames, connGot, done>>
    BY DEF Conn!Put, Conn!DropOldest, Conn!PutLast, Conn!FeederOnly
  <1>2. CASE feeder \in {"put", "last"} /\ Conn!Stored
    BY <1>1, <1>2, InStored
  <1>3. CASE /\ feeder = "put" /\ done /\ UNCHANGED packets
             /\ Conn!Feed(<<>>, IF connKind = "serial" THEN "ended" ELSE "read")
    BY <1>1, <1>3, InGivenUp DEF Conn!Feed
  <1>4. CASE /\ feeder = "put" /\ connKind = "ble" /\ UNCHANGED packets
             /\ Conn!Feed(hand, "drop")
    BY <1>1, <1>4, InDrop DEF Conn!Feed
  <1>5. CASE Conn!DropOldest
    BY <1>1, <1>5, InDrop DEF Conn!DropOldest, Conn!Feed
  <1>6. CASE feeder = "last" /\ Len(packets) = Capacity
    <2>1. Len(packets) < Capacity /\ Len(packets) \in Nat
      BY <1>6 DEF InInv, RoomInv, InTypes
    <2> QED
      BY <1>6, <2>1, MCLinkAssumption
  <1> QED
    BY <1>2, <1>3, <1>4, <1>5, <1>6 DEF Conn!Put, Conn!PutLast

\* Steps of Open, Close and of the read loop's end.
LEMMA InOthers ==
  ASSUME InInv, EarlyInv,
         \/ Conn!OpenSerial \/ Conn!OpenBle \/ Conn!ScanMatch \/ Conn!StopScan
         \/ Conn!ScanFails \/ Conn!ScanTimeout
             \/ Conn!ScanStarts \/ Conn!LeftMatch \/ Conn!Connect \/ Conn!Subscribe
         \/ Conn!ReadFails \/ Conn!ReadEnds \/ Conn!CallClose \/ Conn!Close
  PROVE  InInv'
  <1>1. CASE Conn!OpenSerial \/ Conn!Subscribe
    <2>1. feeder = "off"
      BY <1>1 DEF EarlyInv, Conn!OpenSerial, Conn!Subscribe
    <2>2. /\ UNCHANGED <<connKind, frames, packets, hand, connGot, done>>
          /\ feeder' = feeder \/ feeder' = "read"
      BY <1>1 DEF Conn!OpenSerial, Conn!Subscribe, Conn!Opened, Conn!inbound
    <2> QED
      BY <2>1, <2>2, InSame
  <1>2. CASE \/ Conn!OpenBle \/ Conn!ScanMatch \/ Conn!StopScan
             \/ Conn!ScanFails \/ Conn!ScanTimeout
             \/ Conn!ScanStarts \/ Conn!LeftMatch \/ Conn!Connect
    <2>1. UNCHANGED <<connKind, frames, packets, hand, connGot, done, feeder>>
      BY <1>2 DEF Conn!OpenBle, Conn!ScanMatch, Conn!StopScan,
                  Conn!ScanFails, Conn!ScanTimeout,
                Conn!ScanStarts, Conn!LeftMatch, Conn!Connect, Conn!inbound
    <2> QED
      BY <2>1, InSame
  <1>3. CASE Conn!ReadFails
    <2>1. hand = <<>>
      BY <1>3 DEF Conn!ReadFails, InInv, HandInv, Feeding
    <2>2. /\ UNCHANGED <<connKind, frames, packets, hand, connGot, done>>
          /\ feeder = "read" /\ feeder' = "ended"
      BY <1>3, <2>1 DEF Conn!ReadFails, Conn!Feed, Conn!FeederOnly
    <2> QED
      BY <2>2, InSame
  <1>4. CASE Conn!ReadEnds \/ Conn!CallClose \/ Conn!Close
    <2>1. /\ UNCHANGED <<connKind, frames, packets, hand, connGot, feeder>>
          /\ done => done'
      BY <1>4 DEF Conn!ReadEnds, Conn!CallClose, Conn!Close, Conn!inbound
    <2> QED
      BY <2>1, InSame
  <1> QED
    BY <1>1, <1>2, <1>3, <1>4

\* Only Open starts the goroutine.
LEMMA EarlyStep ==
  ASSUME EarlyInv, Conn!Next
  PROVE  EarlyInv'
  <1>1. CASE \/ Conn!OpenSerial \/ Conn!OpenBle \/ Conn!ScanMatch
             \/ Conn!StopScan \/ Conn!ScanFails \/ Conn!ScanTimeout
             \/ Conn!ScanStarts \/ Conn!LeftMatch \/ Conn!Connect
             \/ Conn!Subscribe
    BY <1>1 DEF EarlyInv, Conn!OpenSerial, Conn!OpenBle, Conn!ScanMatch,
                Conn!StopScan, Conn!ScanFails, Conn!ScanTimeout,
                Conn!ScanStarts, Conn!LeftMatch, Conn!Connect, Conn!Subscribe,
                Conn!Opened, Conn!inbound
  <1>2. CASE \/ Conn!Receive \/ Conn!ReadFails \/ Conn!Put \/ Conn!DropOldest
             \/ Conn!PutLast
    <2>1. feeder # "off" /\ UNCHANGED stage
      BY <1>2 DEF Conn!Receive, Conn!ReadFails, Conn!Put, Conn!DropOldest,
                  Conn!PutLast, Conn!FeederOnly, Conn!opening
    <2> QED
      BY <2>1 DEF EarlyInv
  <1>3. CASE \/ Conn!ReadPacket \/ Conn!ReadEnds \/ Conn!WritePacket
             \/ (\E w \in 1..MaxWrites : Conn!WriteEnds(w))
             \/ Conn!WriteReturns \/ Conn!WriteGivenUp \/ Conn!CallClose
             \/ UNCHANGED Conn!vars
    <2>1. UNCHANGED <<feeder, stage>>
      BY <1>3 DEF Conn!ReadPacket, Conn!ReadEnds, Conn!WritePacket,
                  Conn!WriteEnds, Conn!WriteReturns, Conn!WriteGivenUp,
                  Conn!CallClose, Conn!vars, Conn!inbound, Conn!opening
    <2> QED
      BY <2>1 DEF EarlyInv
  <1>4. CASE Conn!Close
    BY <1>4 DEF EarlyInv, Conn!Close
  <1> QED
    BY <1>1, <1>2, <1>3, <1>4 DEF Conn!Next

\* Every failure of Open, and Close, gives back what Open had taken.
LEMMA NothingLeft ==
  ASSUME Conn!NothingLeftOpen, Conn!Next
  PROVE  Conn!NothingLeftOpen'
  <1>1. CASE \/ Conn!OpenSerial \/ Conn!OpenBle \/ Conn!ScanMatch
             \/ Conn!StopScan \/ Conn!ScanFails \/ Conn!ScanTimeout
             \/ Conn!ScanStarts \/ Conn!LeftMatch \/ Conn!Connect
             \/ Conn!Subscribe
    BY <1>1 DEF Conn!NothingLeftOpen, Conn!OpenSerial, Conn!OpenBle,
                Conn!ScanMatch, Conn!StopScan, Conn!ScanFails, Conn!ScanTimeout,
                Conn!ScanStarts, Conn!LeftMatch, Conn!Connect,
                Conn!Subscribe, Conn!Opened
  <1>2. CASE Conn!Close
    BY <1>2 DEF Conn!NothingLeftOpen, Conn!Close, Conn!MutexFree
  <1>3. CASE \/ Conn!Receive \/ Conn!ReadFails \/ Conn!Put \/ Conn!DropOldest
             \/ Conn!PutLast \/ Conn!ReadPacket \/ Conn!ReadEnds
             \/ Conn!WritePacket
             \/ (\E w \in 1..MaxWrites : Conn!WriteEnds(w))
             \/ Conn!WriteReturns \/ Conn!WriteGivenUp \/ Conn!CallClose
             \/ UNCHANGED Conn!vars
    <2>1. UNCHANGED Conn!opening
      BY <1>3 DEF Conn!Receive, Conn!ReadFails, Conn!Put, Conn!DropOldest,
                  Conn!PutLast, Conn!FeederOnly, Conn!ReadPacket,
                  Conn!ReadEnds, Conn!WritePacket, Conn!WriteEnds,
                  Conn!WriteReturns, Conn!WriteGivenUp, Conn!CallClose,
                  Conn!vars
    <2> QED
      BY <2>1 DEF Conn!NothingLeftOpen, Conn!opening
  <1> QED
    BY <1>1, <1>2, <1>3 DEF Conn!Next

\* A write ends.
LEMMA OutEnds ==
  ASSUME OutInv, NEW w \in 1..MaxWrites, Conn!WriteEnds(w)
  PROVE  OutInv'
  <1>1. /\ w \in flying /\ flying' = flying \ {w}
        /\ UNCHANGED <<writes, current, gaveUp>>
        /\ air' = air \/ air' = Append(air, w)
    BY DEF Conn!WriteEnds
  <1>2. /\ writes \in Nat /\ current \in {0, writes} /\ air \in Seq(Nat)
        /\ w \in 1..writes /\ Len(air) \in Nat
        /\ w \in gaveUp \/ w = writes
    BY <1>1 DEF OutInv
  <1>3. CASE air' = air
    BY <1>1, <1>3 DEF OutInv
  <1>4. CASE air' = Append(air, w)
    <2>1. /\ air' \in Seq(Nat) /\ Len(air') = Len(air) + 1
          /\ \A k \in 1..Len(air) : air'[k] = air[k]
          /\ air'[Len(air')] = w
      BY <1>2, <1>4
    <2>2. \A k \in 1..Len(air') : k \in 1..Len(air) \/ k = Len(air')
      BY <1>2, <2>1
    <2>3. \A k \in 1..Len(air) : air[k] \in 1..writes
      BY DEF OutInv
    <2>4. \A k \in 1..Len(air') : air'[k] \in 1..writes
      BY <1>2, <2>1, <2>2, <2>3
    <2>5. ASSUME NEW i \in 1..Len(air'), NEW j \in 1..Len(air'),
                 i < j, air'[i] > air'[j]
          PROVE  air'[j] \in gaveUp
      <3>1. i \in 1..Len(air)
        BY <1>2, <2>1, <2>2, <2>5
      <3>2. CASE j \in 1..Len(air)
        BY <2>1, <2>5, <3>1, <3>2 DEF OutInv
      <3>3. CASE j = Len(air')
        BY <1>2, <2>1, <2>3, <2>5, <3>1, <3>3, SMTT(30)
      <3> QED
        BY <2>2, <3>2, <3>3
    <2> QED
      BY <1>1, <2>1, <2>4, <2>5 DEF OutInv
  <1> QED
    BY <1>1, <1>3, <1>4

\* Steps of the host's writes.
LEMMA OutStep ==
  ASSUME OutInv, Conn!Next
  PROVE  OutInv'
  <1>1. CASE Conn!WritePacket
    <2>1. /\ current = 0 /\ writes' = writes + 1 /\ current' = writes'
          /\ flying' = flying \union {writes'} /\ UNCHANGED <<gaveUp, air>>
      BY <1>1 DEF Conn!WritePacket, Conn!MutexFree
    <2>2. writes \in Nat /\ \A n \in 1..writes : n \in 1..writes' /\ n # 0
      BY <2>1 DEF OutInv
    <2>3. writes' \in Nat /\ writes' \in 1..writes'
      BY <2>1, <2>2
    <2>4. flying \subseteq gaveUp
      BY <2>1, <2>2 DEF OutInv
    <2> QED
      BY <2>1, <2>2, <2>3, <2>4 DEF OutInv
  <1>2. CASE \E w \in 1..MaxWrites : Conn!WriteEnds(w)
    BY <1>2, OutEnds
  <1>3. CASE Conn!WriteReturns
    BY <1>3 DEF OutInv, Conn!WriteReturns
  <1>4. CASE Conn!WriteGivenUp
    BY <1>4 DEF OutInv, Conn!WriteGivenUp
  <1>5. CASE UNCHANGED Conn!outbound
    BY <1>5 DEF OutInv, Conn!outbound
  <1>6. CASE \/ Conn!OpenSerial \/ Conn!OpenBle \/ Conn!ScanMatch
             \/ Conn!StopScan \/ Conn!ScanFails \/ Conn!ScanTimeout
             \/ Conn!ScanStarts \/ Conn!LeftMatch \/ Conn!Connect
             \/ Conn!Subscribe \/ Conn!CallClose \/ Conn!Close
             \/ UNCHANGED Conn!vars
    <2>1. UNCHANGED Conn!outbound
      BY <1>6 DEF Conn!OpenSerial, Conn!OpenBle, Conn!ScanMatch,
                  Conn!StopScan, Conn!ScanFails, Conn!ScanTimeout,
                Conn!ScanStarts, Conn!LeftMatch, Conn!Connect,
                  Conn!Subscribe, Conn!CallClose, Conn!Close, Conn!vars
    <2> QED
      BY <1>5, <2>1
  <1>7. CASE \/ Conn!Receive \/ Conn!ReadFails \/ Conn!Put \/ Conn!DropOldest
             \/ Conn!PutLast \/ Conn!ReadPacket \/ Conn!ReadEnds
    <2>1. UNCHANGED Conn!outbound
      BY <1>7 DEF Conn!Receive, Conn!ReadFails, Conn!Put, Conn!DropOldest,
                  Conn!PutLast, Conn!FeederOnly, Conn!ReadPacket,
                  Conn!ReadEnds
    <2> QED
      BY <1>5, <2>1
  <1> QED
    BY <1>1, <1>2, <1>3, <1>4, <1>6, <1>7 DEF Conn!Next

LEMMA StepConnInv ==
  ASSUME ConnInv, [Conn!Next]_(Conn!vars)
  PROVE  ConnInv'
  <1>1. CASE UNCHANGED Conn!vars
    <2>1. /\ UNCHANGED <<connKind, frames, packets, hand, connGot, done, feeder>>
          /\ UNCHANGED <<stage, scan, linked>>
          /\ UNCHANGED <<writes, current, flying, gaveUp, air>>
      BY <1>1 DEF Conn!vars, Conn!inbound, Conn!outbound, Conn!opening
    <2>2. InInv'
      BY <2>1, InSame DEF ConnInv
    <2> QED
      BY <2>1, <2>2 DEF ConnInv, EarlyInv, OutInv, Conn!NothingLeftOpen
  <1>2. CASE Conn!Next
    <2>1. EarlyInv' /\ OutInv' /\ Conn!NothingLeftOpen'
      BY <1>2, EarlyStep, OutStep, NothingLeft DEF ConnInv
    <2>2. CASE \/ Conn!WritePacket
               \/ (\E w \in 1..MaxWrites : Conn!WriteEnds(w))
               \/ Conn!WriteReturns \/ Conn!WriteGivenUp
      <3>1. UNCHANGED <<connKind, frames, packets, hand, connGot, done, feeder>>
        BY <2>2 DEF Conn!WritePacket, Conn!WriteEnds, Conn!WriteReturns,
                    Conn!WriteGivenUp, Conn!inbound
      <3> QED
        BY <2>1, <3>1, InSame DEF ConnInv
    <2> QED
      BY <1>1, <1>2, <2>1, <2>2, InReceive, InPut, InRead, InOthers
      DEF ConnInv, Conn!Next
  <1> QED
    BY <1>1, <1>2

\* Where the elements of two and of three sequences behind each other are.
LEMMA TwoParts ==
  ASSUME NEW s \in Seq(Nat), NEW t \in Seq(Nat)
  PROVE  /\ s \o t \in Seq(Nat) /\ Len(s \o t) = Len(s) + Len(t)
         /\ \A i \in 1..Len(s) : (s \o t)[i] = s[i]
         /\ \A j \in 1..Len(t) : (s \o t)[Len(s) + j] = t[j]
  OBVIOUS

LEMMA Beyond ==
  ASSUME NEW a \in Nat, NEW b \in Nat, NEW i \in 1..(a + b), i \notin 1..a
  PROVE  i - a \in 1..b /\ i = a + (i - a)
  OBVIOUS

InPart(D, i, s, off) == \E j \in 1..Len(s) : i = off + j /\ D[i] = s[j]

LEMMA ThreeParts ==
  ASSUME NEW s \in Seq(Nat), NEW t \in Seq(Nat), NEW u \in Seq(Nat),
         NEW D, D = s \o t \o u
  PROVE  /\ D \in Seq(Nat) /\ Len(D) = (Len(s) + Len(t)) + Len(u)
         /\ \A i \in 1..Len(D) : \/ InPart(D, i, s, 0)
                                 \/ InPart(D, i, t, Len(s))
                                 \/ InPart(D, i, u, Len(s) + Len(t))
  <1> DEFINE c == s \o t
  <1>1. /\ c \in Seq(Nat) /\ Len(c) = Len(s) + Len(t)
        /\ \A i \in 1..Len(s) : c[i] = s[i]
        /\ \A j \in 1..Len(t) : c[Len(s) + j] = t[j]
    BY TwoParts
  <1>2. D = c \o u
    OBVIOUS
  <1> HIDE DEF c
  <1>3. /\ D \in Seq(Nat) /\ Len(D) = Len(c) + Len(u)
        /\ \A i \in 1..Len(c) : D[i] = c[i]
        /\ \A j \in 1..Len(u) : D[Len(c) + j] = u[j]
    <2>1. c \in Seq(Nat)
      BY <1>1
    <2>2. /\ c \o u \in Seq(Nat) /\ Len(c \o u) = Len(c) + Len(u)
          /\ \A i \in 1..Len(c) : (c \o u)[i] = c[i]
          /\ \A j \in 1..Len(u) : (c \o u)[Len(c) + j] = u[j]
      BY <2>1, TwoParts
    <2> QED
      BY <1>2, <2>2, Zenon
  <1>4. Len(s) \in Nat /\ Len(t) \in Nat /\ Len(u) \in Nat /\ Len(c) \in Nat
    BY <1>1
  <1>5. ASSUME NEW i \in 1..Len(D)
        PROVE  \/ InPart(D, i, s, 0)
               \/ InPart(D, i, t, Len(s))
               \/ InPart(D, i, u, Len(c))
    <2>1. CASE i \in 1..Len(s)
      <3>1. i \in 1..Len(c) /\ i = 0 + i
        BY <1>1, <1>4, <2>1
      <3> QED
        BY <1>1, <1>3, <2>1, <3>1 DEF InPart
    <2>2. CASE i \in 1..Len(c) /\ i \notin 1..Len(s)
      <3>1. i - Len(s) \in 1..Len(t) /\ i = Len(s) + (i - Len(s))
        BY <1>1, <1>4, <2>2, Beyond
      <3> QED
        BY <1>1, <1>3, <2>2, <3>1 DEF InPart
    <2>3. CASE i \notin 1..Len(c)
      <3>1. i - Len(c) \in 1..Len(u) /\ i = Len(c) + (i - Len(c))
        BY <1>3, <1>4, <2>3, Beyond
      <3> QED
        BY <1>3, <3>1 DEF InPart
    <2> QED
      BY <2>1, <2>2, <2>3
  <1> QED
    BY <1>1, <1>3, <1>5

\* What the read loop has got, the channel holds and the goroutine has.
LEMMA ArrivesInOrder ==
  ASSUME InInv
  PROVE  Conn!PacketsInOrder
  <1> DEFINE D == Conn!Delivered
             g == Len(connGot)
             n == Len(packets)
  <1>1. /\ connGot \in Seq(Nat) /\ packets \in Seq(Nat) /\ frames \in Nat
        /\ g \in Nat /\ n \in Nat
    BY DEF InInv, InTypes
  <1>2. hand = <<frames>> \/ hand = <<>>
    BY DEF InInv, HandInv
  <1>3. hand \in Seq(Nat)
    <2>1. <<>> \in Seq(Nat)
      OBVIOUS
    <2>2. <<frames>> \in Seq(Nat)
      BY <1>1
    <2> QED
      BY <1>2, <2>1, <2>2
  <1>4. /\ D \in Seq(Nat) /\ Len(D) = (g + n) + Len(hand)
        /\ \A i \in 1..Len(D) : \/ InPart(D, i, connGot, 0)
                                \/ InPart(D, i, packets, g)
                                \/ InPart(D, i, hand, g + n)
    BY <1>1, <1>3, ThreeParts DEF Conn!Delivered
  <1>5. DOMAIN D = 1..Len(D)
    BY <1>4
  <1> HIDE DEF D
  <1>6. ASSUME NEW i \in 1..Len(D)
        PROVE  \/ i \in 1..g /\ D[i] = connGot[i]
               \/ \E j \in 1..n : i = g + j /\ D[i] = packets[j]
               \/ i = g + n + 1 /\ hand = <<frames>> /\ D[i] = frames
    <2>1. CASE InPart(D, i, connGot, 0)
      BY <1>1, <2>1 DEF InPart
    <2>2. CASE InPart(D, i, packets, g)
      BY <2>2 DEF InPart
    <2>3. CASE InPart(D, i, hand, g + n)
      <3>1. PICK j \in 1..Len(hand) : i = g + n + j /\ D[i] = hand[j]
        BY <2>3 DEF InPart
      <3>2. hand # <<>> /\ j \in 1..Len(hand)
        OBVIOUS
      <3>3. hand = <<frames>>
        BY <1>2, <3>2
      <3>4. Len(hand) = 1 /\ hand[1] = frames
        BY <3>3
      <3>5. j = 1
        BY <3>2, <3>4
      <3> QED
        BY <3>1, <3>3, <3>4, <3>5
    <2> QED
      BY <1>4, <2>1, <2>2, <2>3
  <1>7. hand = <<frames>> => /\ feeder \in Feeding
                             /\ \A i \in 1..g : connGot[i] < frames
                             /\ \A j \in 1..n : packets[j] < frames
    <2> SUFFICES ASSUME hand = <<frames>>
                 PROVE  /\ feeder \in Feeding
                        /\ \A i \in 1..g : connGot[i] < frames
                        /\ \A j \in 1..n : packets[j] < frames
      OBVIOUS
    <2>1. feeder \in Feeding
      BY DEF InInv, HandInv
    <2>2. Top = frames - 1
      BY <2>1 DEF Top
    <2>3. /\ \A i \in 1..g : connGot[i] \in Nat /\ connGot[i] <= Top
          /\ \A j \in 1..n : packets[j] \in Nat /\ packets[j] <= Top
      BY <1>1 DEF InInv, BelowInv
    <2> QED
      BY <1>1, <2>1, <2>2, <2>3
  <1>8. Conn!SerialLosesNothing
    <2> SUFFICES ASSUME connKind = "serial", NEW i \in 1..Len(D)
                 PROVE  D[i] = i
      BY <1>5 DEF Conn!SerialLosesNothing, D
    <2>1. CASE i \in 1..g /\ D[i] = connGot[i]
      BY <2>1 DEF InInv, SerialInv
    <2>2. CASE \E j \in 1..n : i = g + j /\ D[i] = packets[j]
      BY <2>2 DEF InInv, SerialInv
    <2>3. CASE i = g + n + 1 /\ hand = <<frames>> /\ D[i] = frames
      <3>1. feeder = "put"
        BY <1>7, <2>3 DEF InInv, SerialInv, Feeding
      <3> QED
        BY <2>3, <3>1 DEF InInv, SerialInv
    <2> QED
      BY <1>6, <2>1, <2>2, <2>3
  <1>9. ASSUME NEW i \in 1..Len(D), NEW j \in 1..Len(D), i < j
        PROVE  D[i] < D[j]
    <2>1. CASE j \in 1..g /\ D[j] = connGot[j]
      <3>1. i \in 1..g
        BY <1>1, <1>9, <2>1
      <3>2. D[i] = connGot[i]
        BY <1>1, <1>6, <3>1, SMTT(30)
      <3> QED
        BY <1>9, <2>1, <3>1, <3>2 DEF InInv, RisingInv
    <2>2. CASE \E k \in 1..n : j = g + k /\ D[j] = packets[k]
      <3>1. PICK k \in 1..n : j = g + k /\ D[j] = packets[k]
        BY <2>2
      <3>2. CASE i \in 1..g /\ D[i] = connGot[i]
        BY <3>1, <3>2 DEF InInv, RisingInv
      <3>3. CASE \E l \in 1..n : i = g + l /\ D[i] = packets[l]
        <4>1. PICK l \in 1..n : i = g + l /\ D[i] = packets[l]
          BY <3>3
        <4>2. l < k
          BY <1>1, <1>9, <3>1, <4>1
        <4> QED
          BY <3>1, <4>1, <4>2 DEF InInv, RisingInv
      <3>4. i # g + n + 1
        BY <1>1, <1>9, <3>1
      <3> QED
        BY <1>6, <3>2, <3>3, <3>4
    <2>3. CASE j = g + n + 1 /\ hand = <<frames>> /\ D[j] = frames
      <3>1. i # g + n + 1
        BY <1>1, <1>9, <2>3
      <3> QED
        BY <1>6, <1>7, <2>3, <3>1
    <2> QED
      BY <1>6, <2>1, <2>2, <2>3
  <1>10. ASSUME frames > 0, ~done
         PROVE  D[Len(D)] = frames
    <2>1. CASE hand = <<frames>>
      <3>1. Len(D) = g + n + 1 /\ Len(D) \in 1..Len(D)
        BY <1>1, <1>4, <2>1
      <3> QED
        BY <1>1, <1>6, <3>1
    <2>2. CASE hand = <<>>
      <3>1. Len(D) = g + n /\ feeder \notin Feeding
        BY <1>1, <1>4, <2>2 DEF InInv, HandInv
      <3>2. CASE n # 0
        <4>1. /\ Len(D) \in 1..Len(D) /\ Len(D) \notin 1..g
              /\ Len(D) # g + n + 1 /\ packets # <<>>
              /\ \A k \in 1..n : Len(D) = g + k => k = n
          BY <1>1, <3>1, <3>2
        <4>2. packets[n] = frames
          BY <1>10, <3>1, <4>1 DEF InInv, NewestInv
        <4> QED
          BY <1>6, <4>1, <4>2
      <3>3. CASE n = 0
        <4>1. packets = <<>>
          BY <1>1, <3>3
        <4>2. connGot # <<>> /\ connGot[g] = frames
          BY <1>10, <3>1, <4>1 DEF InInv, NewestInv
        <4>3. Len(D) = g /\ g \in 1..Len(D)
          BY <1>1, <3>1, <3>3, <4>2
        <4>4. g # g + n + 1 /\ \A k \in 1..n : FALSE
          BY <1>1, <3>3
        <4> QED
          BY <1>6, <4>2, <4>3, <4>4
      <3> QED
        BY <3>2, <3>3
    <2> QED
      BY <1>2, <2>1, <2>2
  <1>11. Conn!BleKeepsNewest
    BY <1>5, <1>9, <1>10 DEF Conn!BleKeepsNewest, Conn!Last, D
  <1> QED
    BY <1>8, <1>11 DEF Conn!PacketsInOrder

\* Over serial no packet is lost and over BLE the newest one never is, both
\* arrive in order, writes overtake each other only when a caller has given
\* up, and nothing stays open behind Open or Close, for every capacity of the
\* packet channel (readLoop, onNotify, ReadPacket, WritePacket, Open, Close).
THEOREM Orderly == MCSpec => []LinkIsOrderly
  <1>1. MCInit => ConnInv
    <2> SUFFICES ASSUME Conn!Init PROVE ConnInv
      BY DEF MCInit
    <2>1. /\ stage = "new" /\ scan = "off" /\ linked = FALSE /\ done = FALSE
          /\ frames = 0 /\ packets = <<>> /\ hand = <<>> /\ feeder = "off"
          /\ connGot = <<>> /\ writes = 0 /\ current = 0 /\ flying = {}
          /\ air = <<>>
      BY DEF Conn!Init
    <2>2. packets \in Seq(Nat) /\ connGot \in Seq(Nat) /\ air \in Seq(Nat)
      BY <2>1
    <2>3. Len(packets) = 0 /\ Len(connGot) = 0 /\ Len(air) = 0
      BY <2>1
    <2>4. InTypes /\ HandInv /\ RoomInv
      BY <2>1, <2>2, <2>3, MCLinkAssumption
      DEF InTypes, HandInv, RoomInv, Feeders, Feeding
    <2>5. SerialInv /\ RisingInv /\ BelowInv /\ NewestInv
      BY <2>1, <2>3
      DEF SerialInv, RisingInv, BelowInv, NewestInv, Feeding
    <2>6. EarlyInv /\ OutInv /\ Conn!NothingLeftOpen
      BY <2>1, <2>2, <2>3 DEF EarlyInv, OutInv, Conn!NothingLeftOpen
    <2> QED
      BY <2>4, <2>5, <2>6 DEF ConnInv, InInv
  <1>2. ConnInv /\ [MCNext]_mcVars => ConnInv'
    <2> SUFFICES ASSUME ConnInv, [MCNext]_mcVars PROVE ConnInv'
      OBVIOUS
    <2>1. [Conn!Next]_(Conn!vars)
      BY DEF MCNext, mcVars, connVars, Conn!vars, Conn!inbound,
             Conn!outbound, Conn!opening
    <2> QED
      BY <2>1, StepConnInv
  <1>3. ConnInv => LinkIsOrderly
    <2> SUFFICES ASSUME ConnInv PROVE LinkIsOrderly
      OBVIOUS
    <2>1. Conn!PacketsInOrder
      BY ArrivesInOrder DEF ConnInv
    <2>2. Conn!WritesInOrder
      BY DEF ConnInv, OutInv, Conn!WritesInOrder
    <2> QED
      BY <2>1, <2>2 DEF LinkIsOrderly, Conn!LinkIsOrderly, ConnInv
  <1> QED
    BY <1>1, <1>2, <1>3, PTL DEF MCSpec

-----------------------------------------------------------------------------
(* CompanionCodec: what a decoded message says of itself.                  *)

AnswerKinds ==
  {"OK", "Err", "ContactsStart", "Contact", "EndOfContacts", "SelfInfo",
   "Sent", "ContactMessage", "ChannelMessage", "CurrentTime",
   "NoMoreMessages", "BatteryVoltage", "DeviceInfo", "ChannelInfo",
   "StatsResponse"}
PushKinds ==
  {"Advert", "SendConfirmed", "MsgWaiting", "LoginSuccess", "LoginFail",
   "StatusResponse", "TraceData", "ControlData", "NodeDiscoverResp"}

IsTyped(p, kinds) ==
  \E k \in kinds : \E f : Codec!decode(p) = Codec!Typed(k, f)

\* A code below 128 decodes to one of the answers, or stays raw; one above it
\* to one of the pushes, or stays raw.
LEMMA AnswersDecoded ==
  ASSUME NEW p, p.empty = FALSE, p.code \in Nat, p.code < 128
  PROVE  Codec!decode(p) = Codec!Raw(p) \/ IsTyped(p, AnswerKinds)
  <1>1. CASE p.code = 0
    BY <1>1 DEF Codec!decode, IsTyped, AnswerKinds
  <1>2. CASE p.code = 1
    BY <1>2 DEF Codec!decode, IsTyped, AnswerKinds
  <1>3. CASE p.code = 2
    BY <1>3 DEF Codec!decode, IsTyped, AnswerKinds
  <1>4. CASE p.code = 3
    BY <1>4 DEF Codec!decode, IsTyped, AnswerKinds
  <1>5. CASE p.code = 4
    BY <1>5 DEF Codec!decode, IsTyped, AnswerKinds
  <1>6. CASE p.code = 5
    BY <1>6 DEF Codec!decode, IsTyped, AnswerKinds
  <1>7. CASE p.code = 6
    BY <1>7 DEF Codec!decode, IsTyped, AnswerKinds
  <1>8. CASE p.code = 7
    BY <1>8 DEF Codec!decode, IsTyped, AnswerKinds
  <1>9. CASE p.code = 8
    BY <1>9 DEF Codec!decode, IsTyped, AnswerKinds
  <1>10. CASE p.code = 9
    BY <1>10 DEF Codec!decode, IsTyped, AnswerKinds
  <1>11. CASE p.code = 10
    BY <1>11 DEF Codec!decode, IsTyped, AnswerKinds
  <1>12. CASE p.code = 12
    BY <1>12 DEF Codec!decode, IsTyped, AnswerKinds
  <1>13. CASE p.code = 13
    BY <1>13 DEF Codec!decode, IsTyped, AnswerKinds
  <1>14. CASE p.code = 16
    BY <1>14 DEF Codec!decode, IsTyped, AnswerKinds
  <1>15. CASE p.code = 17
    BY <1>15 DEF Codec!decode, IsTyped, AnswerKinds
  <1>16. CASE p.code = 18
    BY <1>16 DEF Codec!decode, IsTyped, AnswerKinds
  <1>17. CASE p.code = 24
    BY <1>17 DEF Codec!decode, IsTyped, AnswerKinds
  <1>18. CASE p.code \notin {0, 1, 2, 3, 4, 5, 6, 7, 8, 9, 10, 12, 13, 16, 17, 18, 24}
    <2>1. Codec!decode(p) = Codec!Raw(p)
      BY <1>18 DEF Codec!decode
    <2> QED
      BY <2>1
  <1> QED
    BY <1>1, <1>2, <1>3, <1>4, <1>5, <1>6, <1>7, <1>8, <1>9, <1>10, <1>11, <1>12, <1>13, <1>14, <1>15, <1>16, <1>17, <1>18

LEMMA PushesDecoded ==
  ASSUME NEW p, p.empty = FALSE, p.code \in Nat, p.code >= 128
  PROVE  Codec!decode(p) = Codec!Raw(p) \/ IsTyped(p, PushKinds)
  <1>1. CASE p.code = 128
    BY <1>1 DEF Codec!decode, IsTyped, PushKinds
  <1>2. CASE p.code = 130
    BY <1>2 DEF Codec!decode, IsTyped, PushKinds
  <1>3. CASE p.code = 131
    BY <1>3 DEF Codec!decode, IsTyped, PushKinds
  <1>4. CASE p.code = 133
    BY <1>4 DEF Codec!decode, IsTyped, PushKinds
  <1>5. CASE p.code = 134
    BY <1>5 DEF Codec!decode, IsTyped, PushKinds
  <1>6. CASE p.code = 135
    BY <1>6 DEF Codec!decode, IsTyped, PushKinds
  <1>7. CASE p.code = 137
    BY <1>7 DEF Codec!decode, IsTyped, PushKinds
  <1>8. CASE p.code = 138
    BY <1>8 DEF Codec!decode, IsTyped, PushKinds
  <1>9. CASE p.code = 142
    BY <1>9 DEF Codec!decode, IsTyped, PushKinds
  <1>10. CASE p.code \notin {128, 130, 131, 133, 134, 135, 137, 138, 142}
    <2>1. Codec!decode(p) = Codec!Raw(p)
      BY <1>10 DEF Codec!decode
    <2> QED
      BY <2>1
  <1> QED
    BY <1>1, <1>2, <1>3, <1>4, <1>5, <1>6, <1>7, <1>8, <1>9, <1>10

\* So what a decoded message says of itself is what the code's high bit says.
LEMMA AsyncIsPush ==
  ASSUME NEW p, p.empty \in BOOLEAN, p.code \in Nat
  PROVE  Codec!decode(p).async <=> ~p.empty /\ Codec!isPush(p.code)
  <1>1. CASE p.empty = TRUE
    <2>1. Codec!decode(p).async = FALSE
      BY <1>1 DEF Codec!decode
    <2> QED
      BY <1>1, <2>1
  <1>2. CASE p.empty = FALSE
    <2>1. CASE Codec!decode(p) = Codec!Raw(p)
      <3>1. Codec!decode(p).async = Codec!isPush(p.code)
        BY <2>1 DEF Codec!Raw
      <3>2. Codec!isPush(p.code) \in BOOLEAN
        BY DEF Codec!isPush
      <3> QED
        BY <1>2, <3>1, <3>2, Zenon
    <2>2. \A k, f : Codec!Typed(k, f).async = Codec!Async(k)
      BY DEF Codec!Typed
    <2>3. CASE p.code < 128 /\ IsTyped(p, AnswerKinds)
      <3>1. PICK k \in AnswerKinds : Codec!decode(p).async = Codec!Async(k)
        BY <2>2, <2>3, Zenon DEF IsTyped
      <3>2. ~Codec!Async(k)
        BY <3>1 DEF AnswerKinds, Codec!Async
      <3>3. ~Codec!isPush(p.code)
        BY <2>3 DEF Codec!isPush
      <3> QED
        BY <3>1, <3>2, <3>3, Zenon
    <2>4. CASE p.code >= 128 /\ IsTyped(p, PushKinds)
      <3>1. PICK k \in PushKinds : Codec!decode(p).async = Codec!Async(k)
        BY <2>2, <2>4, Zenon DEF IsTyped
      <3>2. Codec!Async(k)
        BY <3>1 DEF PushKinds, Codec!Async
      <3>3. Codec!isPush(p.code)
        BY <2>4 DEF Codec!isPush
      <3> QED
        BY <1>2, <3>1, <3>2, <3>3, Zenon
    <2>5. p.code < 128 \/ p.code >= 128
      OBVIOUS
    <2> QED
      BY <1>2, <2>1, <2>3, <2>4, <2>5, AnswersDecoded, PushesDecoded
  <1> QED
    BY <1>1, <1>2

-----------------------------------------------------------------------------
(* CompanionCodec: what is received and sent, and where it goes.           *)

\* What every packet of the instance is.
PacketType ==
  [code : Nat, empty : BOOLEAN, len : Nat, sub : Nat, path : Nat, flags : 0..3]

\* A packet of the instance; the empty one has no code.
IsPacket(p) == p \in PacketType /\ (p.empty => p.code = 0)

\* Every packet the instance receives is one.
LEMMA PacketTypes ==
  \A p \in Codec!Packets \union {Codec!NoPacket} : IsPacket(p)
  <1>1. \A c \in Nat, n \in Nat, s \in Nat, b \in Nat, f \in 0..3 :
          IsPacket(Codec!Packet(c, n, s, b, f))
    BY DEF Codec!Packet, PacketType, IsPacket
  <1>2. 0 \in Nat /\ 137 \in Nat /\ 0 \in 0..3
    OBVIOUS
  <1>3. IsPacket([Codec!Packet(0, 0, 0, 0, 0) EXCEPT !.empty = TRUE])
    <2> DEFINE e == Codec!Packet(0, 0, 0, 0, 0)
    <2>1. e \in PacketType /\ e.code = 0
      BY <1>1, <1>2 DEF IsPacket, Codec!Packet
    <2> HIDE DEF e
    <2>2. [e EXCEPT !.empty = TRUE] \in PacketType /\ [e EXCEPT !.empty = TRUE].code = 0
      BY <2>1 DEF PacketType
    <2> QED
      BY <2>2 DEF IsPacket, e
  <1>4. Codec!Codes \subseteq Nat /\ 0..MaxBody \subseteq Nat
    BY MCLinkAssumption DEF Codec!Codes, Codec!respOnly, Codec!pushOnly
  <1>5. \A c : Codec!SubTypes(c) \subseteq Nat
    BY DEF Codec!SubTypes
  <1> SUFFICES ASSUME NEW p \in Codec!Packets \union {Codec!NoPacket} PROVE IsPacket(p)
    OBVIOUS
  <1>6. CASE p = Codec!NoPacket
    BY <1>1, <1>2, <1>6, Zenon DEF Codec!NoPacket
  <1>7. CASE p \in Codec!Packets
    <2> DEFINE Empty == [Codec!Packet(0, 0, 0, 0, 0) EXCEPT !.empty = TRUE]
               Of(c) == {Codec!Packet(c, n, s, 0, 0) :
                           n \in 0..MaxBody, s \in Codec!SubTypes(c)}
               Others == UNION {Of(c) : c \in Codec!Codes \ {137}}
               Traces == {Codec!Packet(137, n, 0, b, f) :
                            n \in 0..MaxBody, b \in TraceBytes, f \in 0..3}
    <2>1. Codec!Packets = {Empty} \union Others \union Traces
      BY DEF Codec!Packets
    <2>2. \A c : \A q \in Of(c) : \E n \in 0..MaxBody : \E s \in Codec!SubTypes(c) :
             q = Codec!Packet(c, n, s, 0, 0)
      BY SMT
    <2>3. \A q \in Traces : \E n \in 0..MaxBody : \E b \in TraceBytes : \E f \in 0..3 :
             q = Codec!Packet(137, n, 0, b, f)
      BY SMT
    <2>4. IsPacket(Empty)
      BY <1>3
    <2> HIDE DEF Of, Traces, Empty
    <2>5. ASSUME p \in Others PROVE IsPacket(p)
      <3>1. PICK c \in Codec!Codes : p \in Of(c)
        BY <2>5, Zenon
      <3>2. PICK n \in 0..MaxBody : \E s \in Codec!SubTypes(c) : p = Codec!Packet(c, n, s, 0, 0)
        BY <2>2, <3>1
      <3>3. PICK s \in Codec!SubTypes(c) : p = Codec!Packet(c, n, s, 0, 0)
        BY <3>2
      <3>4. c \in Nat /\ n \in Nat /\ s \in Nat
        BY <1>4, <1>5
      <3> QED
        BY <1>1, <1>2, <3>3, <3>4
    <2>6. ASSUME p \in Traces PROVE IsPacket(p)
      <3>1. PICK n \in 0..MaxBody : \E b \in TraceBytes : \E f \in 0..3 :
              p = Codec!Packet(137, n, 0, b, f)
        BY <2>3, <2>6
      <3>2. PICK b \in TraceBytes : \E f \in 0..3 : p = Codec!Packet(137, n, 0, b, f)
        BY <3>1
      <3>3. PICK f \in 0..3 : p = Codec!Packet(137, n, 0, b, f)
        BY <3>2
      <3>4. n \in Nat /\ b \in Nat
        BY <1>4, MCLinkAssumption
      <3> QED
        BY <1>1, <1>2, <3>3, <3>4
    <2> HIDE DEF Others
    <2>7. p = Empty \/ p \in Others \/ p \in Traces
      BY <1>7, <2>1
    <2> QED
      BY <2>4, <2>5, <2>6, <2>7
  <1> QED
    BY <1>6, <1>7

\* The lengths a command is made from are numbers.
CommandArgs(c) == c.key \in Nat /\ c.text \in Nat /\ c.rest \in Nat

\* Every command the instance sends has such lengths.
LEMMA CommandTypes == \A c \in Codec!Commands \union {Codec!NoCommand} : CommandArgs(c)
  <1>1. CommandArgs(Codec!NoCommand)
    BY DEF Codec!NoCommand, CommandArgs
  <1>2. ASSUME NEW c \in Codec!Commands PROVE CommandArgs(c)
    <2>1. c.key \in ArgLengths /\ c.text \in ArgLengths /\ c.rest \in ArgLengths
      BY DEF Codec!Commands
    <2> QED
      BY <2>1, MCLinkAssumption DEF CommandArgs
  <1> QED
    BY <1>1, <1>2

\* Packets and commands are the instance's, and a packet's way is the one of
\* its code.
CodecInv ==
  /\ IsPacket(pkt) /\ CommandArgs(cmd)
  /\ at = "answered" => pkt.empty \/ ~Codec!isPush(pkt.code)
  /\ at = "pushed" => Codec!isPush(pkt.code)

\* It is inductive.
LEMMA CodecHolds == MCSpec => []CodecInv
  <1>1. MCInit => CodecInv
    <2> SUFFICES ASSUME Codec!Init PROVE CodecInv
      BY DEF MCInit
    <2>1. at = "idle" /\ pkt = Codec!NoPacket /\ cmd = Codec!NoCommand
      BY DEF Codec!Init
    <2> QED
      BY <2>1, PacketTypes, CommandTypes DEF CodecInv
  <1>2. CodecInv /\ [MCNext]_mcVars => CodecInv'
    <2> SUFFICES ASSUME CodecInv, [MCNext]_mcVars PROVE CodecInv'
      OBVIOUS
    <2>1. Codec!Next \/ UNCHANGED <<at, pkt, cmd>>
      BY DEF MCNext, mcVars, codecVars
    <2>2. Codec!Next => /\ pkt' \in Codec!Packets \union {Codec!NoPacket} \/ pkt' = pkt
                        /\ cmd' \in Codec!Commands \union {Codec!NoCommand} \/ cmd' = cmd
      BY DEF Codec!Next, Codec!Receive, Codec!Route, Codec!Send, Codec!Again
    <2>3. IsPacket(pkt')
      BY <2>1, <2>2, PacketTypes DEF CodecInv
    <2>4. CommandArgs(cmd')
      BY <2>1, <2>2, CommandTypes DEF CodecInv
    <2>5. /\ at' = "answered" => pkt'.empty \/ ~Codec!isPush(pkt'.code)
          /\ at' = "pushed" => Codec!isPush(pkt'.code)
      <3>1. CASE UNCHANGED <<at, pkt, cmd>>
        BY <3>1 DEF CodecInv
      <3>2. CASE Codec!Receive \/ Codec!Send \/ Codec!Again
        <4>1. at' \in {"received", "rejected", "written", "idle"}
          BY <3>2 DEF Codec!Receive, Codec!Send, Codec!Again
        <4> QED
          BY <4>1
      <3>3. CASE Codec!Route
        <4>1. /\ UNCHANGED pkt
              /\ at' = IF Codec!decode(pkt).async THEN "pushed" ELSE "answered"
          BY <3>3 DEF Codec!Route
        <4>2. pkt.empty \in BOOLEAN /\ pkt.code \in Nat
          BY DEF CodecInv, IsPacket, PacketType
        <4>3. Codec!decode(pkt).async <=> ~pkt.empty /\ Codec!isPush(pkt.code)
          BY <4>2, AsyncIsPush
        <4> QED
          BY <4>1, <4>2, <4>3
      <3> QED
        BY <2>1, <3>1, <3>2, <3>3 DEF Codec!Next
    <2> QED
      BY <2>3, <2>4, <2>5 DEF CodecInv, IsPacket, CommandArgs, Codec!isPush
  <1> QED
    BY <1>1, <1>2, PTL DEF MCSpec

\* The waiting request is never handed a push and handleAsync never anything
\* else, for every bound on packets: the empty, the short and the unknown ones
\* included (readLoop, decode and the Async methods).
THEOREM PushesApart == MCSpec => []PushesNeverAnswer
  <1>1. CodecInv => PushesNeverAnswer
    BY DEF CodecInv, PushesNeverAnswer, Codec!PushesNeverAnswer
  <1> QED
    BY <1>1, CodecHolds, PTL

-----------------------------------------------------------------------------
(* CompanionCodec: where the fields lie.  A decoder is reduced to its rows, *)
(* and what has to be shown of a packet to a statement about the rows for  *)
(* its length and for one byte less.                                       *)

\* The rows of a decoder are sound for a body of n bytes: what they take lies
\* in the body, and no two overlap.
InBody(n, rows) ==
  \A r \in rows : n >= r[2] => r[3] <= r[4] /\ r[4] <= n
Apart(n, rows) ==
  \A r, q \in rows : n >= r[2] /\ n >= q[2] => r = q \/ r[4] <= q[3] \/ q[4] <= r[3]

\* The rows taken of a body that is one byte shorter are still taken.
Kept(n, R, S) ==
  \A r \in R : n - 1 >= r[2] =>
    \E q \in S : n >= q[2] /\ q[1] = r[1] /\ q[3] = r[3] /\ (q[4] = r[4] \/ q[4] = n)

\* The fields of a decoded body of n bytes lie inside it and do not overlap.
SoundFields(n, fields) ==
  /\ \A f \in fields : f.from <= f.to /\ f.to <= n
  /\ \A f, g \in fields : f = g \/ f.to <= g.from \/ g.to <= f.from

\* The fields F of a body without its last byte are among the fields G of
\* the whole.
KeptFields(n, F, G) ==
  \A f \in F : \E g \in G : g.field = f.field /\ g.from = f.from /\ (g.to = f.to \/ g.to = n)

\* Sound rows yield sound fields.
LEMMA TakeSound ==
  ASSUME NEW n, NEW rows, InBody(n, rows), Apart(n, rows)
  PROVE  SoundFields(n, Codec!Take(n, rows))
  <1>1. \A f \in Codec!Take(n, rows) :
          \E r \in rows : n >= r[2] /\ f = [field |-> r[1], from |-> r[3], to |-> r[4]]
    BY DEF Codec!Take
  <1>2. ASSUME NEW f \in Codec!Take(n, rows) PROVE f.from <= f.to /\ f.to <= n
    <2>1. PICK r \in rows : n >= r[2] /\ f = [field |-> r[1], from |-> r[3], to |-> r[4]]
      BY <1>1
    <2>2. f.from = r[3] /\ f.to = r[4]
      BY <2>1
    <2> QED
      BY <2>1, <2>2 DEF InBody
  <1>3. ASSUME NEW f \in Codec!Take(n, rows), NEW g \in Codec!Take(n, rows)
        PROVE  f = g \/ f.to <= g.from \/ g.to <= f.from
    <2>1. PICK r \in rows : n >= r[2] /\ f = [field |-> r[1], from |-> r[3], to |-> r[4]]
      BY <1>1
    <2>2. PICK q \in rows : n >= q[2] /\ g = [field |-> q[1], from |-> q[3], to |-> q[4]]
      BY <1>1
    <2>3. f.from = r[3] /\ f.to = r[4] /\ g.from = q[3] /\ g.to = q[4]
      BY <2>1, <2>2
    <2>4. r = q \/ r[4] <= q[3] \/ q[4] <= r[3]
      BY <2>1, <2>2 DEF Apart
    <2> QED
      BY <2>1, <2>2, <2>3, <2>4
  <1> QED
    BY <1>2, <1>3 DEF SoundFields

\* Rows that are kept yield fields that are kept.
LEMMA TakeKept ==
  ASSUME NEW n, NEW R, NEW S, Kept(n, R, S)
  PROVE  KeptFields(n, Codec!Take(n - 1, R), Codec!Take(n, S))
  <1> SUFFICES ASSUME NEW f \in Codec!Take(n - 1, R)
               PROVE  \E g \in Codec!Take(n, S) : /\ g.field = f.field /\ g.from = f.from
                                                  /\ g.to = f.to \/ g.to = n
    BY DEF KeptFields
  <1>1. PICK r \in R : n - 1 >= r[2] /\ f = [field |-> r[1], from |-> r[3], to |-> r[4]]
    BY DEF Codec!Take
  <1>2. PICK q \in S : n >= q[2] /\ q[1] = r[1] /\ q[3] = r[3] /\ (q[4] = r[4] \/ q[4] = n)
    BY <1>1 DEF Kept
  <1> DEFINE g == [field |-> q[1], from |-> q[3], to |-> q[4]]
  <1>3. g \in Codec!Take(n, S)
    BY <1>2 DEF Codec!Take
  <1>4. g.field = f.field /\ g.from = f.from /\ (g.to = f.to \/ g.to = n)
    BY <1>1, <1>2
  <1> QED
    BY <1>3, <1>4

\* Rows that do not depend on the body.
Fixed(rows) ==
  /\ \A r \in rows : r[2] \in Nat /\ r[3] \in Nat /\ r[4] \in Nat /\ r[3] <= r[4] /\ r[4] <= r[2]
  /\ \A r, q \in rows : r = q \/ r[4] <= q[3] \/ q[4] <= r[3]

\* The rows of decodeContact.
ContactRows ==
  {<<"PublicKey", 32, 0, 32>>, <<"Type", 33, 32, 33>>, <<"Flags", 34, 33, 34>>,
   <<"OutPathEnc", 35, 34, 35>>, <<"OutPath", 99, 35, 99>>,
   <<"Name", 131, 99, 131>>, <<"LastAdvert", 135, 131, 135>>,
   <<"Latitude", 139, 135, 139>>, <<"Longitude", 143, 139, 143>>,
   <<"LastMod", 147, 143, 147>>}

\* The fields of a contact frame follow one another.
LEMMA ContactFixed == Fixed(ContactRows)
  BY DEF Fixed, ContactRows

\* Fixed rows are sound for a body of any length, since each tests for its
\* own end.
LEMMA FixedSound ==
  ASSUME NEW n \in Nat, NEW rows, Fixed(rows)
  PROVE  InBody(n, rows) /\ Apart(n, rows)
  BY DEF Fixed, InBody, Apart

\* Fixed rows that are taken of a shorter body are taken of a longer one.
LEMMA FixedKept ==
  ASSUME NEW n \in Nat, NEW rows, Fixed(rows)
  PROVE  Kept(n, rows, rows)
  <1>1. \A r \in rows : r[2] \in Nat
    BY DEF Fixed
  <1>2. \A r \in rows : n - 1 >= r[2] => n >= r[2]
    BY <1>1
  <1> QED
    BY <1>2 DEF Kept

\* The packet without its last byte.
Short(p) == [p EXCEPT !.len = @ - 1]

\* What FieldsInFrame and FieldsStay ask of one packet.
FieldsGood(p) ==
  /\ SoundFields(p.len, Codec!decode(p).fields)
  /\ p.len > 0 /\ ~Codec!Reinterpreted(p) =>
       KeptFields(p.len, Codec!decode(Short(p)).fields, Codec!decode(p).fields)

\* Nothing but the length differs.
LEMMA ShortPacket ==
  ASSUME NEW p \in PacketType
  PROVE  /\ Short(p).code = p.code /\ Short(p).empty = p.empty
         /\ Short(p).len = p.len - 1 /\ Short(p).sub = p.sub
         /\ Short(p).path = p.path /\ Short(p).flags = p.flags
  BY DEF PacketType, Short

\* Sound and kept rows S, with the rows R of the shorter packet, are what is
\* asked.
LEMMA RowsGood ==
  ASSUME NEW p, NEW R, NEW S,
         Codec!decode(p).fields = Codec!Take(p.len, S),
         InBody(p.len, S), Apart(p.len, S),
         p.len > 0 /\ ~Codec!Reinterpreted(p) =>
           /\ Codec!decode(Short(p)).fields = Codec!Take(p.len - 1, R)
           /\ Kept(p.len, R, S)
  PROVE  FieldsGood(p)
  <1>1. SoundFields(p.len, Codec!decode(p).fields)
    BY TakeSound, Zenon
  <1>2. ASSUME p.len > 0, ~Codec!Reinterpreted(p)
        PROVE  KeptFields(p.len, Codec!decode(Short(p)).fields, Codec!decode(p).fields)
    BY <1>2, TakeKept, Zenon
  <1> QED
    BY <1>1, <1>2, Zenon DEF FieldsGood

\* A decoder of fixed rows.
LEMMA FixedGood ==
  ASSUME NEW p \in PacketType, ~p.empty, NEW rows, Fixed(rows),
         \A q : q.code = p.code /\ ~q.empty /\ q.sub = p.sub =>
               Codec!decode(q).fields = Codec!Take(q.len, rows)
  PROVE  FieldsGood(p)
  <1>1. p.len \in Nat
    BY DEF PacketType
  <1>2. Codec!decode(p).fields = Codec!Take(p.len, rows)
    OBVIOUS
  <1>3. Codec!decode(Short(p)).fields = Codec!Take(p.len - 1, rows)
    BY ShortPacket
  <1>4. InBody(p.len, rows) /\ Apart(p.len, rows)
    BY <1>1, FixedSound
  <1>5. Kept(p.len, rows, rows)
    BY <1>1, FixedKept
  <1> QED
    BY <1>2, <1>3, <1>4, <1>5, RowsGood, Zenon

\* Contact frames.
LEMMA ContactGood ==
  ASSUME NEW p \in PacketType, ~p.empty, p.code = 3
  PROVE  FieldsGood(p)
  <1>1. \A q : q.code = 3 /\ ~q.empty => Codec!decode(q).fields = Codec!Take(q.len, ContactRows)
    BY DEF Codec!decode, Codec!Typed, Codec!decodeContact, ContactRows
  <1> QED
    BY <1>1, ContactFixed, FixedGood, Zenon

\* No rows are fixed rows.
LEMMA NoneFixed == Fixed({})
  BY DEF Fixed

\* OK, NO_MORE_MESSAGES and MSG_WAITING have no fields.
LEMMA NoFieldsGood ==
  ASSUME NEW p \in PacketType, ~p.empty, p.code \in {0, 10, 131}
  PROVE  FieldsGood(p)
  <1>1. \A n : Codec!Take(n, {}) = {}
    BY DEF Codec!Take
  <1>2. \A q : q.code \in {0, 10, 131} /\ ~q.empty => Codec!decode(q).fields = {}
    BY DEF Codec!decode, Codec!Typed
  <1>3. \A q : q.code = p.code /\ ~q.empty => Codec!decode(q).fields = Codec!Take(q.len, {})
    BY <1>1, <1>2
  <1> QED
    BY <1>3, NoneFixed, FixedGood, Zenon

\* STATS: the sub-type, and behind it the counters of one of three layouts.
LEMMA StatsGood ==
  ASSUME NEW p \in PacketType, ~p.empty, p.code = 24
  PROVE  FieldsGood(p)
  <1> DEFINE rows == (CASE p.sub = 0 ->
                     {<<"BatteryMV", 10, 1, 3>>, <<"UptimeSecs", 10, 3, 7>>,
                      <<"ErrorFlags", 10, 7, 9>>, <<"QueueLen", 10, 9, 10>>}
                [] p.sub = 1 ->
                     {<<"NoiseFloor", 13, 1, 3>>, <<"LastRSSI", 13, 3, 4>>,
                      <<"LastSNR", 13, 4, 5>>, <<"TxAirSecs", 13, 5, 9>>,
                      <<"RxAirSecs", 13, 9, 13>>}
                [] p.sub = 2 ->
                     {<<"counter", 29, 1 + 4 * i, 5 + 4 * i>> : i \in 0..6}
                [] OTHER -> {}) \union {<<"Type", 1, 0, 1>>}
  <1>1. \A q : q.code = 24 /\ ~q.empty /\ q.sub = p.sub 
         => Codec!decode(q).fields = Codec!Take(q.len, rows)
    BY DEF Codec!decode, Codec!Typed, Codec!decodeStatsResponse, Codec!StatsTypeCore,
           Codec!StatsTypeRadio, Codec!StatsTypePackets
  <1>2. Fixed(rows)
    <2>1. CASE p.sub = 0
      BY <2>1 DEF Fixed
    <2>2. CASE p.sub = 1
      BY <2>2 DEF Fixed
    <2>3. CASE p.sub = 2
      <3>1. rows = {<<"counter", 29, 1 + 4 * i, 5 + 4 * i>> : i \in 0..6}
                   \union {<<"Type", 1, 0, 1>>}
        BY <2>3
      <3>2. Fixed({<<"counter", 29, 1 + 4 * i, 5 + 4 * i>> : i \in 0..6}
                  \union {<<"Type", 1, 0, 1>>})
        BY DEF Fixed
      <3> QED
        BY <3>1, <3>2, Zenon
    <2>4. CASE p.sub \notin 0..2
      BY <2>4 DEF Fixed
    <2>5. p.sub \in Nat
      BY DEF PacketType
    <2> QED
      BY <2>1, <2>2, <2>3, <2>4, <2>5
  <1> QED
    BY <1>1, <1>2, FixedGood, Zenon

\* The other answers and pushes whose fields are at fixed places.
LEMMA FixedFieldsGood ==
  ASSUME NEW p \in PacketType, ~p.empty, p.code \in {1, 2, 4, 6, 13, 18, 130, 133, 134}
  PROVE  FieldsGood(p)
  <1> DEFINE rows(c) ==
        CASE c = 1   -> {<<"Code", 1, 0, 1>>}
          [] c = 2   -> {<<"Count", 4, 0, 4>>}
          [] c = 4   -> {<<"MostRecentLastMod", 4, 0, 4>>}
          [] c = 6   -> {<<"Result", 1, 0, 1>>, <<"ExpectedAck", 5, 1, 5>>,
                         <<"SuggestedTimeout", 9, 5, 9>>}
          [] c = 13  -> {<<"FirmwareCode", 1, 0, 1>>}
          [] c = 18  -> {<<"Index", 1, 0, 1>>, <<"Name", 33, 1, 33>>, <<"Secret", 49, 33, 49>>}
          [] c = 130 -> {<<"Code", 4, 0, 4>>, <<"RoundTrip", 8, 4, 8>>}
          [] c = 133 -> {<<"Permissions", 1, 0, 1>>, <<"PublicKeyPrefix", 7, 1, 7>>,
                         <<"Tag", 11, 7, 11>>, <<"NewPermissions", 12, 11, 12>>}
          [] OTHER   -> {<<"PublicKeyPrefix", 7, 1, 7>>}
  <1>1. \A q : q.code = p.code /\ ~q.empty =>
           Codec!decode(q).fields = Codec!Take(q.len, rows(p.code))
    BY DEF Codec!decode, Codec!Typed, Codec!decodeSent, Codec!decodeDeviceInfo,
           Codec!decodeChannelInfo, Codec!decodeSendConfirmed, Codec!decodeLoginSuccess,
           Codec!decodeLoginFail
  <1>2. Fixed(rows(p.code))
    BY DEF Fixed
  <1> HIDE DEF rows
  <1> QED
    BY <1>1, <1>2, FixedGood, Zenon

\* Rows of which the last is a text that runs to the end of the body.
LEMMA TailGood ==
  ASSUME NEW n \in Nat, NEW F, Fixed(F), NEW k \in Nat, NEW f,
         \A r \in F : r[4] <= k
  PROVE  /\ InBody(n, F \union Codec!Rest(f, n, k))
         /\ Apart(n, F \union Codec!Rest(f, n, k))
         /\ Kept(n, F \union Codec!Rest(f, n - 1, k), F \union Codec!Rest(f, n, k))
  <1> DEFINE t == <<f, k + 1, k, n>>
             u == <<f, k + 1, k, n - 1>>
  <1>1. Codec!Rest(f, n, k) = {t} /\ Codec!Rest(f, n - 1, k) = {u}
    BY DEF Codec!Rest
  <1>2. t[1] = f /\ t[2] = k + 1 /\ t[3] = k /\ t[4] = n
    OBVIOUS
  <1>3. u[1] = f /\ u[2] = k + 1 /\ u[3] = k /\ u[4] = n - 1
    OBVIOUS
  <1>4. InBody(n, F) /\ Apart(n, F) /\ Kept(n, F, F)
    BY FixedSound, FixedKept
  <1>5. \A r \in F : r[3] \in Nat /\ r[4] \in Nat /\ r[3] <= r[4] /\ r[4] <= k
    BY DEF Fixed
  <1> HIDE DEF t, u
  <1>6. InBody(n, F \union {t})
    BY <1>2, <1>4 DEF InBody
  <1>7. Apart(n, F \union {t})
    BY <1>2, <1>4, <1>5 DEF Apart
  <1>8. Kept(n, F \union {u}, F \union {t})
    BY <1>2, <1>3, <1>4 DEF Kept
  <1> QED
    BY <1>1, <1>6, <1>7, <1>8

\* So is a packet decoded by such rows, if the shorter one has its text at
\* the same place.
LEMMA TextGood ==
  ASSUME NEW p \in PacketType, NEW F, Fixed(F), NEW k \in Nat, NEW f,
         \A r \in F : r[4] <= k,
         Codec!decode(p).fields = Codec!Take(p.len, F \union Codec!Rest(f, p.len, k)),
         p.len > 0 /\ ~Codec!Reinterpreted(p) =>
           Codec!decode(Short(p)).fields =
             Codec!Take(p.len - 1, F \union Codec!Rest(f, p.len - 1, k))
  PROVE  FieldsGood(p)
  <1>1. p.len \in Nat
    BY DEF PacketType
  <1>2. /\ InBody(p.len, F \union Codec!Rest(f, p.len, k))
        /\ Apart(p.len, F \union Codec!Rest(f, p.len, k))
        /\ Kept(p.len, F \union Codec!Rest(f, p.len - 1, k), F \union Codec!Rest(f, p.len, k))
    BY <1>1, TailGood
  <1> QED
    BY <1>2, RowsGood, Zenon

\* The fixed rows of decodeSelfInfo.
SelfRows ==
  {<<"AdvType", 1, 0, 1>>, <<"TxPower", 2, 1, 2>>, <<"MaxTxPower", 3, 2, 3>>,
   <<"PublicKey", 35, 3, 35>>, <<"AdvLat", 39, 35, 39>>, <<"AdvLon", 43, 39, 43>>,
   <<"RadioFreq", 51, 47, 51>>, <<"RadioBW", 55, 51, 55>>,
   <<"RadioSF", 56, 55, 56>>, <<"RadioCR", 57, 56, 57>>}

\* SELF_INFO: fixed fields and a name.
LEMMA SelfGood ==
  ASSUME NEW p \in PacketType, ~p.empty, p.code = 5
  PROVE  FieldsGood(p)
  <1>1. \A q : q.code = 5 /\ ~q.empty =>
           Codec!decode(q).fields
             = Codec!Take(q.len, SelfRows \union Codec!Rest("Name", q.len, 57))
    BY DEF Codec!decode, Codec!Typed, Codec!decodeSelfInfo, SelfRows
  <1>2. Fixed(SelfRows) /\ \A r \in SelfRows : r[4] <= 57
    BY DEF Fixed, SelfRows
  <1>3. Codec!decode(Short(p)).fields = 
             Codec!Take(p.len - 1, SelfRows \union Codec!Rest("Name", p.len - 1, 57))
    BY <1>1, ShortPacket
  <1> QED
    BY <1>1, <1>2, <1>3, TextGood

\* Where the fields of a message begin, its fixed rows, and where its text
\* begins.
Off(v3) == IF v3 THEN 3 ELSE 0
MessageRows(v3) ==
  {<<"SenderPrefix", Off(v3) + 6, Off(v3), Off(v3) + 6>>,
   <<"PathLen", Off(v3) + 7, Off(v3) + 6, Off(v3) + 7>>,
   <<"TxtType", Off(v3) + 8, Off(v3) + 7, Off(v3) + 8>>,
   <<"Timestamp", Off(v3) + 12, Off(v3) + 8, Off(v3) + 12>>} \union Codec!SnrPrefix(v3)
TextOff(v3, n, sub) ==
  IF n > Off(v3) + 7 /\ sub = 2 /\ n >= Off(v3) + 16 THEN Off(v3) + 16 ELSE Off(v3) + 12
ChannelRows(v3) ==
  {<<"Channel", Off(v3) + 1, Off(v3), Off(v3) + 1>>,
   <<"PathLen", Off(v3) + 2, Off(v3) + 1, Off(v3) + 2>>,
   <<"TxtType", Off(v3) + 3, Off(v3) + 2, Off(v3) + 3>>,
   <<"Timestamp", Off(v3) + 7, Off(v3) + 3, Off(v3) + 7>>} \union Codec!SnrPrefix(v3)

\* The rows of both frames, with and without the prefix.
LEMMA MessageFixed ==
  ASSUME NEW v3 \in BOOLEAN
  PROVE  /\ Fixed(MessageRows(v3)) /\ \A r \in MessageRows(v3) : r[4] <= Off(v3) + 12
         /\ Fixed(ChannelRows(v3)) /\ \A r \in ChannelRows(v3) : r[4] <= Off(v3) + 7
  <1>1. CASE v3
    <2>1. Codec!SnrPrefix(v3) = {<<"SNR", 1, 0, 1>>} /\ Off(v3) = 3
      BY <1>1 DEF Codec!SnrPrefix, Off
    <2> QED
      BY <2>1 DEF Fixed, MessageRows, ChannelRows
  <1>2. CASE ~v3
    <2>1. Codec!SnrPrefix(v3) = {} /\ Off(v3) = 0
      BY <1>2 DEF Codec!SnrPrefix, Off
    <2> QED
      BY <2>1 DEF Fixed, MessageRows, ChannelRows
  <1> QED
    BY <1>1, <1>2

\* What the two decoders take, in these terms.
LEMMA MessageTake ==
  ASSUME NEW n, NEW v3, NEW sub
  PROVE  /\ Codec!decodeContactMessage(n, v3, sub) = Codec!Take(n, MessageRows(v3)
              \union Codec!Rest("Text", n, TextOff(v3, n, sub)))
         /\ Codec!decodeChannelMessage(n, v3) = Codec!Take(n, ChannelRows(v3)
              \union Codec!Rest("Text", n, Off(v3) + 7))
  BY Zenon DEF Codec!decodeContactMessage, Codec!decodeChannelMessage, MessageRows, ChannelRows,
         TextOff, Off

\* The V3 codes decode with the prefix, the others without it.
LEMMA MessageDecoded ==
  ASSUME NEW q, ~q.empty
  PROVE  /\ q.code \in {7, 16} => Codec!decode(q).fields
              = Codec!decodeContactMessage(q.len, q.code = 16, q.sub)
         /\ q.code \in {8, 17} => Codec!decode(q).fields
              = Codec!decodeChannelMessage(q.len, q.code = 17)
  BY DEF Codec!decode, Codec!Typed

\* Contact messages: the text moves only at the length listed in Reinterpreted.
LEMMA MessageGood ==
  ASSUME NEW p \in PacketType, ~p.empty, p.code \in {7, 16}
  PROVE  FieldsGood(p)
  <1> DEFINE v3 == p.code = 16
             F == MessageRows(v3)
             k == TextOff(v3, p.len, p.sub)
  <1>1. p.len \in Nat /\ p.sub \in Nat
    BY DEF PacketType
  <1>2. /\ v3 \in BOOLEAN /\ Off(v3) \in Nat
        /\ Codec!decode(p).fields = Codec!decodeContactMessage(p.len, v3, p.sub)
    BY MessageDecoded DEF Off
  <1>3. Codec!decode(Short(p)).fields = Codec!decodeContactMessage(p.len - 1, v3, p.sub)
    BY ShortPacket, MessageDecoded
  <1>4. ASSUME ~Codec!Reinterpreted(p)
        PROVE  TextOff(v3, p.len - 1, p.sub) = k
    BY <1>1, <1>4 DEF Codec!Reinterpreted, TextOff, Off
  <1> HIDE DEF v3
  <1>m. \A n : Codec!decodeContactMessage(n, v3, p.sub)
                = Codec!Take(n, F \union Codec!Rest("Text", n, TextOff(v3, n, p.sub)))
    BY MessageTake, Zenon
  <1>5. Codec!decode(p).fields = Codec!Take(p.len, F \union Codec!Rest("Text", p.len, k))
    BY <1>2, <1>m, Zenon
  <1>6. ASSUME ~Codec!Reinterpreted(p)
        PROVE  Codec!decode(Short(p)).fields =
                 Codec!Take(p.len - 1, F \union Codec!Rest("Text", p.len - 1, k))
    <2>1. Codec!decode(Short(p)).fields = Codec!Take(p.len - 1,
            F \union Codec!Rest("Text", p.len - 1, TextOff(v3, p.len - 1, p.sub)))
      BY <1>3, <1>m, Zenon
    <2> QED
      BY <1>4, <1>6, <2>1, Zenon
  <1>7. k \in Nat /\ k >= Off(v3) + 12
    BY <1>1, <1>2 DEF TextOff
  <1>8. Fixed(F) /\ \A r \in F : r[4] <= Off(v3) + 12
    BY <1>2, MessageFixed
  <1>9. \A r \in F : r[4] \in Nat
    BY <1>8 DEF Fixed
  <1> HIDE DEF F, k
  <1>10. \A r \in F : r[4] <= k
    BY <1>2, <1>7, <1>8, <1>9
  <1> QED
    BY <1>5, <1>6, <1>7, <1>8, <1>10, TextGood

\* Channel messages.
LEMMA ChannelMessageGood ==
  ASSUME NEW p \in PacketType, ~p.empty, p.code \in {8, 17}
  PROVE  FieldsGood(p)
  <1> DEFINE v3 == p.code = 17
             F == ChannelRows(v3)
             k == Off(v3) + 7
  <1>1. /\ v3 \in BOOLEAN /\ k \in Nat
        /\ Codec!decode(p).fields = Codec!decodeChannelMessage(p.len, v3)
    BY MessageDecoded DEF Off
  <1>2. Codec!decode(Short(p)).fields = Codec!decodeChannelMessage(p.len - 1, v3)
    BY ShortPacket, MessageDecoded
  <1> HIDE DEF v3
  <1>3. Codec!decode(p).fields = Codec!Take(p.len, F \union Codec!Rest("Text", p.len, k))
    BY <1>1, MessageTake
  <1>4. Codec!decode(Short(p)).fields =
          Codec!Take(p.len - 1, F \union Codec!Rest("Text", p.len - 1, k))
    BY <1>2, MessageTake
  <1>5. Fixed(F) /\ \A r \in F : r[4] <= k
    BY <1>1, MessageFixed
  <1> HIDE DEF F, k
  <1> QED
    BY <1>1, <1>3, <1>4, <1>5, TextGood

\* A raw packet is one field, which grows with it.
LEMMA RawGood ==
  ASSUME NEW p \in PacketType, 
         Codec!decode(p) = Codec!Raw(p),
         p.len > 0 => Codec!decode(Short(p)) = Codec!Raw(Short(p))
  PROVE  FieldsGood(p)
  <1> DEFINE row(n) == {<<"Payload", 0, 0, n>>}
  <1>0. p.len \in Nat
    BY DEF PacketType
  <1>1. \A n \in Nat : Codec!Take(n, row(n)) = {[field |-> "Payload", from |-> 0, to |-> n]}
    <2> SUFFICES ASSUME NEW n \in Nat
                 PROVE  Codec!Take(n, row(n)) = {[field |-> "Payload", from |-> 0, to |-> n]}
      OBVIOUS
    <2>1. {q \in row(n) : n >= q[2]} = row(n)
      OBVIOUS
    <2>2. Codec!Take(n, row(n)) = {[field |-> r[1], from |-> r[3], to |-> r[4]] : r \in row(n)}
      BY <2>1 DEF Codec!Take
    <2> QED
      BY <2>2
  <1>2. Codec!decode(p).fields = Codec!Take(p.len, row(p.len))
    BY <1>0, <1>1 DEF Codec!Raw
  <1>3. ASSUME p.len > 0
        PROVE  Codec!decode(Short(p)).fields = Codec!Take(p.len - 1, row(p.len - 1))
    <2>1. p.len - 1 \in Nat
      BY <1>0, <1>3
    <2>2. Codec!Take(p.len - 1, row(p.len - 1))
            = {[field |-> "Payload", from |-> 0, to |-> p.len - 1]}
      BY <1>1, <2>1
    <2>3. Codec!Raw(Short(p)).fields = {[field |-> "Payload", from |-> 0, to |-> p.len - 1]}
      BY ShortPacket DEF Codec!Raw
    <2> QED
      BY <1>3, <2>2, <2>3
  <1>4. InBody(p.len, row(p.len)) /\ Apart(p.len, row(p.len))
    BY <1>0 DEF InBody, Apart
  <1>5. p.len > 0 => Kept(p.len, row(p.len - 1), row(p.len))
    BY <1>0 DEF Kept
  <1> QED
    BY <1>2, <1>3, <1>4, <1>5, RowsGood, Zenon

\* A packet without a code byte has no fields.
LEMMA EmptyGood ==
  ASSUME NEW p \in PacketType, p.empty
  PROVE  FieldsGood(p)
  <1>1. \A q : q.empty => Codec!decode(q).fields = {}
    BY DEF Codec!decode
  <1>2. Codec!decode(p).fields = {} /\ Codec!decode(Short(p)).fields = {}
    BY <1>1, ShortPacket
  <1> QED
    BY <1>2 DEF FieldsGood, SoundFields, KeptFields

\* A fixed answer that is raw below a length.
LEMMA TimeGood ==
  ASSUME NEW p \in PacketType, ~p.empty, p.code \in {9, 12}
  PROVE  FieldsGood(p)
  <1> DEFINE k == IF p.code = 9 THEN 4 ELSE 2
             rows == IF p.code = 9 THEN {<<"Time", 4, 0, 4>>} ELSE {<<"Millivolts", 2, 0, 2>>}
  <1>1. p.len \in Nat
    BY DEF PacketType
  <1>2. \A q : q.code = p.code /\ ~q.empty /\ q.len >= k =>
           Codec!decode(q).fields = Codec!Take(q.len, rows)
    BY DEF Codec!decode, Codec!Typed
  <1>3. \A q : q.code = p.code /\ ~q.empty /\ q.len \in Nat /\ q.len < k =>
           Codec!decode(q) = Codec!Raw(q)
    BY DEF Codec!decode
  <1>4. Fixed(rows)
    BY DEF Fixed
  <1>5. k \in Nat /\ (p.len = k => Codec!Reinterpreted(p))
    BY DEF Codec!Reinterpreted
  <1> HIDE DEF rows, k
  <1>6. CASE p.len >= k
    <2>1. Codec!decode(p).fields = Codec!Take(p.len, rows)
      BY <1>2, <1>6
    <2>2. ASSUME ~Codec!Reinterpreted(p)
          PROVE  Codec!decode(Short(p)).fields = Codec!Take(p.len - 1, rows)
      <3>1. p.len - 1 >= k
        BY <1>1, <1>5, <1>6, <2>2
      <3> QED
        BY <1>2, <3>1, ShortPacket
    <2>3. InBody(p.len, rows) /\ Apart(p.len, rows) /\ Kept(p.len, rows, rows)
      BY <1>1, <1>4, FixedSound, FixedKept
    <2> QED
      BY <2>1, <2>2, <2>3, RowsGood, Zenon
  <1>7. CASE p.len < k
    <2>1. Codec!decode(p) = Codec!Raw(p)
      BY <1>1, <1>3, <1>7
    <2>2. ASSUME p.len > 0 PROVE Codec!decode(Short(p)) = Codec!Raw(Short(p))
      <3>1. p.len - 1 \in Nat /\ p.len - 1 < k
        BY <1>1, <1>5, <1>7, <2>2
      <3> QED
        BY <1>3, <3>1, ShortPacket
    <2> QED
      BY <2>1, <2>2, RawGood
  <1> QED
    BY <1>1, <1>5, <1>6, <1>7

\* ADVERT: a name that becomes a key at 32 bytes, and a key with a name
\* behind it.
LEMMA AdvertGood ==
  ASSUME NEW p \in PacketType, ~p.empty, p.code = 128
  PROVE  FieldsGood(p)
  <1> DEFINE rows(n) == IF n >= 32 THEN {<<"PublicKey", 32, 0, 32>>, <<"Name", 32, 32, n>>}
                        ELSE {<<"Name", 0, 0, n>>}
  <1>1. p.len \in Nat
    BY DEF PacketType
  <1>2. \A q : q.code = 128 /\ ~q.empty => Codec!decode(q).fields = Codec!Take(q.len, rows(q.len))
    BY DEF Codec!decode, Codec!Typed, Codec!decodeAdvert
  <1>3. Codec!decode(Short(p)).fields = Codec!Take(p.len - 1, rows(p.len - 1))
    BY <1>2, ShortPacket
  <1>4. p.len = 32 => Codec!Reinterpreted(p)
    BY DEF Codec!Reinterpreted
  <1>5. InBody(p.len, rows(p.len)) /\ Apart(p.len, rows(p.len))
    BY <1>1 DEF InBody, Apart
  <1>6. p.len # 32 => Kept(p.len, rows(p.len - 1), rows(p.len))
    <2>1. CASE p.len > 32
      <3>1. /\ rows(p.len) = {<<"PublicKey", 32, 0, 32>>, <<"Name", 32, 32, p.len>>}
            /\ rows(p.len - 1) = {<<"PublicKey", 32, 0, 32>>, <<"Name", 32, 32, p.len - 1>>}
        BY <1>1, <2>1
      <3> HIDE DEF rows
      <3> QED
        BY <1>1, <2>1, <3>1 DEF Kept
    <2>2. CASE p.len < 32
      <3>1. /\ rows(p.len) = {<<"Name", 0, 0, p.len>>}
            /\ rows(p.len - 1) = {<<"Name", 0, 0, p.len - 1>>}
        BY <1>1, <2>2
      <3> HIDE DEF rows
      <3> QED
        BY <1>1, <2>2, <3>1 DEF Kept
    <2> QED
      BY <1>1, <2>1, <2>2
  <1> HIDE DEF rows
  <1>7. Codec!decode(p).fields = Codec!Take(p.len, rows(p.len))
    BY <1>2
  <1>8. ~Codec!Reinterpreted(p) => Kept(p.len, rows(p.len - 1), rows(p.len))
    BY <1>4, <1>6
  <1> QED
    BY <1>3, <1>5, <1>7, <1>8, RowsGood, Zenon

\* A contact without its flags.
LEMMA NewAdvertGood ==
  ASSUME NEW p \in PacketType, ~p.empty, p.code = 138
  PROVE  FieldsGood(p)
  <1> DEFINE rows == {r \in ContactRows : r[1] # "Flags"}
  <1>1. \A n : Codec!advertFromContact(Codec!decodeContact(n)) = Codec!Take(n, rows)
    <2>1. \A n : Codec!decodeContact(n) = Codec!Take(n, ContactRows)
      BY DEF Codec!decodeContact, ContactRows
    <2>2. \A n : {f \in Codec!Take(n, ContactRows) : f.field # "Flags"} = Codec!Take(n, rows)
      BY DEF Codec!Take
    <2> QED
      BY <2>1, <2>2 DEF Codec!advertFromContact
  <1>2. \A q : q.code = 138 /\ ~q.empty => Codec!decode(q).fields = Codec!Take(q.len, rows)
    BY <1>1 DEF Codec!decode, Codec!Typed
  <1>3. Fixed(rows)
    BY ContactFixed DEF Fixed
  <1> HIDE DEF rows
  <1> QED
    BY <1>2, <1>3, FixedGood, Zenon

\* CONTROL_DATA: raw below four bytes; the key of a discovered node has
\* three lengths.
LEMMA ControlGood ==
  ASSUME NEW p \in PacketType, ~p.empty, p.code = 142
  PROVE  FieldsGood(p)
  <1> DEFINE keyEnd(n) == IF n - 9 >= 32 THEN 41 ELSE IF n - 9 >= 8 THEN 17 ELSE n
             head == {<<"SNR", 4, 0, 1>>, <<"RSSI", 4, 1, 2>>, <<"PathLen", 4, 2, 3>>}
             found(n) == {<<"NodeType", 4, 3, 4>>, <<"SNRUp", 5, 4, 5>>, <<"Tag", 9, 5, 9>>}
                         \union (IF n > 9 THEN {<<"PublicKey", 10, 9, keyEnd(n)>>} ELSE {})
             other(n) == {<<"PayloadType", 4, 3, 4>>, <<"Payload", 4, 4, n>>}
             rows(n) == head \union IF p.sub = 9 THEN found(n) ELSE other(n)
  <1>1. p.len \in Nat
    BY DEF PacketType
  <1>2. \A q : q.code = 142 /\ ~q.empty /\ q.len >= 4 /\ q.sub = p.sub =>
                 Codec!decode(q).fields = Codec!Take(q.len, rows(q.len))
    BY DEF Codec!decode, Codec!Typed, Codec!decodeControlData, Codec!decodeNodeDiscoverResp,
           Codec!controlNodeDiscoverResp
  <1>3. \A q : q.code = 142 /\ ~q.empty /\ q.len \in Nat /\ q.len < 4 =>
                 Codec!decode(q) = Codec!Raw(q)
    BY DEF Codec!decode
  <1>4. p.len = 4 => Codec!Reinterpreted(p)
    BY DEF Codec!Reinterpreted
  <1>5. CASE p.len >= 4
    <2>1. InBody(p.len, rows(p.len)) /\ Apart(p.len, rows(p.len))
      <3>1. CASE p.sub = 9 /\ p.len > 9
        <4>1. keyEnd(p.len) \in Nat /\ 9 <= keyEnd(p.len) /\ keyEnd(p.len) <= p.len
          BY <1>1, <3>1
        <4>2. rows(p.len) = head \union {<<"NodeType", 4, 3, 4>>, <<"SNRUp", 5, 4, 5>>,
                 <<"Tag", 9, 5, 9>>, <<"PublicKey", 10, 9, keyEnd(p.len)>>}
          BY <1>1, <3>1
        <4> HIDE DEF keyEnd, rows
        <4> QED
          BY <1>1, <4>1, <4>2 DEF InBody, Apart
      <3>2. CASE p.sub = 9 /\ ~(p.len > 9)
        <4>2. rows(p.len) = head \union {<<"NodeType", 4, 3, 4>>, <<"SNRUp", 5, 4, 5>>,
                 <<"Tag", 9, 5, 9>>}
          BY <1>1, <3>2
        <4> HIDE DEF rows
        <4> QED
          BY <1>1, <4>2 DEF InBody, Apart
      <3>3. CASE p.sub # 9
        <4>2. rows(p.len) = head \union other(p.len)
          BY <1>1, <3>3
        <4> HIDE DEF rows
        <4> QED
          BY <1>1, <1>5, <4>2 DEF InBody, Apart
      <3> QED
        BY <3>1, <3>2, <3>3
    <2>2. ASSUME p.len > 4 PROVE Kept(p.len, rows(p.len - 1), rows(p.len))
      <3>1. CASE p.sub = 9
        <4>1. /\ rows(p.len) = head \union found(p.len)
              /\ rows(p.len - 1) = head \union found(p.len - 1)
          BY <3>1
        <4>2. Kept(p.len, head, head)
          BY <1>1 DEF Kept
        <4>3. Kept(p.len, found(p.len - 1), found(p.len))
          <5>1. CASE p.len <= 9
            BY <1>1, <5>1 DEF Kept
          <5>2. CASE p.len = 10
            BY <1>1, <5>2 DEF Kept
          <5>3. CASE p.len > 10
            <6>1. keyEnd(p.len) = keyEnd(p.len - 1) \/ keyEnd(p.len) = p.len
              BY <1>1, <5>3
            <6>2. /\ found(p.len) = {<<"NodeType", 4, 3, 4>>, <<"SNRUp", 5, 4, 5>>,
                      <<"Tag", 9, 5, 9>>, <<"PublicKey", 10, 9, keyEnd(p.len)>>}
                  /\ found(p.len - 1) = {<<"NodeType", 4, 3, 4>>, <<"SNRUp", 5, 4, 5>>,
                      <<"Tag", 9, 5, 9>>, <<"PublicKey", 10, 9, keyEnd(p.len - 1)>>}
              BY <1>1, <5>3
            <6> HIDE DEF keyEnd, found
            <6> QED
              BY <1>1, <5>3, <6>1, <6>2 DEF Kept
          <5> QED
            BY <1>1, <5>1, <5>2, <5>3
        <4> HIDE DEF head, found, rows
        <4> QED
          BY <4>1, <4>2, <4>3 DEF Kept
      <3>2. CASE p.sub # 9
        <4>1. /\ rows(p.len) = head \union other(p.len)
              /\ rows(p.len - 1) = head \union other(p.len - 1)
          BY <3>2
        <4> HIDE DEF rows
        <4> QED
          BY <1>1, <4>1 DEF Kept
      <3> QED
        BY <3>1, <3>2
    <2> HIDE DEF rows
    <2>3. Codec!decode(p).fields = Codec!Take(p.len, rows(p.len))
      BY <1>2, <1>5
    <2>4. ASSUME ~Codec!Reinterpreted(p)
          PROVE  /\ p.len > 4
                 /\ Codec!decode(Short(p)).fields = Codec!Take(p.len - 1, rows(p.len - 1))
      <3>1. p.len - 1 >= 4 /\ p.len > 4
        BY <1>1, <1>4, <1>5, <2>4
      <3> QED
        BY <1>2, <3>1, ShortPacket
    <2> QED
      BY <2>1, <2>2, <2>3, <2>4, RowsGood, Zenon
  <1>7. CASE p.len < 4
    <2>1. Codec!decode(p) = Codec!Raw(p)
      BY <1>1, <1>3, <1>7
    <2>2. ASSUME p.len > 0 PROVE Codec!decode(Short(p)) = Codec!Raw(Short(p))
      <3>1. p.len - 1 \in Nat /\ p.len - 1 < 4
        BY <1>1, <1>7, <2>2
      <3> QED
        BY <1>3, <3>1, ShortPacket
    <2> QED
      BY <2>1, <2>2, RawGood
  <1> QED
    BY <1>1, <1>5, <1>7

\* Every other code is raw.
LEMMA OtherGood ==
  ASSUME NEW p \in PacketType, ~p.empty,
         p.code \notin {0, 1, 2, 3, 4, 5, 6, 7, 8, 9, 10, 12, 13, 16, 17, 18, 24,
                        128, 130, 131, 133, 134, 135, 137, 138, 142}
  PROVE  FieldsGood(p)
  <1>1. \A q : q.code = p.code /\ ~q.empty => Codec!decode(q) = Codec!Raw(q)
    BY DEF Codec!decode
  <1> QED
    BY <1>1, ShortPacket, RawGood

\* The recursive definition of StatsOffset is met by a closed form.
OffsetOf(i) == IF i <= 5 THEN 2 * (i - 1)
               ELSE IF i <= 13 THEN 8 + 4 * (i - 5)
               ELSE IF i <= 17 THEN 40 + 2 * (i - 13) ELSE 52
\* The widths by position.
WidthOf(i) == IF i <= 4 THEN 2 ELSE IF i <= 12 THEN 4 ELSE IF i <= 16 THEN 2 ELSE 4

\* StatsWidth lists those widths.
LEMMA Widths == \A i \in 1..18 : Codec!StatsWidth[i] = WidthOf(i)
  BY DEF Codec!StatsWidth, WidthOf

\* StatsOffset has the closed form: the recursion determines its eighteen
\* values.
LEMMA Offsets == \A i \in 1..18 : Codec!StatsOffset[i] = OffsetOf(i)
  <1> DEFINE Def(g) == g = [i \in 1..18 |-> IF i = 1 THEN 0
                                            ELSE g[i - 1] + Codec!StatsWidth[i - 1]]
             w == [i \in 1..18 |-> OffsetOf(i)]
  <1>1. Codec!StatsOffset = CHOOSE g : Def(g)
    BY DEF Codec!StatsOffset
  <1>2. \A i \in 1..18 : w[i] = IF i = 1 THEN 0 ELSE w[i - 1] + Codec!StatsWidth[i - 1]
    <2>1. \A i \in 2..18 : i - 1 \in 1..18 /\ Codec!StatsWidth[i - 1] = WidthOf(i - 1)
      BY Widths
    <2>2. \A i \in 2..18 : OffsetOf(i) = OffsetOf(i - 1) + WidthOf(i - 1)
      BY DEF OffsetOf, WidthOf
    <2>3. OffsetOf(1) = 0
      BY DEF OffsetOf
    <2> QED
      BY <2>1, <2>2, <2>3
  <1>3. Def(w)
    <2>1. [i \in 1..18 |-> w[i]] = w
      OBVIOUS
    <2> HIDE DEF w
    <2> QED
      BY <1>2, <2>1
  <1>4. Def(Codec!StatsOffset)
    <2> HIDE DEF Def
    <2> QED
      BY <1>1, <1>3, Zenon
  <1> DEFINE s == Codec!StatsOffset
  <1>5. s = [i \in 1..18 |-> IF i = 1 THEN 0 ELSE s[i - 1] + Codec!StatsWidth[i - 1]]
    BY <1>4, Zenon
  <1> HIDE DEF s
  <1>6. \A i \in 1..18 : s[i] = IF i = 1 THEN 0 ELSE s[i - 1] + Codec!StatsWidth[i - 1]
    <2> DEFINE t == [i \in 1..18 |-> IF i = 1 THEN 0 ELSE s[i - 1] + Codec!StatsWidth[i - 1]]
    <2>1. \A i \in 1..18 : t[i] = IF i = 1 THEN 0 ELSE s[i - 1] + Codec!StatsWidth[i - 1]
      OBVIOUS
    <2> HIDE DEF t
    <2> QED
      BY <1>5, <2>1 DEF t
  <1>7. s[1] = 0 /\ \A i \in 1..17 : s[i + 1] = s[i] + WidthOf(i)
    <2>1. \A i \in 1..17 : i + 1 \in 1..18 /\ i \in 1..18 /\ i + 1 # 1 /\ (i + 1) - 1 = i
      OBVIOUS
    <2>2. \A i \in 1..17 : s[i + 1] = s[i] + Codec!StatsWidth[i]
      BY <1>6, <2>1
    <2> QED
      BY <1>6, <2>1, <2>2, Widths
  <1>8. /\ s[1] = 0 /\ s[2] = 2 /\ s[3] = 4 /\ s[4] = 6 /\ s[5] = 8 /\ s[6] = 12
    BY <1>7 DEF WidthOf
  <1>9. s[7] = 16 /\ s[8] = 20 /\ s[9] = 24 /\ s[10] = 28 /\ s[11] = 32 /\ s[12] = 36
    BY <1>7, <1>8 DEF WidthOf
  <1>10. s[13] = 40 /\ s[14] = 42 /\ s[15] = 44 /\ s[16] = 46 /\ s[17] = 48 /\ s[18] = 52
    BY <1>7, <1>9 DEF WidthOf
  <1>11. \A i \in 1..18 : s[i] = OffsetOf(i)
    BY <1>8, <1>9, <1>10 DEF OffsetOf
  <1> QED
    BY <1>11 DEF s

\* The rows of a status response with counters.
StatsRows ==
  {<<"stats", 63, 7 + OffsetOf(i), 7 + OffsetOf(i) + WidthOf(i)>> : i \in 1..18}
  \union {<<"PublicKeyPrefix", 7, 1, 7>>}

\* The counters follow one another, behind the key prefix, up to the 56th byte.
LEMMA StatsFixed == Fixed(StatsRows)
  <1> DEFINE row(i) == <<"stats", 63, 7 + OffsetOf(i), 7 + OffsetOf(i) + WidthOf(i)>>
             key == <<"PublicKeyPrefix", 7, 1, 7>>
  <1>1. \A i \in 1..18 : /\ row(i)[2] = 63 /\ row(i)[3] = 7 + OffsetOf(i)
                         /\ row(i)[4] = 7 + OffsetOf(i) + WidthOf(i)
    OBVIOUS
  <1>2. \A i \in 1..18 : /\ OffsetOf(i) \in Nat /\ WidthOf(i) \in Nat
                         /\ OffsetOf(i) + WidthOf(i) <= 56
    BY DEF OffsetOf, WidthOf
  <1>3. \A i, j \in 1..18 : i < j => OffsetOf(i) + WidthOf(i) <= OffsetOf(j)
    BY DEF OffsetOf, WidthOf
  <1>4. key[2] = 7 /\ key[3] = 1 /\ key[4] = 7
    OBVIOUS
  <1>5. \A r \in StatsRows : r = key \/ \E i \in 1..18 : r = row(i)
    BY DEF StatsRows
  <1> HIDE DEF row, key
  <1>6. ASSUME NEW r \in StatsRows
        PROVE  r[2] \in Nat /\ r[3] \in Nat /\ r[4] \in Nat /\ r[3] <= r[4] /\ r[4] <= r[2]
    <2>1. CASE r = key
      BY <1>4, <2>1
    <2>2. ASSUME NEW i \in 1..18, r = row(i)
          PROVE  r[2] \in Nat /\ r[3] \in Nat /\ r[4] \in Nat /\ r[3] <= r[4] /\ r[4] <= r[2]
      BY <1>1, <1>2, <2>2
    <2> QED
      BY <1>5, <2>1, <2>2
  <1>7. ASSUME NEW r \in StatsRows, NEW q \in StatsRows
        PROVE  r = q \/ r[4] <= q[3] \/ q[4] <= r[3]
    <2>1. CASE r = key /\ q = key
      BY <2>1
    <2>2. ASSUME NEW i \in 1..18, r = row(i), q = key PROVE q[4] <= r[3]
      BY <1>1, <1>2, <1>4, <2>2
    <2>3. ASSUME NEW i \in 1..18, q = row(i), r = key PROVE r[4] <= q[3]
      BY <1>1, <1>2, <1>4, <2>3
    <2>4. ASSUME NEW i \in 1..18, NEW j \in 1..18, r = row(i), q = row(j)
          PROVE  r = q \/ r[4] <= q[3] \/ q[4] <= r[3]
      <3>1. CASE i = j
        BY <2>4, <3>1
      <3>2. CASE i < j
        BY <1>1, <1>2, <1>3, <2>4, <3>2
      <3>3. CASE j < i
        BY <1>1, <1>2, <1>3, <2>4, <3>3
      <3> QED
        BY <3>1, <3>2, <3>3
    <2> QED
      BY <1>5, <2>1, <2>2, <2>3, <2>4
  <1> QED
    BY <1>6, <1>7 DEF Fixed

\* STATUS_RESPONSE: a key prefix, and text that becomes counters at 63 bytes.
LEMMA StatusGood ==
  ASSUME NEW p \in PacketType, ~p.empty, p.code = 135
  PROVE  FieldsGood(p)
  <1> DEFINE key == {<<"PublicKeyPrefix", 7, 1, 7>>}
  <1>1. p.len \in Nat
    BY DEF PacketType
  <1>2. \A q : q.code = 135 /\ ~q.empty =>
                 Codec!decode(q).fields = Codec!decodeStatusResponse(q.len)
    BY DEF Codec!decode, Codec!Typed
  <1>3. Codec!decode(p).fields = Codec!decodeStatusResponse(p.len)
    BY <1>2
  <1>4. Codec!decode(Short(p)).fields = Codec!decodeStatusResponse(p.len - 1)
    BY <1>2, ShortPacket
  <1>5. p.len = 63 => Codec!Reinterpreted(p)
    BY DEF Codec!Reinterpreted, Codec!RepeaterStatsSize
  <1>6. ASSUME NEW n \in Int, n >= 63
        PROVE  Codec!decodeStatusResponse(n) = Codec!Take(n, StatsRows)
    <2>1. Codec!ParseRepeaterStats(7)
            = {<<"stats", 63, 7 + OffsetOf(i), 7 + OffsetOf(i) + WidthOf(i)>> : i \in 1..18}
      BY Offsets, Widths DEF Codec!ParseRepeaterStats, Codec!RepeaterStatsSize
    <2>2. Codec!decodeStatusData(n, 7) = Codec!ParseRepeaterStats(7)
      BY <1>6 DEF Codec!decodeStatusData, Codec!RepeaterStatsSize
    <2>3. Codec!decodeStatusResponse(n) = Codec!Take(n, key \union Codec!decodeStatusData(n, 7))
      BY <1>6 DEF Codec!decodeStatusResponse
    <2>4. key \union Codec!ParseRepeaterStats(7) = StatsRows
      BY <2>1 DEF StatsRows
    <2> QED
      BY <2>2, <2>3, <2>4
  <1>7. ASSUME NEW n \in Int, n < 63
        PROVE  Codec!decodeStatusResponse(n) = Codec!Take(n, key \union Codec!Rest("Text", n, 7))
    <2>1. CASE n > 7
      BY <1>7, <2>1
      DEF Codec!decodeStatusResponse, Codec!decodeStatusData, Codec!RepeaterStatsSize
    <2>2. CASE ~(n > 7)
      <3>1. Codec!decodeStatusResponse(n) = Codec!Take(n, key)
        BY <2>2 DEF Codec!decodeStatusResponse
      <3>2. Codec!Take(n, key) = Codec!Take(n, key \union Codec!Rest("Text", n, 7))
        BY <2>2 DEF Codec!Take, Codec!Rest
      <3> QED
        BY <3>1, <3>2
    <2> QED
      BY <2>1, <2>2
  <1>8. CASE p.len >= 63
    <2>1. Codec!decode(p).fields = Codec!Take(p.len, StatsRows)
      BY <1>1, <1>3, <1>6, <1>8
    <2>2. ASSUME ~Codec!Reinterpreted(p)
          PROVE  Codec!decode(Short(p)).fields = Codec!Take(p.len - 1, StatsRows)
      <3>1. p.len - 1 \in Int /\ p.len - 1 >= 63
        BY <1>1, <1>5, <1>8, <2>2
      <3> QED
        BY <1>4, <1>6, <3>1
    <2>3. InBody(p.len, StatsRows) /\ Apart(p.len, StatsRows) /\ Kept(p.len, StatsRows, StatsRows)
      BY <1>1, StatsFixed, FixedSound, FixedKept
    <2> QED
      BY <2>1, <2>2, <2>3, RowsGood, Zenon
  <1>9. CASE p.len < 63
    <2>1. Codec!decode(p).fields = Codec!Take(p.len, key \union Codec!Rest("Text", p.len, 7))
      BY <1>1, <1>3, <1>7, <1>9
    <2>2. Codec!decode(Short(p)).fields
            = Codec!Take(p.len - 1, key \union Codec!Rest("Text", p.len - 1, 7))
      <3>1. p.len - 1 \in Int /\ p.len - 1 < 63
        BY <1>1, <1>9
      <3> QED
        BY <1>4, <1>7, <3>1
    <2>3. Fixed(key) /\ (\A r \in key : r[4] <= 7) /\ 7 \in Nat
      BY DEF Fixed
    <2> HIDE DEF key
    <2> QED
      BY <2>1, <2>2, <2>3, TextGood
  <1> QED
    BY <1>1, <1>8, <1>9

\* The fixed rows of a trace.
TraceHead == {<<"Flags", 11, 2, 3>>, <<"Tag", 11, 3, 7>>, <<"Auth", 11, 7, 11>>}

\* The rows of a trace whose path ends at u and whose SNRs end at v.
TraceRows(u, v) ==
  TraceHead \union {<<"Path", 11, 11, u>>}
  \union {<<"SNR", 11, i, i + 1>> : i \in u..(v - 1)}
  \union {<<"SNR", v + 1, v, v + 1>>}

\* They end where the path begins.
LEMMA TraceHeadFixed == Fixed(TraceHead) /\ \A r \in TraceHead : r[2] = 11 /\ r[4] <= 11
  BY DEF Fixed, TraceHead

\* With both ends clamped to the frame, no SNR lies outside it or in the path.
LEMMA TraceSound ==
  ASSUME NEW n \in Nat, NEW u \in Nat, NEW v \in Nat, 11 <= u, u <= v, v <= n
  PROVE  InBody(n, TraceRows(u, v)) /\ Apart(n, TraceRows(u, v))
  <1> DEFINE rows == TraceRows(u, v)
             path == <<"Path", 11, 11, u>>
             end == <<"SNR", v + 1, v, v + 1>>
             snr(i) == <<"SNR", 11, i, i + 1>>
  <1>1. path[3] = 11 /\ path[4] = u
    OBVIOUS
  <1>2. end[2] = v + 1 /\ end[3] = v /\ end[4] = v + 1
    OBVIOUS
  <1>3. \A i \in u..(v - 1) : snr(i)[3] = i /\ snr(i)[4] = i + 1
    OBVIOUS
  <1>4. \A r \in TraceHead : /\ r[3] \in Nat /\ r[4] \in Nat /\ r[3] <= r[4] /\ r[4] <= 11
    BY TraceHeadFixed DEF Fixed
  <1>5. \A r, q \in TraceHead : r = q \/ r[4] <= q[3] \/ q[4] <= r[3]
    BY TraceHeadFixed DEF Fixed
  <1>6. \A r \in rows : r \in TraceHead \/ r = path \/ r = end \/ \E i \in u..(v - 1) : r = snr(i)
    BY DEF TraceRows
  <1> HIDE DEF rows, path, end, snr
  <1>7. InBody(n, rows)
    <2> SUFFICES ASSUME NEW r \in rows, n >= r[2] PROVE r[3] <= r[4] /\ r[4] <= n
      BY DEF InBody
    <2>1. CASE r \in TraceHead
      BY <1>4, <2>1
    <2>2. CASE r = path
      BY <1>1, <2>2
    <2>3. CASE r = end
      BY <1>2, <2>3
    <2>4. ASSUME NEW i \in u..(v - 1), r = snr(i) PROVE r[3] <= r[4] /\ r[4] <= n
      BY <1>3, <2>4
    <2> QED
      BY <1>6, <2>1, <2>2, <2>3, <2>4
  <1>8. Apart(n, rows)
    <2> DEFINE Low(r) == r[4] \in Nat /\ r[4] <= 11
               Clear(r, q) == r = q \/ r[4] <= q[3] \/ q[4] <= r[3]
    <2> SUFFICES ASSUME NEW r \in rows, NEW q \in rows PROVE Clear(r, q)
      BY DEF Apart
    <2>1. CASE r \in TraceHead /\ q \in TraceHead
      BY <1>5, <2>1
    <2>2. ASSUME NEW x \in TraceHead, NEW y \in rows, y \notin TraceHead
          PROVE  x[4] <= y[3]
      <3>1. y[3] \in Nat /\ y[3] >= 11
        BY <1>1, <1>2, <1>3, <1>6, <2>2
      <3> QED
        BY <1>4, <3>1
    <2>3. \A i \in u..(v - 1) : path[4] <= snr(i)[3] /\ snr(i)[4] <= end[3]
      BY <1>1, <1>2, <1>3
    <2>4. path[4] <= end[3]
      BY <1>1, <1>2
    <2>5. \A i, j \in u..(v - 1) : Clear(snr(i), snr(j))
      <3> SUFFICES ASSUME NEW i \in u..(v - 1), NEW j \in u..(v - 1) PROVE Clear(snr(i), snr(j))
        OBVIOUS
      <3>1. CASE i = j
        BY <3>1
      <3>2. CASE i < j
        BY <1>3, <3>2
      <3>3. CASE j < i
        BY <1>3, <3>3
      <3> QED
        BY <3>1, <3>2, <3>3
    <2>6. CASE r \in TraceHead \/ q \in TraceHead
      BY <2>1, <2>2, <2>6
    <2>7. CASE r \notin TraceHead /\ q \notin TraceHead
      BY <1>6, <2>3, <2>4, <2>5, <2>7
    <2> QED
      BY <2>6, <2>7
  <1> QED
    BY <1>7, <1>8 DEF rows

\* One more byte lengthens a path or a run of SNRs that was cut off, and
\* moves neither.
LEMMA TraceKept ==
  ASSUME NEW n \in Nat, NEW u \in Nat, NEW v \in Nat, NEW x \in Nat, NEW y \in Nat,
         n > 11, 11 <= x, x <= y, y < n, 11 <= u, u <= v, v <= n,
         \/ x = u /\ y <= v /\ (y < n - 1 => y = v)
         \/ u = n /\ x = n - 1 /\ y = n - 1
  PROVE  Kept(n, TraceRows(x, y), TraceRows(u, v))
  <1> SUFFICES ASSUME NEW r \in TraceRows(x, y), n - 1 >= r[2]
               PROVE  \E q \in TraceRows(u, v) :
                        /\ n >= q[2] /\ q[1] = r[1] /\ q[3] = r[3]
                        /\ q[4] = r[4] \/ q[4] = n
    BY DEF Kept
  <1>1. CASE r \in TraceHead
    <2>1. r \in TraceRows(u, v) /\ n >= r[2]
      BY <1>1, TraceHeadFixed DEF TraceRows
    <2> QED
      BY <2>1
  <1>2. CASE r = <<"Path", 11, 11, x>>
    <2> DEFINE q == <<"Path", 11, 11, u>>
    <2>1. q \in TraceRows(u, v)
      BY DEF TraceRows
    <2>2. n >= q[2] /\ q[1] = r[1] /\ q[3] = r[3] /\ (q[4] = r[4] \/ q[4] = n)
      BY <1>2
    <2> QED
      BY <2>1, <2>2
  <1>3. ASSUME NEW i \in x..(y - 1), r = <<"SNR", 11, i, i + 1>>
        PROVE  r \in TraceRows(u, v) /\ n >= r[2]
    <2>1. i \in u..(v - 1)
      OBVIOUS
    <2> QED
      BY <1>3, <2>1 DEF TraceRows
  <1>4. ASSUME r = <<"SNR", y + 1, y, y + 1>>
        PROVE  r \in TraceRows(u, v) /\ n >= r[2]
    <2>1. r[2] = y + 1
      BY <1>4
    <2>2. y = v
      BY <2>1
    <2> QED
      BY <1>4, <2>1, <2>2 DEF TraceRows
  <1>5. \/ r \in TraceHead \/ r = <<"Path", 11, 11, x>>
        \/ r = <<"SNR", y + 1, y, y + 1>>
        \/ \E i \in x..(y - 1) : r = <<"SNR", 11, i, i + 1>>
    BY DEF TraceRows
  <1> QED
    BY <1>1, <1>2, <1>3, <1>4, <1>5

\* TRACE_DATA, for every path length and hash size the frame may claim.
LEMMA TraceGood ==
  ASSUME NEW p \in PacketType, ~p.empty, p.code = 137,
         NEW k \in Nat, k = p.path \div 2^p.flags
  PROVE  FieldsGood(p)
  <1> DEFINE pe(n) == Codec!Least(11 + p.path, n)
             se(n) == Codec!Least(pe(n) + k, n)
             rows(n) == IF n < 11 THEN {} ELSE TraceRows(pe(n), se(n))
  <1>1. p.len \in Nat /\ p.path \in Nat
    BY DEF PacketType
  <1>2. \A q : q.code = 137 /\ ~q.empty /\ q.path = p.path /\ q.flags = p.flags =>
                 Codec!decode(q).fields = Codec!Take(q.len, rows(q.len))
    <2>1. \A q : q.code = 137 /\ ~q.empty =>
            Codec!decode(q).fields = Codec!decodeTraceData(q.len, q.path, q.flags)
      BY DEF Codec!decode, Codec!Typed
    <2>2. \A n : n < 11 => Codec!decodeTraceData(n, p.path, p.flags) = Codec!Take(n, rows(n))
      BY DEF Codec!decodeTraceData, Codec!Take
    <2>3. \A n : ~(n < 11) => Codec!decodeTraceData(n, p.path, p.flags)
                                = Codec!Take(n, TraceRows(pe(n), se(n)))
      BY DEF Codec!decodeTraceData, TraceRows, TraceHead
    <2> QED
      BY <2>1, <2>2, <2>3
  <1>3. Codec!decode(p).fields = Codec!Take(p.len, rows(p.len))
    BY <1>2
  <1>4. Codec!decode(Short(p)).fields = Codec!Take(p.len - 1, rows(p.len - 1))
    BY <1>2, ShortPacket
  <1>5. \A n \in Nat : n >= 11 => /\ pe(n) \in Nat /\ se(n) \in Nat
                                  /\ 11 <= pe(n) /\ pe(n) <= se(n) /\ se(n) <= n
    BY <1>1 DEF Codec!Least
  <1>6. InBody(p.len, rows(p.len)) /\ Apart(p.len, rows(p.len))
    <2>1. CASE p.len < 11
      <3>1. rows(p.len) = {}
        BY <2>1
      <3> QED
        BY <3>1 DEF InBody, Apart
    <2>2. CASE p.len >= 11
      <3>1. rows(p.len) = TraceRows(pe(p.len), se(p.len))
        BY <1>1, <2>2
      <3> HIDE DEF rows, pe, se
      <3> QED
        BY <1>1, <1>5, <2>2, <3>1, TraceSound
    <2> QED
      BY <1>1, <2>1, <2>2
  <1>7. Kept(p.len, rows(p.len - 1), rows(p.len))
    <2>1. CASE p.len - 1 < 11
      <3>1. rows(p.len - 1) = {}
        BY <2>1
      <3> QED
        BY <3>1 DEF Kept
    <2>2. CASE p.len - 1 >= 11
      <3> DEFINE u == pe(p.len)   v == se(p.len)   x == pe(p.len - 1)   y == se(p.len - 1)
      <3>1. /\ rows(p.len) = TraceRows(u, v)
            /\ rows(p.len - 1) = TraceRows(x, y)
        BY <1>1, <2>2
      <3>2. /\ u \in Nat /\ v \in Nat /\ 11 <= u /\ u <= v /\ v <= p.len
            /\ x \in Nat /\ y \in Nat /\ 11 <= x /\ x <= y /\ y < p.len /\ p.len > 11
        BY <1>1, <2>2 DEF Codec!Least
      <3>3. \/ x = u /\ y <= v /\ (y < p.len - 1 => y = v)
            \/ u = p.len /\ x = p.len - 1 /\ y = p.len - 1
        BY <1>1, <2>2 DEF Codec!Least
      <3> HIDE DEF rows, u, v, x, y
      <3>4. Kept(p.len, TraceRows(x, y), TraceRows(u, v))
        BY <1>1, <3>2, <3>3, TraceKept
      <3> QED
        BY <3>1, <3>4, Zenon
    <2> QED
      BY <1>1, <2>1, <2>2
  <1> HIDE DEF rows
  <1> QED
    BY <1>3, <1>4, <1>6, <1>7, RowsGood, Zenon

\* The rows of a decoder, k bytes later.
ShiftRows(rows, k) == {<<r[1], r[2] + k, r[3] + k, r[4] + k>> : r \in rows}

\* The lengths the code tests for are numbers.
RowTypes(rows) == \A r \in rows : r[2] \in Nat

\* Rows k bytes later, of a body k bytes longer, yield the fields k bytes
\* later.
LEMMA TakeShift ==
  ASSUME NEW n \in Int, NEW k \in Nat, NEW rows, RowTypes(rows)
  PROVE  Codec!Take(n, ShiftRows(rows, k)) = Codec!Shift(Codec!Take(n - k, rows), k)
  <1> DEFINE row(r) == <<r[1], r[2] + k, r[3] + k, r[4] + k>>
             field(r) == [field |-> r[1], from |-> r[3], to |-> r[4]]
             moved(f) == [f EXCEPT !.from = @ + k, !.to = @ + k]
  <1>1. \A r \in rows : moved(field(r)) = field(row(r))
    <2>1. \A a, b, c : moved([field |-> a, from |-> b, to |-> c])
                       = [field |-> a, from |-> b + k, to |-> c + k]
      <3> SUFFICES ASSUME NEW a, NEW b, NEW c
                   PROVE  moved([field |-> a, from |-> b, to |-> c])
                            = [field |-> a, from |-> b + k, to |-> c + k]
        OBVIOUS
      <3> DEFINE e == moved([field |-> a, from |-> b, to |-> c])
      <3>1. e \in [field : {a}, from : {b + k}, to : {c + k}]
        OBVIOUS
      <3>2. \A g \in [field : {a}, from : {b + k}, to : {c + k}] :
               g = [field |-> a, from |-> b + k, to |-> c + k]
        OBVIOUS
      <3> HIDE DEF e
      <3>3. e = [field |-> a, from |-> b + k, to |-> c + k]
        BY <3>1, <3>2
      <3> QED
        BY <3>3 DEF e
    <2>2. \A r : row(r)[1] = r[1] /\ row(r)[3] = r[3] + k /\ row(r)[4] = r[4] + k
      OBVIOUS
    <2> HIDE DEF row, moved
    <2> QED
      BY <2>1, <2>2
  <1>2. \A r \in rows : n >= row(r)[2] <=> n - k >= r[2]
    BY DEF RowTypes
  <1>3. \A f : f \in Codec!Take(n, ShiftRows(rows, k))
                 <=> \E r \in rows : n >= row(r)[2] /\ f = field(row(r))
    BY DEF Codec!Take, ShiftRows
  <1>4. \A f : f \in Codec!Take(n - k, rows) <=> \E r \in rows : n - k >= r[2] /\ f = field(r)
    BY DEF Codec!Take
  <1>5. \A f : f \in Codec!Shift(Codec!Take(n - k, rows), k)
                 <=> \E g \in Codec!Take(n - k, rows) : f = moved(g)
    BY DEF Codec!Shift
  <1> HIDE DEF row, field, moved
  <1>6. \A f : f \in Codec!Take(n, ShiftRows(rows, k))
                 <=> f \in Codec!Shift(Codec!Take(n - k, rows), k)
    BY <1>1, <1>2, <1>3, <1>4, <1>5
  <1> QED
    BY <1>6

\* The fields without the link measurement.
NoSnr(fields) == {f \in fields : f.field # "SNR"}

\* They are the fields of the rows without it.
LEMMA SnrDropped ==
  ASSUME NEW n, NEW R, NEW S, \A r \in R : r[1] # "SNR", \A r \in S : r[1] = "SNR"
  PROVE  NoSnr(Codec!Take(n, R \union S)) = Codec!Take(n, R)
  BY DEF Codec!Take, NoSnr

\* The rows of a frame with four fixed fields, three bytes later.
LEMMA FourShifted ==
  ASSUME NEW R, NEW S, NEW m1, NEW m2, NEW m3, NEW m4, NEW w1, NEW w2, NEW w3, NEW w4,
         R = {m1, m2, m3, m4}, S = {w1, w2, w3, w4},
         w1 = <<m1[1], m1[2] + 3, m1[3] + 3, m1[4] + 3>>,
         w2 = <<m2[1], m2[2] + 3, m2[3] + 3, m2[4] + 3>>,
         w3 = <<m3[1], m3[2] + 3, m3[3] + 3, m3[4] + 3>>,
         w4 = <<m4[1], m4[2] + 3, m4[3] + 3, m4[4] + 3>>
  PROVE  ShiftRows(R, 3) = S
  <1> DEFINE moved(r) == <<r[1], r[2] + 3, r[3] + 3, r[4] + 3>>
  <1>1. w1 = moved(m1) /\ w2 = moved(m2) /\ w3 = moved(m3) /\ w4 = moved(m4)
    OBVIOUS
  <1>2. ShiftRows(R, 3) = {moved(r) : r \in R}
    BY DEF ShiftRows
  <1> HIDE DEF moved
  <1> QED
    BY <1>1, <1>2

\* A V3 frame has the rows of the old frame three bytes later, and the prefix.
LEMMA MessageRowsShifted ==
  ASSUME NEW n \in Int, NEW k \in Nat
  PROVE  /\ ShiftRows(MessageRows(FALSE) \union Codec!Rest("Text", n - 3, k), 3)
               \union Codec!SnrPrefix(TRUE)
             = MessageRows(TRUE) \union Codec!Rest("Text", n, k + 3)
         /\ ShiftRows(ChannelRows(FALSE) \union Codec!Rest("Text", n - 3, k), 3)
               \union Codec!SnrPrefix(TRUE)
             = ChannelRows(TRUE) \union Codec!Rest("Text", n, k + 3)
  <1>1. Off(TRUE) = 3 /\ Off(FALSE) = 0 /\ Codec!SnrPrefix(FALSE) = {}
    BY DEF Off, Codec!SnrPrefix
  <1>2. (n - 3) + 3 = n /\ (k + 3) + 1 = (k + 1) + 3
    OBVIOUS
  <1>3. \A R : R \union {} = R
    OBVIOUS
  <1>4. \A R, S : ShiftRows(R \union S, 3) = ShiftRows(R, 3) \union ShiftRows(S, 3)
    BY DEF ShiftRows
  <1>6. ShiftRows(Codec!Rest("Text", n - 3, k), 3) = Codec!Rest("Text", n, k + 3)
    BY <1>2 DEF ShiftRows, Codec!Rest
  <1>7. MessageRows(TRUE) = ShiftRows(MessageRows(FALSE), 3) \union Codec!SnrPrefix(TRUE)
    <2> DEFINE m1 == <<"SenderPrefix", 0 + 6, 0, 0 + 6>>
               m2 == <<"PathLen", 0 + 7, 0 + 6, 0 + 7>>
               m3 == <<"TxtType", 0 + 8, 0 + 7, 0 + 8>>
               m4 == <<"Timestamp", 0 + 12, 0 + 8, 0 + 12>>
               w1 == <<"SenderPrefix", 3 + 6, 3, 3 + 6>>
               w2 == <<"PathLen", 3 + 7, 3 + 6, 3 + 7>>
               w3 == <<"TxtType", 3 + 8, 3 + 7, 3 + 8>>
               w4 == <<"Timestamp", 3 + 12, 3 + 8, 3 + 12>>
               R == {m1, m2, m3, m4}
               S == {w1, w2, w3, w4}
    <2>1. MessageRows(FALSE) = R
      BY <1>1, <1>3, Zenon DEF MessageRows
    <2>2. MessageRows(TRUE) = S \union Codec!SnrPrefix(TRUE)
      BY <1>1, Zenon DEF MessageRows
    <2>3. /\ w1 = <<m1[1], m1[2] + 3, m1[3] + 3, m1[4] + 3>>
          /\ w2 = <<m2[1], m2[2] + 3, m2[3] + 3, m2[4] + 3>>
          /\ w3 = <<m3[1], m3[2] + 3, m3[3] + 3, m3[4] + 3>>
          /\ w4 = <<m4[1], m4[2] + 3, m4[3] + 3, m4[4] + 3>>
      OBVIOUS
    <2>4. R = {m1, m2, m3, m4} /\ S = {w1, w2, w3, w4}
      BY Zenon
    <2> HIDE DEF m1, m2, m3, m4, w1, w2, w3, w4, R, S
    <2>5. ShiftRows(R, 3) = S
      BY <2>3, <2>4, FourShifted
    <2> QED
      BY <2>1, <2>2, <2>5, Zenon
  <1>8. ChannelRows(TRUE) = ShiftRows(ChannelRows(FALSE), 3) \union Codec!SnrPrefix(TRUE)
    <2> DEFINE m1 == <<"Channel", 0 + 1, 0, 0 + 1>>
               m2 == <<"PathLen", 0 + 2, 0 + 1, 0 + 2>>
               m3 == <<"TxtType", 0 + 3, 0 + 2, 0 + 3>>
               m4 == <<"Timestamp", 0 + 7, 0 + 3, 0 + 7>>
               w1 == <<"Channel", 3 + 1, 3, 3 + 1>>
               w2 == <<"PathLen", 3 + 2, 3 + 1, 3 + 2>>
               w3 == <<"TxtType", 3 + 3, 3 + 2, 3 + 3>>
               w4 == <<"Timestamp", 3 + 7, 3 + 3, 3 + 7>>
               R == {m1, m2, m3, m4}
               S == {w1, w2, w3, w4}
    <2>1. ChannelRows(FALSE) = R
      BY <1>1, <1>3, Zenon DEF ChannelRows
    <2>2. ChannelRows(TRUE) = S \union Codec!SnrPrefix(TRUE)
      BY <1>1, Zenon DEF ChannelRows
    <2>3. /\ w1 = <<m1[1], m1[2] + 3, m1[3] + 3, m1[4] + 3>>
          /\ w2 = <<m2[1], m2[2] + 3, m2[3] + 3, m2[4] + 3>>
          /\ w3 = <<m3[1], m3[2] + 3, m3[3] + 3, m3[4] + 3>>
          /\ w4 = <<m4[1], m4[2] + 3, m4[3] + 3, m4[4] + 3>>
      OBVIOUS
    <2>4. R = {m1, m2, m3, m4} /\ S = {w1, w2, w3, w4}
      BY Zenon
    <2> HIDE DEF m1, m2, m3, m4, w1, w2, w3, w4, R, S
    <2>5. ShiftRows(R, 3) = S
      BY <2>3, <2>4, FourShifted
    <2> QED
      BY <2>1, <2>2, <2>5, Zenon
  <1>9. \A A, B, C : (A \union B) \union C = (A \union C) \union B
    OBVIOUS
  <1> DEFINE old == Codec!Rest("Text", n - 3, k)
             new == Codec!Rest("Text", n, k + 3)
  <1>10. ShiftRows(old, 3) = new
    BY <1>6
  <1> HIDE DEF old, new
  <1>11. \A R : ShiftRows(R \union old, 3) \union Codec!SnrPrefix(TRUE)
                 = (ShiftRows(R, 3) \union Codec!SnrPrefix(TRUE)) \union new
    <2> TAKE R
    <2>1. ShiftRows(R \union old, 3) = ShiftRows(R, 3) \union new
      BY <1>4, <1>10, Zenon
    <2> QED
      BY <1>9, <2>1, Zenon
  <1> QED
    BY <1>7, <1>8, <1>11, Zenon DEF old, new

\* Dropping the prefix from a V3 frame leaves the old frame three bytes later.
LEMMA ShiftedFields ==
  ASSUME NEW n \in Int, NEW old, NEW new, RowTypes(old), \A r \in old : r[1] # "SNR",
         new = ShiftRows(old, 3) \union Codec!SnrPrefix(TRUE)
  PROVE  NoSnr(Codec!Take(n, new)) = Codec!Shift(Codec!Take(n - 3, old), 3)
  <1>1. \A r \in ShiftRows(old, 3) : r[1] # "SNR"
    BY DEF ShiftRows
  <1>2. \A r \in Codec!SnrPrefix(TRUE) : r[1] = "SNR"
    BY DEF Codec!SnrPrefix
  <1>3. NoSnr(Codec!Take(n, new)) = Codec!Take(n, ShiftRows(old, 3))
    BY <1>1, <1>2, SnrDropped
  <1> QED
    BY <1>3, TakeShift

\* Both kinds of V3 message are the old frame behind three bytes.
LEMMA MessagesShifted ==
  ASSUME NEW n \in Int, NEW sub
  PROVE  /\ NoSnr(Codec!decodeContactMessage(n, TRUE, sub))
              = Codec!Shift(Codec!decodeContactMessage(n - 3, FALSE, sub), 3)
         /\ NoSnr(Codec!decodeChannelMessage(n, TRUE))
              = Codec!Shift(Codec!decodeChannelMessage(n - 3, FALSE), 3)
  <1> DEFINE k == TextOff(FALSE, n - 3, sub)
             oldC == MessageRows(FALSE) \union Codec!Rest("Text", n - 3, k)
             oldH == ChannelRows(FALSE) \union Codec!Rest("Text", n - 3, 7)
             newC == MessageRows(TRUE) \union Codec!Rest("Text", n, k + 3)
             newH == ChannelRows(TRUE) \union Codec!Rest("Text", n, 7 + 3)
  <1>1. k \in Nat /\ TextOff(TRUE, n, sub) = k + 3 /\ Off(FALSE) + 7 = 7 /\ Off(TRUE) + 7 = 7 + 3
    BY DEF TextOff, Off
  <1>2. /\ Codec!decodeContactMessage(n - 3, FALSE, sub) = Codec!Take(n - 3, oldC)
        /\ Codec!decodeContactMessage(n, TRUE, sub) = Codec!Take(n, newC)
    BY <1>1, MessageTake, Zenon
  <1>3. /\ Codec!decodeChannelMessage(n - 3, FALSE) = Codec!Take(n - 3, oldH)
        /\ Codec!decodeChannelMessage(n, TRUE) = Codec!Take(n, newH)
    BY <1>1, MessageTake, Zenon
  <1> HIDE DEF k
  <1>4. newC = ShiftRows(oldC, 3) \union Codec!SnrPrefix(TRUE)
    BY <1>1, MessageRowsShifted
  <1>5. newH = ShiftRows(oldH, 3) \union Codec!SnrPrefix(TRUE)
    BY MessageRowsShifted
  <1>6. RowTypes(oldC) /\ \A r \in oldC : r[1] # "SNR"
    BY <1>1 DEF RowTypes, MessageRows, Off, Codec!SnrPrefix, Codec!Rest
  <1>7. RowTypes(oldH) /\ \A r \in oldH : r[1] # "SNR"
    BY <1>1 DEF RowTypes, ChannelRows, Off, Codec!SnrPrefix, Codec!Rest
  <1> HIDE DEF oldC, oldH, newC, newH
  <1>8. NoSnr(Codec!Take(n, newC)) = Codec!Shift(Codec!Take(n - 3, oldC), 3)
    BY <1>4, <1>6, ShiftedFields
  <1>9. NoSnr(Codec!Take(n, newH)) = Codec!Shift(Codec!Take(n - 3, oldH), 3)
    BY <1>5, <1>7, ShiftedFields
  <1> QED
    BY <1>2, <1>3, <1>8, <1>9, Zenon

\* The frame ends where its last part does.
LEMMA FrameEnd ==
  ASSUME NEW fields, NEW e \in fields, NEW m \in Nat, e.to = m,
         \A f \in fields : f.to \in Nat /\ f.to <= m
  PROVE  Codec!FrameLength(fields) = m
  <1> DEFINE Last(n) == n \in {f.to : f \in fields} /\ \A f \in fields : f.to <= n
             c == CHOOSE n \in {f.to : f \in fields} : \A f \in fields : f.to <= n
  <1>1. Last(m)
    OBVIOUS
  <1>2. Last(c)
    BY <1>1
  <1>3. Codec!FrameLength(fields) = c
    BY DEF Codec!FrameLength
  <1> HIDE DEF c
  <1>4. c \in Nat /\ c <= m /\ m <= c
    BY <1>2
  <1> QED
    BY <1>3, <1>4

\* A frame without holes: behind the opcode its parts follow one another up to m.
Whole(fields, m) ==
  /\ m \in Nat /\ m > 1 /\ \E e \in fields : e.to = m
  /\ \A f \in fields : f.from \in Nat /\ f.to \in Nat /\ 1 <= f.from /\ f.to <= m
  /\ \A x \in 1..(m - 1) : \E f \in fields : f.from <= x /\ x < f.to

\* The bytes behind the opcode are exactly the bytes of the parts.
FrameGood(fields) ==
  1..(Codec!FrameLength(fields) - 1) = UNION {f.from..(f.to - 1) : f \in fields}

\* A frame without holes ends at m and consists of its parts.
LEMMA PartsFollow ==
  ASSUME NEW fields, NEW m, Whole(fields, m)
  PROVE  Codec!FrameLength(fields) = m /\ FrameGood(fields)
  <1>1. Codec!FrameLength(fields) = m
    BY FrameEnd DEF Whole
  <1>2. \A x : x \in 1..(m - 1) => x \in UNION {f.from..(f.to - 1) : f \in fields}
    BY DEF Whole
  <1>3. ASSUME NEW x \in UNION {f.from..(f.to - 1) : f \in fields} PROVE x \in 1..(m - 1)
    <2>1. PICK f \in fields : x \in f.from..(f.to - 1)
      BY <1>3
    <2>2. f.from \in Nat /\ f.to \in Nat /\ 1 <= f.from /\ f.to <= m /\ m \in Nat
      BY DEF Whole
    <2> QED
      BY <2>1, <2>2
  <1> QED
    BY <1>1, <1>2, <1>3 DEF FrameGood

\* A command that is nothing but its opcode.
LEMMA NoParts == FrameGood({})
  <1>1. Codec!FrameLength({}) = 1
    BY DEF Codec!FrameLength
  <1>2. 1..(1 - 1) = {}
    OBVIOUS
  <1>3. UNION {f.from..(f.to - 1) : f \in {}} = {}
    OBVIOUS
  <1> QED
    BY <1>1, <1>2, <1>3 DEF FrameGood

\* What LayoutsAgree asks of one command.
CommandGood(c) ==
  /\ FrameGood(Codec!encode(c))
  /\ c.op = "SetChannel" =>
       Codec!encode(c) = Codec!Shift(Codec!decodeChannelInfo(
                                       Codec!FrameLength(Codec!encode(c)) - 1), 1)
  /\ c.op = "SendTracePath" => Codec!FrameLength(Codec!encode(c)) > 10

\* SET_CHANNEL has the fields of CHANNEL_INFO one byte later.
LEMMA SetChannelGood ==
  ASSUME NEW c, c.op = "SetChannel"
  PROVE  CommandGood(c)
  <1> DEFINE fields == {Codec!Part("Index", 1, 2), Codec!Part("Name", 2, 34),
                        Codec!Part("Secret", 34, 50)}
             old == {<<"Index", 1, 0, 1>>, <<"Name", 33, 1, 33>>, <<"Secret", 49, 33, 49>>}
             new == {<<"Index", 2, 1, 2>>, <<"Name", 34, 2, 34>>, <<"Secret", 50, 34, 50>>}
  <1>1. Codec!encode(c) = fields
    BY DEF Codec!encode
  <1>2. Whole(fields, 50)
    BY DEF Whole, Codec!Part
  <1>3. Codec!decodeChannelInfo(50 - 1) = Codec!Take(50 - 1, old)
    BY DEF Codec!decodeChannelInfo
  <1>4. Codec!Take(50, ShiftRows(old, 1)) = Codec!Shift(Codec!Take(50 - 1, old), 1)
    <2>1. RowTypes(old) /\ 50 \in Int /\ 1 \in Nat
      BY DEF RowTypes
    <2> QED
      BY <2>1, TakeShift
  <1>5. ShiftRows(old, 1) = new
    <2> DEFINE m1 == <<"Index", 1, 0, 1>>   m2 == <<"Name", 33, 1, 33>>
               m3 == <<"Secret", 49, 33, 49>>
               w1 == <<"Index", 2, 1, 2>>   w2 == <<"Name", 34, 2, 34>>
               w3 == <<"Secret", 50, 34, 50>>
               moved(r) == <<r[1], r[2] + 1, r[3] + 1, r[4] + 1>>
    <2>1. w1 = moved(m1) /\ w2 = moved(m2) /\ w3 = moved(m3)
      OBVIOUS
    <2>2. ShiftRows(old, 1) = {moved(r) : r \in {m1, m2, m3}}
      BY DEF ShiftRows
    <2>3. new = {w1, w2, w3}
      OBVIOUS
    <2> HIDE DEF moved, m1, m2, m3, w1, w2, w3, new
    <2> QED
      BY <2>1, <2>2, <2>3
  <1>6. Codec!Take(50, new) = fields
    <2> DEFINE field(r) == [field |-> r[1], from |-> r[3], to |-> r[4]]
               w1 == <<"Index", 2, 1, 2>>   w2 == <<"Name", 34, 2, 34>>
               w3 == <<"Secret", 50, 34, 50>>
    <2>1. {r \in new : 50 >= r[2]} = {w1, w2, w3}
      OBVIOUS
    <2>2. Codec!Take(50, new) = {field(r) : r \in {w1, w2, w3}}
      BY <2>1 DEF Codec!Take
    <2>3. /\ field(w1) = Codec!Part("Index", 1, 2) /\ field(w2) = Codec!Part("Name", 2, 34)
          /\ field(w3) = Codec!Part("Secret", 34, 50)
      BY DEF Codec!Part
    <2> HIDE DEF field, w1, w2, w3, new
    <2> QED
      BY <2>2, <2>3
  <1> HIDE DEF fields, old, new
  <1>7. Codec!FrameLength(fields) = 50 /\ FrameGood(fields)
    BY <1>2, PartsFollow, Zenon
  <1>8. fields = Codec!Shift(Codec!decodeChannelInfo(50 - 1), 1)
    BY <1>3, <1>4, <1>5, <1>6, Zenon
  <1>9. c.op # "SendTracePath"
    OBVIOUS
  <1> QED
    BY <1>1, <1>7, <1>8, <1>9, Zenon DEF CommandGood

\* GET_CONTACTS, with and without a timestamp.
LEMMA GetContactsGood ==
  ASSUME NEW c, c.op = "GetContacts"
  PROVE  CommandGood(c)
  <1>1. Codec!encode(c) = {} \/ Codec!encode(c) = {Codec!Part("since", 1, 5)}
    BY DEF Codec!encode
  <1>2. FrameGood({Codec!Part("since", 1, 5)})
    <2>1. Whole({Codec!Part("since", 1, 5)}, 5)
      BY DEF Whole, Codec!Part
    <2> QED
      BY <2>1, PartsFollow
  <1>3. c.op # "SetChannel" /\ c.op # "SendTracePath"
    OBVIOUS
  <1> QED
    BY <1>1, <1>2, <1>3, NoParts, Zenon DEF CommandGood

\* The parts of every other command follow one another, whatever their lengths.
LEMMA PartsGood ==
  ASSUME NEW c, CommandArgs(c), c.op # "SetChannel", c.op # "GetContacts"
  PROVE  CommandGood(c)
  <1>1. CASE c.op = "AppStart"
    <2> DEFINE m == 8 + (IF c.text = 0 THEN 2 ELSE c.text)
               fields == {Codec!Part("target", 1, 2), Codec!Part("reserved", 2, 8),
                          Codec!Part("name", 8, m)}
    <2>1. Codec!encode(c) = fields
      BY <1>1 DEF Codec!encode
    <2>2. m \in Nat /\ m >= 8
      BY DEF CommandArgs
    <2> HIDE DEF m
    <2>3. Whole(fields, m)
      BY <2>2 DEF Whole, Codec!Part
    <2> HIDE DEF fields
    <2>4. Codec!FrameLength(fields) = m /\ FrameGood(fields)
      BY <2>3, PartsFollow, Zenon
    <2>5. c.op # "SendTracePath"
      BY <1>1
    <2> QED
      BY <2>1, <2>4, <2>5, Zenon DEF CommandGood
  <1>2. CASE c.op \in {"DeviceQuery", "GetStats", "SendSelfAdvert", "GetChannel"}
    <2> DEFINE m == 2
               fields == {Codec!Part("arg", 1, 2)}
    <2>1. Codec!encode(c) = fields
      BY <1>2 DEF Codec!encode
    <2>3. Whole(fields, m)
      BY DEF Whole, Codec!Part
    <2> HIDE DEF fields
    <2>4. Codec!FrameLength(fields) = m /\ FrameGood(fields)
      BY <2>3, PartsFollow, Zenon
    <2>5. c.op # "SendTracePath"
      BY <1>2
    <2> QED
      BY <2>1, <2>4, <2>5, Zenon DEF CommandGood
  <1>3. CASE c.op = "SetDeviceTime"
    <2> DEFINE m == 5
               fields == {Codec!Part("time", 1, 5)}
    <2>1. Codec!encode(c) = fields
      BY <1>3 DEF Codec!encode
    <2>3. Whole(fields, m)
      BY DEF Whole, Codec!Part
    <2> HIDE DEF fields
    <2>4. Codec!FrameLength(fields) = m /\ FrameGood(fields)
      BY <2>3, PartsFollow, Zenon
    <2>5. c.op # "SendTracePath"
      BY <1>3
    <2> QED
      BY <2>1, <2>4, <2>5, Zenon DEF CommandGood
  <1>4. CASE c.op = "SendTextMessage"
    <2> DEFINE m == 13 + c.text
               fields == {Codec!Part("TxtType", 1, 2), Codec!Part("Attempt", 2, 3),
                          Codec!Part("Timestamp", 3, 7), Codec!Part("Dest", 7, 13),
                          Codec!Part("Text", 13, m)}
    <2>1. Codec!encode(c) = fields
      BY <1>4 DEF Codec!encode
    <2>2. m \in Nat /\ m >= 13
      BY DEF CommandArgs
    <2> HIDE DEF m
    <2>3. Whole(fields, m)
      BY <2>2 DEF Whole, Codec!Part
    <2> HIDE DEF fields
    <2>4. Codec!FrameLength(fields) = m /\ FrameGood(fields)
      BY <2>3, PartsFollow, Zenon
    <2>5. c.op # "SendTracePath"
      BY <1>4
    <2> QED
      BY <2>1, <2>4, <2>5, Zenon DEF CommandGood
  <1>5. CASE c.op = "SendLogin"
    <2> DEFINE m == 33 + c.text
               fields == {Codec!Part("key", 1, 33), Codec!Part("password", 33, m)}
    <2>1. Codec!encode(c) = fields
      BY <1>5 DEF Codec!encode
    <2>2. m \in Nat /\ m >= 33
      BY DEF CommandArgs
    <2> HIDE DEF m
    <2>3. Whole(fields, m)
      BY <2>2 DEF Whole, Codec!Part
    <2> HIDE DEF fields
    <2>4. Codec!FrameLength(fields) = m /\ FrameGood(fields)
      BY <2>3, PartsFollow, Zenon
    <2>5. c.op # "SendTracePath"
      BY <1>5
    <2> QED
      BY <2>1, <2>4, <2>5, Zenon DEF CommandGood
  <1>6. CASE c.op \in {"SendStatusReq", "HasConnection", "Logout"}
    <2> DEFINE m == 33
               fields == {Codec!Part("key", 1, 33)}
    <2>1. Codec!encode(c) = fields
      BY <1>6 DEF Codec!encode
    <2>3. Whole(fields, m)
      BY DEF Whole, Codec!Part
    <2> HIDE DEF fields
    <2>4. Codec!FrameLength(fields) = m /\ FrameGood(fields)
      BY <2>3, PartsFollow, Zenon
    <2>5. c.op # "SendTracePath"
      BY <1>6
    <2> QED
      BY <2>1, <2>4, <2>5, Zenon DEF CommandGood
  <1>7. CASE c.op = "SendChannelTextMessage"
    <2> DEFINE m == 7 + c.text
               fields == {Codec!Part("TxtType", 1, 2), Codec!Part("Channel", 2, 3),
                          Codec!Part("Timestamp", 3, 7), Codec!Part("Text", 7, m)}
    <2>1. Codec!encode(c) = fields
      BY <1>7 DEF Codec!encode
    <2>2. m \in Nat /\ m >= 7
      BY DEF CommandArgs
    <2> HIDE DEF m
    <2>3. Whole(fields, m)
      BY <2>2 DEF Whole, Codec!Part
    <2> HIDE DEF fields
    <2>4. Codec!FrameLength(fields) = m /\ FrameGood(fields)
      BY <2>3, PartsFollow, Zenon
    <2>5. c.op # "SendTracePath"
      BY <1>7
    <2> QED
      BY <2>1, <2>4, <2>5, Zenon DEF CommandGood
  <1>8. CASE c.op = "SendTracePath"
    <2> DEFINE m == IF c.rest = 0 THEN 11 ELSE 10 + c.rest
               fields == {Codec!Part("Tag", 1, 5), Codec!Part("Auth", 5, 9),
                          Codec!Part("Flags", 9, 10), Codec!Part("Path", 10, m)}
    <2>1. Codec!encode(c) = fields
      BY <1>8 DEF Codec!encode
    <2>2. m \in Nat /\ m >= 11
      BY DEF CommandArgs
    <2> HIDE DEF m
    <2>3. Whole(fields, m)
      BY <2>2 DEF Whole, Codec!Part
    <2> HIDE DEF fields
    <2>4. Codec!FrameLength(fields) = m /\ FrameGood(fields)
      BY <2>3, PartsFollow, Zenon
    <2>5. m > 10
      BY <2>2
    <2> QED
      BY <2>1, <2>4, <2>5, Zenon DEF CommandGood
  <1>9. CASE c.op = "SendNodeDiscoverReq"
    <2> DEFINE m == 7
               fields == {Codec!Part("control", 1, 2), Codec!Part("Filter", 2, 3),
                          Codec!Part("Tag", 3, 7)}
    <2>1. Codec!encode(c) = fields
      BY <1>9 DEF Codec!encode
    <2>3. Whole(fields, m)
      BY DEF Whole, Codec!Part
    <2> HIDE DEF fields
    <2>4. Codec!FrameLength(fields) = m /\ FrameGood(fields)
      BY <2>3, PartsFollow, Zenon
    <2>5. c.op # "SendTracePath"
      BY <1>9
    <2> QED
      BY <2>1, <2>4, <2>5, Zenon DEF CommandGood
  <1>10. CASE c.op = "SendMeshPacket"
    <2> DEFINE m == 2 + c.text
               fields == {Codec!Part("Priority", 1, 2), Codec!Part("Packet", 2, m)}
    <2>1. Codec!encode(c) = fields
      BY <1>10 DEF Codec!encode
    <2>2. m \in Nat /\ m >= 2
      BY DEF CommandArgs
    <2> HIDE DEF m
    <2>3. Whole(fields, m)
      BY <2>2 DEF Whole, Codec!Part
    <2> HIDE DEF fields
    <2>4. Codec!FrameLength(fields) = m /\ FrameGood(fields)
      BY <2>3, PartsFollow, Zenon
    <2>5. c.op # "SendTracePath"
      BY <1>10
    <2> QED
      BY <2>1, <2>4, <2>5, Zenon DEF CommandGood
  <1>11. CASE c.op \notin {"AppStart", "DeviceQuery", "GetStats", "SendSelfAdvert", "GetChannel",
                        "SetDeviceTime", "SendTextMessage", "SendLogin", "SendStatusReq",
                        "HasConnection", "Logout", "SendChannelTextMessage", "SendTracePath",
                        "SendNodeDiscoverReq", "SendMeshPacket"}
    <2>1. Codec!encode(c) = {}
      BY <1>11 DEF Codec!encode
    <2>2. c.op # "SendTracePath"
      BY <1>11
    <2> QED
      BY <2>1, <2>2, NoParts, Zenon DEF CommandGood
  <1> QED
    BY <1>1, <1>2, <1>3, <1>4, <1>5, <1>6, <1>7, <1>8, <1>9, <1>10, <1>11

\* Whatever the code and the length.
LEMMA PacketsGood ==
  ASSUME NEW p \in PacketType
  PROVE  FieldsGood(p)
  <1>1. CASE p.empty
    BY <1>1, EmptyGood
  <1>2. CASE ~p.empty /\ p.code = 137
    <2>1. p.path \in Nat /\ p.flags \in 0..3
      BY DEF PacketType
    <2>2. 2^0 = 1 /\ 2^1 = 2 /\ 2^2 = 4 /\ 2^3 = 8
      OBVIOUS
    <2>3. p.flags = 0 \/ p.flags = 1 \/ p.flags = 2 \/ p.flags = 3
      BY <2>1
    <2>4. 2^p.flags = 1 \/ 2^p.flags = 2 \/ 2^p.flags = 4 \/ 2^p.flags = 8
      BY <2>2, <2>3, Zenon
    <2>5. PICK d \in {1, 2, 4, 8} : 2^p.flags = d
      BY <2>4, Zenon
    <2>6. p.path \div d \in Nat
      BY <2>1
    <2>7. p.path \div 2^p.flags \in Nat
      BY <2>5, <2>6, Zenon
    <2> QED
      BY <1>2, <2>7, TraceGood, Zenon
  <1>3. CASE ~p.empty /\ p.code \in {0, 10, 131, 1, 2, 4, 6, 13, 18, 130, 133, 134}
    <2>1. p.code \in {0, 10, 131} \/ p.code \in {1, 2, 4, 6, 13, 18, 130, 133, 134}
      BY <1>3
    <2> QED
      BY <1>3, <2>1, NoFieldsGood, FixedFieldsGood, Zenon
  <1>4. CASE ~p.empty /\ p.code \in {7, 16, 8, 17, 9, 12}
    <2>1. p.code \in {7, 16} \/ p.code \in {8, 17} \/ p.code \in {9, 12}
      BY <1>4
    <2> QED
      BY <1>4, <2>1, MessageGood, ChannelMessageGood, TimeGood, Zenon
  <1>5. CASE ~p.empty /\ p.code \in {3, 5, 24, 128, 135, 138, 142}
    <2>1. \/ p.code = 3 \/ p.code = 5 \/ p.code = 24 \/ p.code = 128
          \/ p.code = 135 \/ p.code = 138 \/ p.code = 142
      BY <1>5
    <2>3. CASE p.code = 3
      BY <1>5, <2>3, ContactGood
    <2>4. CASE p.code = 5
      BY <1>5, <2>4, SelfGood
    <2>5. CASE p.code = 24
      BY <1>5, <2>5, StatsGood
    <2>6. CASE p.code = 128
      BY <1>5, <2>6, AdvertGood
    <2>7. CASE p.code = 135
      BY <1>5, <2>7, StatusGood
    <2>8. CASE p.code = 138
      BY <1>5, <2>8, NewAdvertGood
    <2>9. CASE p.code = 142
      BY <1>5, <2>9, ControlGood
    <2> QED
      BY <2>1, <2>3, <2>4, <2>5, <2>6, <2>7, <2>8, <2>9, Zenon
  <1>6. CASE ~p.empty /\ p.code \notin {0, 1, 2, 3, 4, 5, 6, 7, 8, 9, 10, 12, 13, 16, 17, 18, 24,
                        128, 130, 131, 133, 134, 135, 137, 138, 142}
    BY <1>6, OtherGood
  <1> QED
    BY <1>1, <1>2, <1>3, <1>4, <1>5, <1>6

\* Every command, then.
LEMMA CommandsGood ==
  ASSUME NEW c, CommandArgs(c)
  PROVE  CommandGood(c)
  BY SetChannelGood, GetContactsGood, PartsGood, Zenon

\* In terms of the specification: what holds of the received packet.
LEMMA FieldsGoodMeans ==
  ASSUME pkt \in PacketType, FieldsGood(pkt)
  PROVE  Codec!FieldsInFrame /\ Codec!FieldsStay
  BY DEF FieldsGood, SoundFields, KeptFields, Short, Codec!FieldsInFrame, Codec!FieldsStay

\* A received V3 message, without its prefix, is the old frame.
LEMMA ReceivedLayouts ==
  ASSUME NEW p, IsPacket(p)
  PROVE  /\ p.code = 16 => NoSnr(Codec!decode(p).fields)
              = Codec!Shift(Codec!decodeContactMessage(p.len - 3, FALSE, p.sub), 3)
         /\ p.code = 17 => NoSnr(Codec!decode(p).fields)
              = Codec!Shift(Codec!decodeChannelMessage(p.len - 3, FALSE), 3)
  <1>1. p.len \in Int /\ p.empty \in BOOLEAN /\ (p.code \in {16, 17} => ~p.empty)
    BY DEF IsPacket, PacketType
  <1>2. p.code = 16 => Codec!decode(p).fields = Codec!decodeContactMessage(p.len, TRUE, p.sub)
    BY <1>1, MessageDecoded
  <1>3. p.code = 17 => Codec!decode(p).fields = Codec!decodeChannelMessage(p.len, TRUE)
    BY <1>1, MessageDecoded
  <1> QED
    BY <1>1, <1>2, <1>3, MessagesShifted, Zenon

\* The third conjunct, from the lemmas about commands and messages.
LEMMA LayoutsGood ==
  ASSUME IsPacket(pkt), CommandArgs(cmd)
  PROVE  Codec!LayoutsAgree
  <1>1. CommandGood(cmd)
    BY CommandsGood
  <1>2. /\ pkt.code = 16 => NoSnr(Codec!decode(pkt).fields)
              = Codec!Shift(Codec!decodeContactMessage(pkt.len - 3, FALSE, pkt.sub), 3)
        /\ pkt.code = 17 => NoSnr(Codec!decode(pkt).fields)
              = Codec!Shift(Codec!decodeChannelMessage(pkt.len - 3, FALSE), 3)
    BY ReceivedLayouts, Zenon
  <1> QED
    BY <1>1, <1>2, Zenon DEF CommandGood, FrameGood, NoSnr, Codec!LayoutsAgree

\* For every bound on packets and on the lengths in a command: a decoder of
\* decode.go reads no field outside the packet and no byte twice, a longer
\* packet leaves every field where it was but at the lengths that are listed,
\* and encode.go leaves no hole and agrees with the decoders on the layouts
\* that both write down.
THEOREM FieldsSound == MCSpec => []FieldsAreSound
  <1>1. CodecInv => FieldsAreSound
    <2> SUFFICES ASSUME CodecInv PROVE FieldsAreSound
      OBVIOUS
    <2>1. pkt \in PacketType /\ FieldsGood(pkt)
      BY PacketsGood DEF CodecInv, IsPacket
    <2>2. Codec!FieldsInFrame /\ Codec!FieldsStay
      BY <2>1, FieldsGoodMeans
    <2>3. Codec!LayoutsAgree
      BY LayoutsGood DEF CodecInv
    <2> QED
      BY <2>2, <2>3 DEF FieldsAreSound, Codec!FieldsAreSound
  <1> QED
    BY <1>1, CodecHolds, PTL

-----------------------------------------------------------------------------
(* StreamFrame: frames over a stream that one damaged byte may hit.        *)

Written == [at : Nat \ {0}, payload : Seq(Framing!Bytes)]

\* The last byte of a frame that was written.
EndOf(f) == f.at + 1 + Len(f.payload)

StreamTypes ==
  /\ stream \in Seq(Framing!Bytes)
  /\ framed \in Seq(Written) /\ unframed \in Seq(Written)
  /\ \A k \in 1..Len(framed) : Len(framed[k].payload) <= MaxLen
  /\ hit \in Nat /\ pos \in Nat /\ begin \in Nat /\ need \in Nat
  /\ pos <= Len(stream)
  /\ want \in {"marker", "length", "payload", "error"}

\* Behind the damage a frame lies where it says, byte by byte.
Lies(f) == /\ EndOf(f) <= Len(stream)
           /\ stream[f.at] = Marker /\ stream[f.at + 1] = Len(f.payload)
           /\ \A j \in 1..Len(f.payload) : stream[f.at + 1 + j] = f.payload[j]
PlaceInv == \A k \in 1..Len(framed) : framed[k].at > hit => Lies(framed[k])

\* Behind the damage frames do not overlap.
ApartInv ==
  \A k, m \in 1..Len(framed) :
    k < m /\ framed[k].at > hit => EndOf(framed[k]) < framed[m].at

\* Behind the damage and the noise, calm frames have their markers in front.
AllCalm == \A k \in 1..Len(framed) : Framing!Calm(framed[k])
MarkerInv ==
  AllCalm => \A i \in 2..Len(stream) :
               i > hit /\ stream[i] = Marker =>
                 \E k \in 1..Len(framed) : framed[k].at = i

\* The reader has seen a marker where it believes a frame to begin.
HeadInv ==
  want \in {"length", "payload"} =>
    /\ begin >= 1 /\ begin <= Len(stream) /\ stream[begin] = Marker
    /\ want = "length" => pos = begin
    /\ want = "payload" => /\ pos = begin + 1
                           /\ need = stream[pos] /\ need <= MaxLen

\* A frame that begins far enough behind the damage is returned once the
\* reader is past its marker.
Far(f) == f.at > hit + MaxLen + 1
Returned(f) == \E g \in 1..Len(unframed) : unframed[g] = f
Passed(f) == IF want = "marker" THEN f.at <= pos ELSE f.at < begin
FarInv ==
  hit # 0 /\ AllCalm /\ want # "error" =>
    \A k \in 1..Len(framed) :
      Far(framed[k]) /\ Passed(framed[k]) => Returned(framed[k])

\* Without damage frames lie side by side up to the end of the stream.
ChainInv ==
  hit = 0 =>
    /\ \A k \in 1..Len(framed) :
         k + 1 <= Len(framed) => framed[k + 1].at = EndOf(framed[k]) + 1
    /\ framed # <<>> => EndOf(framed[Len(framed)]) = Len(stream)

\* Without damage and without a marker in the noise, the reader has returned
\* the first frames and is at the end of the last of them or in the next one.
QuietNoise == \A i \in 1..Len(stream) :
                stream[i] = Marker => \E k \in DOMAIN framed : i >= framed[k].at
Count == Len(unframed)
CleanInv ==
  hit = 0 /\ QuietNoise =>
    /\ want # "error"
    /\ Count <= Len(framed)
    /\ \A k \in 1..Count : unframed[k] = framed[k]
    /\ want = "marker" =>
         IF Count = 0 THEN framed # <<>> => pos < framed[1].at
         ELSE pos = EndOf(framed[Count])
    /\ want # "marker" => Count < Len(framed) /\ begin = framed[Count + 1].at

FrameInv == /\ StreamTypes /\ PlaceInv /\ ApartInv /\ MarkerInv
            /\ HeadInv /\ FarInv /\ ChainInv /\ CleanInv

\* Bytes are small numbers and the marker is one of them.
LEMMA ByteRange == Framing!Bytes = 0..(MaxLen + 1) /\ Marker \in Framing!Bytes
  BY MCLinkAssumption DEF Framing!Bytes, Framing!BadLength

\* Payloads are sequences of bytes.
LEMMA PayloadTypes ==
  ASSUME NEW p \in Payloads
  PROVE  p \in Seq(Framing!Bytes) /\ Len(p) \in Nat
  <1>1. 0 \in Framing!Bytes /\ Marker \in Framing!Bytes
    BY ByteRange, MCLinkAssumption
  <1>2. CASE p = <<>>
    BY <1>2
  <1>3. CASE p = <<0, 0>>
    BY <1>1, <1>3
  <1>4. CASE p = <<Marker, 0>>
    BY <1>1, <1>4
  <1>5. CASE p = <<0>>
    BY <1>1, <1>5
  <1>6. CASE p = <<0, 0, 0>>
    BY <1>1, <1>6
  <1> QED
    BY <1>2, <1>3, <1>4, <1>5, <1>6 DEF Payloads

\* Noise is at most one byte.
LEMMA NoiseTypes ==
  ASSUME NEW s \in Noise
  PROVE  s \in Seq(Framing!Bytes) /\ Len(s) \in Nat /\ Len(s) <= 1
  <1>1. 0 \in Framing!Bytes /\ Marker \in Framing!Bytes
    BY ByteRange, MCLinkAssumption
  <1>2. CASE s = <<>>
    BY <1>2
  <1>3. CASE s = <<0>>
    BY <1>1, <1>3
  <1>4. CASE s = <<Marker>>
    BY <1>1, <1>4
  <1> QED
    BY <1>2, <1>3, <1>4 DEF Noise

\* What a write appends.
LEMMA WrittenBytes ==
  ASSUME NEW B, NEW s \in Seq(B), NEW p \in Seq(B), NEW m \in B, NEW n \in B
  PROVE  LET t == s \o <<m, n>> \o p
         IN /\ t \in Seq(B) /\ Len(t) = Len(s) + 2 + Len(p)
            /\ \A i \in 1..Len(s) : t[i] = s[i]
            /\ t[Len(s) + 1] = m /\ t[Len(s) + 2] = n
            /\ \A j \in 1..Len(p) : t[Len(s) + 2 + j] = p[j]
  <1> DEFINE h == <<m, n>>
             u == s \o h
             t == u \o p
  <1>0. u = s \o h /\ t = u \o p
    OBVIOUS
  <1>1. h \in Seq(B) /\ Len(h) = 2 /\ h[1] = m /\ h[2] = n
    OBVIOUS
  <1> HIDE DEF h, u, t
  <1>2. /\ u \in Seq(B) /\ Len(u) = Len(s) + 2 /\ Len(s) \in Nat
        /\ \A i \in 1..Len(s) : u[i] = s[i]
        /\ u[Len(s) + 1] = m /\ u[Len(s) + 2] = n
    <2>h. h \in Seq(B)
      BY <1>1
    <2>0. s \o h \in Seq(B) /\ Len(s \o h) = Len(s) + Len(h) /\ Len(s) \in Nat
      BY <2>h
    <2>1. u \in Seq(B) /\ Len(u) = Len(s) + 2 /\ Len(s) \in Nat
      BY <1>1, <2>0 DEF u
    <2>2. ASSUME NEW i \in 1..Len(s) PROVE u[i] = s[i]
      BY <1>1, <1>0
    <2>3. ASSUME NEW j \in 1..2 PROVE u[Len(s) + j] = h[j]
      BY <1>1, <1>0, <2>1
    <2>4. u[Len(s) + 1] = m /\ u[Len(s) + 2] = n
      BY <1>1, <2>3
    <2> QED
      BY <2>1, <2>2, <2>4
  <1>3. /\ t \in Seq(B) /\ Len(t) = Len(u) + Len(p) /\ Len(p) \in Nat
        /\ \A i \in 1..Len(u) : t[i] = u[i]
        /\ \A j \in 1..Len(p) : t[Len(u) + j] = p[j]
    <2>0. u \o p \in Seq(B) /\ Len(u \o p) = Len(u) + Len(p) /\ Len(p) \in Nat
      BY <1>2
    <2>1. t \in Seq(B) /\ Len(t) = Len(u) + Len(p) /\ Len(p) \in Nat
      BY <2>0 DEF t
    <2>2. ASSUME NEW i \in 1..Len(u) PROVE t[i] = u[i]
      BY <1>2, <1>0
    <2>3. ASSUME NEW j \in 1..Len(p) PROVE t[Len(u) + j] = p[j]
      BY <1>2, <1>0, <2>1
    <2> QED
      BY <2>1, <2>2, <2>3
  <1>4. /\ \A i \in 1..Len(s) : t[i] = s[i]
        /\ t[Len(s) + 1] = m /\ t[Len(s) + 2] = n
        /\ \A j \in 1..Len(p) : t[Len(s) + 2 + j] = p[j]
    BY <1>2, <1>3
  <1>5. Len(t) = Len(s) + 2 + Len(p)
    BY <1>2, <1>3
  <1> QED
    BY <1>3, <1>4, <1>5 DEF t, u, h

\* What the loss of byte i leaves.
LEMMA LostByte ==
  ASSUME NEW B, NEW s \in Seq(B), NEW i \in 1..Len(s)
  PROVE  LET t == SubSeq(s, 1, i - 1) \o SubSeq(s, i + 1, Len(s))
         IN /\ t \in Seq(B) /\ Len(t) = Len(s) - 1
            /\ \A j \in 1..(i - 1) : t[j] = s[j]
            /\ \A j \in i..(Len(s) - 1) : t[j] = s[j + 1]
  <1> DEFINE u == SubSeq(s, 1, i - 1)
             v == SubSeq(s, i + 1, Len(s))
             t == u \o v
  <1>0. t = u \o v
    OBVIOUS
  <1>1. /\ u \in Seq(B) /\ Len(u) = i - 1
        /\ \A j \in 1..(i - 1) : u[j] = s[j]
    OBVIOUS
  <1>2. /\ v \in Seq(B) /\ Len(v) = Len(s) - i
        /\ \A j \in 1..(Len(s) - i) : v[j] = s[i + j]
    OBVIOUS
  <1> HIDE DEF u, v, t
  <1>3. /\ t \in Seq(B) /\ Len(t) = Len(u) + Len(v)
        /\ \A j \in 1..Len(u) : t[j] = u[j]
        /\ \A j \in 1..Len(v) : t[Len(u) + j] = v[j]
    <2>v. u \in Seq(B) /\ v \in Seq(B)
      BY <1>1, <1>2
    <2>0. u \o v \in Seq(B) /\ Len(u \o v) = Len(u) + Len(v)
      BY <2>v
    <2>1. t \in Seq(B) /\ Len(t) = Len(u) + Len(v)
      BY <2>0 DEF t
    <2>2. ASSUME NEW j \in 1..Len(u) PROVE t[j] = u[j]
      BY <1>1, <1>2, <1>0
    <2>3. ASSUME NEW j \in 1..Len(v) PROVE t[Len(u) + j] = v[j]
      BY <1>1, <1>2, <1>0
    <2> QED
      BY <2>1, <2>2, <2>3
  <1>4. Len(s) \in Nat /\ Len(t) = Len(s) - 1
    BY <1>1, <1>2, <1>3
  <1>5. ASSUME NEW j \in i..(Len(s) - 1) PROVE t[j] = s[j + 1]
    <2>1. j - i + 1 \in 1..Len(v) /\ Len(u) + (j - i + 1) = j
          /\ i + (j - i + 1) = j + 1
      BY <1>1, <1>2, <1>4
    <2>2. t[Len(u) + (j - i + 1)] = v[j - i + 1]
      BY <1>3, <2>1
    <2>3. v[j - i + 1] = s[i + (j - i + 1)]
      BY <1>2, <2>1
    <2> QED
      BY <2>1, <2>2, <2>3
  <1>6. \A j \in 1..(i - 1) : t[j] = s[j]
    BY <1>1, <1>3
  <1> QED
    BY <1>3, <1>4, <1>5, <1>6 DEF t, u, v

\* Two sequences with the same elements are the same.
LEMMA SameSequence ==
  ASSUME NEW B, NEW s \in Seq(B), NEW t \in Seq(B), Len(s) = Len(t),
         \A i \in 1..Len(s) : s[i] = t[i]
  PROVE  s = t
  OBVIOUS

\* What is recorded of a frame that was written.
LEMMA WrittenTypes ==
  ASSUME StreamTypes, NEW k \in 1..Len(framed)
  PROVE  /\ framed[k] \in Written /\ framed[k].at \in Nat /\ framed[k].at >= 1
         /\ framed[k].payload \in Seq(Framing!Bytes)
         /\ Len(framed[k].payload) \in 0..MaxLen /\ EndOf(framed[k]) \in Nat
         /\ EndOf(framed[k]) = framed[k].at + 1 + Len(framed[k].payload)
  <1>0. framed \in Seq(Written)
    BY DEF StreamTypes
  <1>1. framed[k] \in Written
    BY <1>0
  <1>2. framed[k].at \in Nat /\ framed[k].at >= 1
        /\ framed[k].payload \in Seq(Framing!Bytes)
    BY <1>1 DEF Written
  <1>3. Len(framed[k].payload) \in Nat
    BY <1>2
  <1> QED
    <2>1. Len(framed[k].payload) <= MaxLen
      BY DEF StreamTypes
    <2>2. EndOf(framed[k]) = framed[k].at + 1 + Len(framed[k].payload)
      BY DEF EndOf
    <2>3. Len(framed[k].payload) \in 0..MaxLen /\ EndOf(framed[k]) \in Nat
      BY <1>2, <1>3, <2>1, <2>2, MCLinkAssumption
    <2> QED
      BY <1>1, <1>2, <1>3, <2>2, <2>3

\* What a write changes.
LEMMA WriteFacts ==
  ASSUME StreamTypes, NEW p \in Payloads, Framing!Write(p)
  PROVE  LET n == Len(framed) + 1
             z == Len(stream)
         IN /\ stream' \in Seq(Framing!Bytes) /\ Len(stream') = z + 2 + Len(p)
            /\ \A i \in 1..z : stream'[i] = stream[i]
            /\ stream'[z + 1] = Marker /\ stream'[z + 2] = Len(p)
            /\ \A j \in 1..Len(p) : stream'[z + 2 + j] = p[j]
            /\ framed' \in Seq(Written) /\ Len(framed') = n
            /\ \A k \in 1..Len(framed) : framed'[k] = framed[k]
            /\ framed'[n].at = z + 1 /\ framed'[n].payload = p
            /\ Len(framed) \in Nat /\ z \in Nat
            /\ EndOf(framed'[n]) = z + 2 + Len(p)
  <1> DEFINE f == [at |-> Len(stream) + 1, payload |-> p]
  <1>1. p \in Seq(Framing!Bytes) /\ Len(p) \in Nat /\ Len(p) <= MaxLen
    BY PayloadTypes DEF Framing!Write
  <1>2. Len(p) \in Framing!Bytes /\ Marker \in Framing!Bytes
    BY <1>1, ByteRange, MCLinkAssumption
  <1>3. stream' = stream \o <<Marker, Len(p)>> \o p /\ framed' = Append(framed, f)
    BY DEF Framing!Write
  <1>4. /\ stream' \in Seq(Framing!Bytes) /\ Len(stream') = Len(stream) + 2 + Len(p)
        /\ \A i \in 1..Len(stream) : stream'[i] = stream[i]
        /\ stream'[Len(stream) + 1] = Marker /\ stream'[Len(stream) + 2] = Len(p)
        /\ \A j \in 1..Len(p) : stream'[Len(stream) + 2 + j] = p[j]
    <2>1. stream \in Seq(Framing!Bytes)
      BY DEF StreamTypes
    <2> QED
      BY <1>1, <1>2, <1>3, <2>1, WrittenBytes
  <1>5. Len(stream) \in Nat /\ Len(framed) \in Nat /\ framed \in Seq(Written)
    BY DEF StreamTypes
  <1>6. f \in Written /\ f.at = Len(stream) + 1 /\ f.payload = p
    BY <1>1, <1>5 DEF Written
  <1>7. EndOf(f) = Len(stream) + 2 + Len(p)
    BY <1>1, <1>5, <1>6 DEF EndOf
  <1> HIDE DEF f
  <1>8. /\ framed' \in Seq(Written) /\ Len(framed') = Len(framed) + 1
        /\ \A k \in 1..Len(framed) : framed'[k] = framed[k]
        /\ framed'[Len(framed) + 1] = f
    BY <1>3, <1>5, <1>6
  <1> QED
    BY <1>4, <1>5, <1>6, <1>7, <1>8

\* Write keeps the invariant: the frame goes behind everything there is.
LEMMA WriteStep ==
  ASSUME FrameInv, NEW p \in Payloads, Framing!Write(p)
  PROVE  FrameInv'
  <1> DEFINE n == Len(framed) + 1
             z == Len(stream)
  <1>1. /\ stream' \in Seq(Framing!Bytes) /\ Len(stream') = z + 2 + Len(p)
        /\ \A i \in 1..z : stream'[i] = stream[i]
        /\ stream'[z + 1] = Marker /\ stream'[z + 2] = Len(p)
        /\ \A j \in 1..Len(p) : stream'[z + 2 + j] = p[j]
        /\ Len(framed) \in Nat /\ z \in Nat
    BY WriteFacts DEF FrameInv
  <1>2. /\ framed' \in Seq(Written) /\ Len(framed') = n
        /\ \A k \in 1..Len(framed) : framed'[k] = framed[k]
        /\ framed'[n].at = z + 1 /\ framed'[n].payload = p
        /\ EndOf(framed'[n]) = z + 2 + Len(p)
    BY WriteFacts DEF FrameInv
  <1>3. Len(p) \in Nat /\ Len(p) <= MaxLen /\ p \in Seq(Framing!Bytes)
    BY PayloadTypes DEF Framing!Write
  <1>4. hit' = hit /\ pos' = pos /\ want' = want /\ begin' = begin
        /\ need' = need /\ unframed' = unframed
    BY DEF Framing!Write, Framing!reader
  <1>5. StreamTypes
    BY DEF FrameInv
  <1>6. ASSUME NEW k \in 1..Len(framed)
        PROVE  /\ framed[k].at \in Nat /\ framed[k].at >= 1
               /\ Len(framed[k].payload) \in 0..MaxLen /\ EndOf(framed[k]) \in Nat
               /\ EndOf(framed[k]) = framed[k].at + 1 + Len(framed[k].payload)
    BY <1>5, WrittenTypes, ZenonT(30)
  <1>7. hit \in Nat /\ pos \in Nat /\ begin \in Nat /\ need \in Nat /\ pos <= z
    BY <1>5 DEF StreamTypes
  <1>8. 1..Len(framed') = 1..Len(framed) \cup {n} /\ n \in 1..Len(framed')
    BY <1>1, <1>2
  <1>9. \A k \in 1..Len(framed) : Framing!Calm(framed'[k]) <=> Framing!Calm(framed[k])
    BY <1>2 DEF Framing!Calm
  <1>10. AllCalm' => AllCalm /\ Framing!Calm(framed'[n])
    BY <1>8, <1>9 DEF AllCalm
  <1> HIDE DEF n, z
  <1>a. StreamTypes'
    <2>1. ASSUME NEW k \in 1..Len(framed') PROVE Len(framed'[k].payload) <= MaxLen
      <3>1. CASE k = n
        BY <1>2, <1>3, <3>1
      <3>2. CASE k \in 1..Len(framed)
        BY <1>2, <1>6, <3>2, MCLinkAssumption
      <3> QED
        BY <1>8, <3>1, <3>2
    <2> QED
      BY <1>1, <1>2, <1>3, <1>4, <1>5, <2>1 DEF StreamTypes, z
  <1>b. PlaceInv'
    <2> SUFFICES ASSUME NEW k \in 1..Len(framed'), framed'[k].at > hit'
                 PROVE  Lies(framed[k])'
      BY DEF PlaceInv
    <2>1. CASE k = n
      <3>1. framed'[k].at = z + 1 /\ framed'[k].payload = p
            /\ EndOf(framed'[k]) = z + 2 + Len(p)
        BY <1>2, <2>1
      <3>2. framed'[k].at + 1 = z + 2
        BY <1>1, <3>1
      <3>3. ASSUME NEW j \in 1..Len(framed'[k].payload)
            PROVE  stream'[framed'[k].at + 1 + j] = framed'[k].payload[j]
        BY <1>1, <3>1, <3>2
      <3>4. EndOf(framed[k])' = EndOf(framed'[k])
        BY DEF EndOf
      <3> QED
        BY <1>1, <3>1, <3>2, <3>3, <3>4 DEF Lies
    <2>2. CASE k \in 1..Len(framed)
      <3>1. Lies(framed[k])
        BY <1>2, <1>4, <2>2 DEF FrameInv, PlaceInv
      <3>2. framed'[k] = framed[k] /\ framed[k].at \in Nat /\ framed[k].at >= 1
            /\ Len(framed[k].payload) \in Nat
            /\ framed[k].at + 1 + Len(framed[k].payload) <= z
        BY <1>2, <1>6, <2>2, <3>1, MCLinkAssumption DEF Lies, z
      <3>3. /\ EndOf(framed[k])' = EndOf(framed[k])
            /\ EndOf(framed[k]) <= z /\ z <= Len(stream')
        BY <1>1, <1>3, <3>1, <3>2 DEF Lies, z, EndOf
      <3>z. z \in Nat
        BY <1>1
      <3>4. ASSUME NEW j \in 1..Len(framed[k].payload)
            PROVE  stream'[framed[k].at + 1 + j] = framed[k].payload[j]
        <4>1. framed[k].at + 1 + j \in 1..z
          BY <3>2, <3>z, SMTT(30)
        <4>2. stream'[framed[k].at + 1 + j] = stream[framed[k].at + 1 + j]
          BY <1>1, <4>1
        <4> QED
          BY <3>1, <4>2 DEF Lies
      <3>5. stream'[framed[k].at] = Marker
            /\ stream'[framed[k].at + 1] = Len(framed[k].payload)
        <4>1. framed[k].at \in 1..z /\ framed[k].at + 1 \in 1..z
          BY <3>2, <3>z
        <4> QED
          BY <1>1, <3>1, <4>1 DEF Lies
      <3>6. EndOf(framed[k])' <= Len(stream')
        BY <1>1, <1>3, <1>6, <2>2, <3>3
      <3> QED
        BY <3>2, <3>4, <3>5, <3>6 DEF Lies
    <2> QED
      BY <1>8, <2>1, <2>2
  <1>c. ApartInv'
    <2> SUFFICES ASSUME NEW k \in 1..Len(framed'), NEW m \in 1..Len(framed'),
                        k < m, framed'[k].at > hit'
                 PROVE  EndOf(framed'[k]) < framed'[m].at
      BY DEF ApartInv, EndOf
    <2>1. k \in 1..Len(framed)
      BY <1>1, <1>2, <1>8 DEF n
    <2>2. CASE m = n
      <3>1. EndOf(framed[k]) <= z
        BY <1>2, <1>4, <2>1 DEF FrameInv, PlaceInv, Lies, z
      <3> QED
        BY <1>1, <1>2, <1>6, <2>1, <2>2, <3>1
    <2>3. CASE m \in 1..Len(framed)
      BY <1>2, <1>4, <2>1, <2>3 DEF FrameInv, ApartInv
    <2> QED
      BY <1>8, <2>2, <2>3
  <1>d. MarkerInv'
    <2> SUFFICES ASSUME AllCalm', NEW i \in 2..Len(stream'), i > hit',
                        stream'[i] = Marker
                 PROVE  \E k \in 1..Len(framed') : framed'[k].at = i
      BY DEF MarkerInv
    <2>1. CASE i <= z
      <3>1. PICK k \in 1..Len(framed) : framed[k].at = i
        BY <1>1, <1>4, <1>10, <2>1, SMTT(30) DEF FrameInv, MarkerInv, z
      <3> QED
        BY <1>2, <1>8, <3>1
    <2>2. CASE i = z + 1
      BY <1>2, <1>8, <2>2
    <2>3. CASE i > z + 1
      <3>1. Len(p) # Marker /\ \A j \in 1..Len(p) : p[j] # Marker
        BY <1>2, <1>3, <1>10 DEF Framing!Calm
      <3>2. i # z + 2
        BY <1>1, <3>1
      <3>3. i - z - 2 \in 1..Len(p) /\ i = z + 2 + (i - z - 2)
        BY <1>1, <1>3, <2>3, <3>2
      <3>4. stream'[z + 2 + (i - z - 2)] = p[i - z - 2]
        BY <1>1, <3>3
      <3>5. stream'[i] = p[i - z - 2]
        BY <3>3, <3>4
      <3> QED
        BY <3>1, <3>3, <3>5
    <2> QED
      BY <1>1, <2>1, <2>2, <2>3
  <1>e. HeadInv'
    BY <1>1, <1>3, <1>4, <1>7 DEF FrameInv, HeadInv, z
  <1>f. FarInv'
    <2> SUFFICES ASSUME hit' # 0, AllCalm', want' # "error",
                        NEW k \in 1..Len(framed'),
                        Far(framed[k])', Passed(framed[k])'
                 PROVE  Returned(framed[k])'
      BY DEF FarInv
    <2>1. k # n
      <3>1. begin <= z \/ want = "marker"
        BY <1>4, <1>5 DEF FrameInv, HeadInv, StreamTypes, z
      <3> QED
        BY <1>1, <1>2, <1>4, <1>7, <3>1 DEF Passed
    <2>2. k \in 1..Len(framed) /\ framed'[k] = framed[k]
      BY <1>2, <1>8, <2>1
    <2>3. Far(framed[k]) /\ Passed(framed[k])
      BY <1>4, <2>2 DEF Far, Passed
    <2>4. Returned(framed[k])
      BY <1>4, <1>10, <2>2, <2>3 DEF FrameInv, FarInv
    <2> QED
      BY <1>4, <2>2, <2>4 DEF Returned
  <1>g. ChainInv'
    <2> SUFFICES ASSUME hit' = 0
                 PROVE  /\ \A k \in 1..Len(framed') : k + 1 <= Len(framed') =>
                             framed'[k + 1].at = EndOf(framed'[k]) + 1
                        /\ EndOf(framed'[Len(framed')]) = Len(stream')
      BY DEF ChainInv, EndOf
    <2>1. ASSUME NEW k \in 1..Len(framed'), k + 1 <= Len(framed')
          PROVE  framed'[k + 1].at = EndOf(framed'[k]) + 1
      <3>1. k \in 1..Len(framed)
        BY <1>1, <1>2, <2>1 DEF n
      <3>2. CASE k = Len(framed)
        <4>1. framed # <<>> /\ EndOf(framed[k]) = z
          BY <1>1, <1>4, <3>1, <3>2 DEF FrameInv, ChainInv, z
        <4> QED
          BY <1>1, <1>2, <3>1, <3>2, <4>1 DEF n
      <3>3. CASE k # Len(framed)
        <4>1. k + 1 \in 1..Len(framed)
          BY <1>1, <3>1, <3>3
        <4> QED
          BY <1>2, <1>4, <3>1, <4>1 DEF FrameInv, ChainInv
      <3> QED
        BY <3>2, <3>3
    <2>2. EndOf(framed'[Len(framed')]) = Len(stream')
      BY <1>1, <1>2
    <2> QED
      BY <2>1, <2>2
  <1>h. CleanInv'
    <2> SUFFICES ASSUME hit' = 0, QuietNoise'
                 PROVE  /\ want' # "error"
                        /\ Count' <= Len(framed')
                        /\ \A k \in 1..Count' : unframed'[k] = framed'[k]
                        /\ want' = "marker" =>
                             IF Count' = 0 THEN framed' # <<>> => pos' < framed'[1].at
                             ELSE pos' = EndOf(framed'[Count'])
                        /\ want' # "marker" => /\ Count' < Len(framed')
                                               /\ begin' = framed'[Count' + 1].at
      BY DEF CleanInv, EndOf
    <2>1. QuietNoise
      <3> SUFFICES ASSUME NEW i \in 1..Len(stream), stream[i] = Marker
                   PROVE  \E k \in DOMAIN framed : i >= framed[k].at
        BY DEF QuietNoise
      <3>1. PICK k \in DOMAIN framed' : i >= framed'[k].at
        BY <1>1, <1>3 DEF QuietNoise, z
      <3>2. k \in 1..Len(framed')
        BY <1>2, <3>1
      <3>3. k # n
        BY <1>1, <1>2, <3>1 DEF z
      <3>4. k \in 1..Len(framed)
        BY <1>8, <3>2, <3>3
      <3> QED
        BY <1>2, <1>5, <3>1, <3>4 DEF StreamTypes
    <2>2. /\ want # "error" /\ Count <= Len(framed)
          /\ \A k \in 1..Count : unframed[k] = framed[k]
          /\ want = "marker" =>
               IF Count = 0 THEN framed # <<>> => pos < framed[1].at
               ELSE pos = EndOf(framed[Count])
          /\ want # "marker" => Count < Len(framed) /\ begin = framed[Count + 1].at
      BY <1>4, <2>1 DEF FrameInv, CleanInv
    <2>3. Count \in Nat /\ Count' = Count
      BY <1>4, <1>5 DEF Count, StreamTypes
    <2>4. ASSUME NEW k \in 1..Count PROVE unframed'[k] = framed'[k]
      <3>1. k \in 1..Len(framed)
        BY <1>1, <2>2, <2>3
      <3> QED
        BY <1>2, <1>4, <2>2, <3>1
    <2>5. ASSUME want = "marker"
          PROVE  IF Count = 0 THEN pos < framed'[1].at
                 ELSE pos = EndOf(framed'[Count])
      <3>1. CASE Count # 0
        BY <1>1, <1>2, <2>2, <2>3, <2>5, <3>1
      <3>2. CASE Count = 0 /\ Len(framed) = 0
        BY <1>1, <1>2, <1>7, <3>2 DEF n
      <3>3. CASE Count = 0 /\ Len(framed) # 0
        <4>1. framed # <<>> /\ 1 \in 1..Len(framed)
          BY <1>1, <3>3
        <4> QED
          BY <1>2, <2>2, <2>5, <3>3, <4>1
      <3> QED
        BY <3>1, <3>2, <3>3
    <2>6. ASSUME want # "marker"
          PROVE  Count < Len(framed') /\ begin = framed'[Count + 1].at
      <3>1. Count + 1 \in 1..Len(framed)
        BY <1>1, <2>2, <2>3, <2>6
      <3> QED
        BY <1>1, <1>2, <2>2, <2>3, <2>6, <3>1 DEF n
    <2> QED
      BY <1>1, <1>2, <1>4, <2>2, <2>3, <2>4, <2>5, <2>6 DEF n
  <1> QED
    BY <1>a, <1>b, <1>c, <1>d, <1>e, <1>f, <1>g, <1>h DEF FrameInv

\* What the parts of the invariant say, with the types in hand.
LEMMA FrameFacts ==
  ASSUME FrameInv
  PROVE  /\ hit \in Nat /\ pos \in Nat /\ begin \in Nat /\ need \in Nat
         /\ Len(stream) \in Nat /\ Len(framed) \in Nat /\ pos <= Len(stream)
         /\ want \in {"marker", "length", "payload", "error"}
         /\ stream \in Seq(Framing!Bytes) /\ framed \in Seq(Written)
         /\ unframed \in Seq(Written) /\ Count \in Nat
         /\ DOMAIN framed = 1..Len(framed) /\ DOMAIN unframed = 1..Count
  BY DEF FrameInv, StreamTypes, Count

\* A frame behind the damage, byte by byte and inside the stream.
LEMMA LyingFrame ==
  ASSUME FrameInv, NEW k \in 1..Len(framed), framed[k].at > hit
  PROVE  /\ framed[k].at \in 1..Len(stream) /\ framed[k].at + 1 \in 1..Len(stream)
         /\ stream[framed[k].at] = Marker
         /\ stream[framed[k].at + 1] = Len(framed[k].payload)
         /\ Len(framed[k].payload) \in 0..MaxLen
         /\ \A j \in 1..Len(framed[k].payload) :
              stream[framed[k].at + 1 + j] = framed[k].payload[j]
         /\ EndOf(framed[k]) = framed[k].at + 1 + Len(framed[k].payload)
         /\ EndOf(framed[k]) <= Len(stream)
  <1>1. Lies(framed[k])
    BY DEF FrameInv, PlaceInv
  <1>2. /\ framed[k].at \in Nat /\ framed[k].at >= 1
        /\ Len(framed[k].payload) \in 0..MaxLen
        /\ EndOf(framed[k]) = framed[k].at + 1 + Len(framed[k].payload)
    BY WrittenTypes DEF FrameInv
  <1>3. EndOf(framed[k]) <= Len(stream) /\ Len(stream) \in Nat
    BY <1>1, FrameFacts DEF Lies
  <1>4. framed[k].at \in 1..Len(stream) /\ framed[k].at + 1 \in 1..Len(stream)
    BY <1>2, <1>3, MCLinkAssumption
  <1> QED
    BY <1>1, <1>2, <1>3, <1>4 DEF Lies

\* A reader inside a frame has its head behind it.
LEMMA HeadBehind ==
  ASSUME FrameInv, want # "marker", want # "error"
  PROVE  begin \in 1..pos /\ pos \in 1..Len(stream)
  BY FrameFacts DEF FrameInv, HeadInv

\* Corrupt keeps the invariant: it hits in front of the reader, and what it
\* hits is no longer claimed.
LEMMA CorruptStep ==
  ASSUME FrameInv, NEW i \in 1..Len(stream), NEW b \in Framing!Bytes,
         Framing!Corrupt(i, b)
  PROVE  FrameInv'
  <1>1. /\ hit = 0 /\ hit' = i /\ i > pos /\ framed' = framed
        /\ pos' = pos /\ want' = want /\ begin' = begin
        /\ need' = need /\ unframed' = unframed
        /\ stream' = [stream EXCEPT ![i] = b]
    BY FrameFacts DEF Framing!Corrupt, Framing!reader
  <1>2. /\ stream' \in Seq(Framing!Bytes) /\ Len(stream') = Len(stream)
        /\ \A j \in 1..Len(stream) : j # i => stream'[j] = stream[j]
    BY <1>1, FrameFacts
  <1>a. StreamTypes'
    BY <1>1, <1>2 DEF FrameInv, StreamTypes
  <1>b. PlaceInv'
    <2> SUFFICES ASSUME NEW k \in 1..Len(framed), framed[k].at > i
                 PROVE  Lies(framed[k])'
      BY <1>1 DEF PlaceInv
    <2>1. framed[k].at > hit
      BY <1>1, FrameFacts, WrittenTypes DEF FrameInv
    <2>2. framed[k].at \in Nat /\ EndOf(framed[k]) \in Nat /\ framed'[k] = framed[k]
          /\ EndOf(framed[k])' = EndOf(framed[k])
      BY <1>1, WrittenTypes DEF FrameInv, EndOf
    <2>3. stream'[framed[k].at] = Marker
          /\ stream'[framed[k].at + 1] = Len(framed[k].payload)
      <3>1. /\ framed[k].at \in 1..Len(stream) /\ framed[k].at + 1 \in 1..Len(stream)
            /\ stream[framed[k].at] = Marker
            /\ stream[framed[k].at + 1] = Len(framed[k].payload)
        BY <2>1, LyingFrame
      <3>2. framed[k].at # i /\ framed[k].at + 1 # i
        BY <2>2
      <3> QED
        BY <1>2, <3>1, <3>2
    <2>4. ASSUME NEW j \in 1..Len(framed[k].payload)
          PROVE  stream'[framed[k].at + 1 + j] = framed[k].payload[j]
      <3>1. /\ EndOf(framed[k]) = framed[k].at + 1 + Len(framed[k].payload)
            /\ EndOf(framed[k]) <= Len(stream) /\ Len(framed[k].payload) \in 0..MaxLen
            /\ stream[framed[k].at + 1 + j] = framed[k].payload[j]
        BY <2>1, LyingFrame
      <3>2. framed[k].at + 1 + j \in 1..Len(stream) /\ framed[k].at + 1 + j # i
        <4>1. Len(framed[k].payload) \in Nat /\ Len(stream) \in Nat
          BY <3>1, FrameFacts, MCLinkAssumption
        <4> QED
          BY <2>2, <3>1, <4>1, SMTT(30)
      <3> QED
        BY <1>2, <3>1, <3>2
    <2>5. EndOf(framed[k]) <= Len(stream')
      BY <1>2, <2>1, LyingFrame
    <2> QED
      BY <1>1, <2>2, <2>3, <2>4, <2>5 DEF Lies
  <1>c. ApartInv'
    <2> SUFFICES ASSUME NEW k \in 1..Len(framed), NEW m \in 1..Len(framed),
                        k < m, framed[k].at > i
                 PROVE  EndOf(framed[k]) < framed[m].at
      BY <1>1 DEF ApartInv, EndOf
    <2>1. framed[k].at > hit
      BY <1>1, FrameFacts, WrittenTypes DEF FrameInv
    <2> QED
      BY <2>1 DEF FrameInv, ApartInv
  <1>d. MarkerInv'
    <2> SUFFICES ASSUME AllCalm, NEW j \in 2..Len(stream), j > i, stream'[j] = Marker
                 PROVE  \E k \in 1..Len(framed) : framed[k].at = j
      BY <1>1, <1>2 DEF MarkerInv, AllCalm, Framing!Calm
    <2>1. stream[j] = Marker /\ j > hit
      BY <1>1, <1>2, FrameFacts
    <2> QED
      BY <2>1 DEF FrameInv, MarkerInv
  <1>e. HeadInv'
    <2> SUFFICES ASSUME want \in {"length", "payload"}
                 PROVE  /\ begin >= 1 /\ begin <= Len(stream) /\ stream'[begin] = Marker
                        /\ want = "length" => pos = begin
                        /\ want = "payload" => /\ pos = begin + 1
                                               /\ need = stream'[pos] /\ need <= MaxLen
      BY <1>1, <1>2 DEF HeadInv
    <2>1. begin \in 1..pos /\ pos \in 1..Len(stream)
      BY HeadBehind
    <2>2. stream'[begin] = stream[begin] /\ stream'[pos] = stream[pos]
      BY <1>1, <1>2, <2>1, FrameFacts
    <2> QED
      BY <2>1, <2>2 DEF FrameInv, HeadInv
  <1>f. FarInv'
    <2> SUFFICES ASSUME want # "error", NEW k \in 1..Len(framed),
                        framed[k].at > i + MaxLen + 1,
                        IF want = "marker" THEN framed[k].at <= pos
                                           ELSE framed[k].at < begin
                 PROVE  FALSE
      BY <1>1 DEF FarInv, Far, Passed
    <2>1. framed[k].at \in Nat
      BY WrittenTypes DEF FrameInv
    <2> QED
      BY <1>1, <2>1, HeadBehind, FrameFacts, MCLinkAssumption
  <1>g. hit' # 0
    BY <1>1
  <1> QED
    BY <1>a, <1>b, <1>c, <1>d, <1>e, <1>f, <1>g DEF FrameInv, ChainInv, CleanInv

\* What the loss of a byte changes.
LEMMA LoseFacts ==
  ASSUME FrameInv, NEW i \in 1..Len(stream), Framing!Lose(i)
  PROVE  /\ hit = 0 /\ hit' = i /\ i > pos
         /\ pos' = pos /\ want' = want /\ begin' = begin
         /\ need' = need /\ unframed' = unframed
         /\ stream' \in Seq(Framing!Bytes) /\ Len(stream') = Len(stream) - 1
         /\ \A j \in 1..(i - 1) : stream'[j] = stream[j]
         /\ \A j \in i..(Len(stream) - 1) : stream'[j] = stream[j + 1]
         /\ framed' \in Seq(Written) /\ Len(framed') = Len(framed)
         /\ \A k \in 1..Len(framed) :
              /\ framed'[k].payload = framed[k].payload
              /\ framed'[k].at = IF framed[k].at > i THEN framed[k].at - 1
                                                     ELSE framed[k].at
  <1>1. /\ hit = 0 /\ hit' = i /\ i > pos
        /\ pos' = pos /\ want' = want /\ begin' = begin
        /\ need' = need /\ unframed' = unframed
    BY FrameFacts DEF Framing!Lose, Framing!reader
  <1>2. /\ stream' \in Seq(Framing!Bytes) /\ Len(stream') = Len(stream) - 1
        /\ \A j \in 1..(i - 1) : stream'[j] = stream[j]
        /\ \A j \in i..(Len(stream) - 1) : stream'[j] = stream[j + 1]
    <2>1. stream \in Seq(Framing!Bytes)
      BY FrameFacts
    <2>2. stream' = SubSeq(stream, 1, i - 1) \o SubSeq(stream, i + 1, Len(stream))
      BY DEF Framing!Lose
    <2> QED
      BY <2>1, <2>2, LostByte
  <1> DEFINE g(k) == IF framed[k].at > i THEN [framed[k] EXCEPT !.at = @ - 1]
                                         ELSE framed[k]
  <1>3. framed' = [k \in 1..Len(framed) |-> g(k)] /\ Len(framed) \in Nat
    BY FrameFacts DEF Framing!Lose
  <1>4. ASSUME NEW k \in 1..Len(framed)
        PROVE  /\ g(k) \in Written /\ g(k).payload = framed[k].payload
               /\ g(k).at = IF framed[k].at > i THEN framed[k].at - 1
                                                ELSE framed[k].at
    <2>1. framed[k] \in Written
      BY WrittenTypes DEF FrameInv
    <2>2. framed[k].at \in Nat /\ framed[k].at >= 1
      BY WrittenTypes DEF FrameInv
    <2>3. CASE framed[k].at > i
      <3>1. g(k) = [framed[k] EXCEPT !.at = framed[k].at - 1]
        BY <2>3
      <3>2. framed[k].at - 1 \in Nat \ {0}
        BY <2>2, <2>3
      <3> HIDE DEF g
      <3> QED
        BY <2>1, <2>3, <3>1, <3>2 DEF Written
    <2>4. CASE ~(framed[k].at > i)
      <3>1. g(k) = framed[k]
        BY <2>4
      <3> HIDE DEF g
      <3> QED
        BY <2>1, <2>4, <3>1
    <2> QED
      BY <2>3, <2>4
  <1> HIDE DEF g
  <1>5. framed' \in Seq(Written) /\ Len(framed') = Len(framed)
    BY <1>3, <1>4
  <1>6. \A k \in 1..Len(framed) : framed'[k] = g(k)
    BY <1>3
  <1> QED
    BY <1>1, <1>2, <1>4, <1>5, <1>6

\* Lose keeps the invariant: what was behind the byte moves up as a whole.
LEMMA LoseStep ==
  ASSUME FrameInv, NEW i \in 1..Len(stream), Framing!Lose(i)
  PROVE  FrameInv'
  <1>1. /\ hit = 0 /\ hit' = i /\ i > pos
        /\ pos' = pos /\ want' = want /\ begin' = begin
        /\ need' = need /\ unframed' = unframed
    BY LoseFacts
  <1>2. /\ stream' \in Seq(Framing!Bytes) /\ Len(stream') = Len(stream) - 1
        /\ \A j \in 1..(i - 1) : stream'[j] = stream[j]
        /\ \A j \in i..(Len(stream) - 1) : stream'[j] = stream[j + 1]
    BY LoseFacts
  <1>3. framed' \in Seq(Written) /\ Len(framed') = Len(framed)
    BY LoseFacts
  <1>4. \A k \in 1..Len(framed) :
          /\ framed'[k].payload = framed[k].payload
          /\ framed'[k].at = IF framed[k].at > i THEN framed[k].at - 1
                                                 ELSE framed[k].at
    BY LoseFacts
  <1>5. hit \in Nat /\ pos \in Nat /\ begin \in Nat /\ need \in Nat
        /\ Len(stream) \in Nat /\ Len(framed) \in Nat /\ pos <= Len(stream)
        /\ want \in {"marker", "length", "payload", "error"}
    BY FrameFacts
  <1>6. ASSUME NEW k \in 1..Len(framed)
        PROVE  /\ framed[k].at \in Nat /\ framed[k].at >= 1
               /\ Len(framed[k].payload) \in 0..MaxLen
               /\ Len(framed[k].payload) \in Nat
               /\ EndOf(framed[k]) = framed[k].at + 1 + Len(framed[k].payload)
               /\ EndOf(framed[k]) \in Nat /\ framed'[k].at \in Nat
    <2>1. /\ framed[k].at \in Nat /\ framed[k].at >= 1
          /\ Len(framed[k].payload) \in 0..MaxLen
          /\ EndOf(framed[k]) = framed[k].at + 1 + Len(framed[k].payload)
      BY WrittenTypes DEF FrameInv
    <2>2. Len(framed[k].payload) \in Nat /\ EndOf(framed[k]) \in Nat
      BY <2>1, MCLinkAssumption, SMTT(30)
    <2>3. framed'[k].at \in Nat
      BY <1>4, <2>1
    <2> QED
      BY <2>1, <2>2, <2>3
  \* A frame behind the lost byte is the one that was a place further on.
  <1>7. ASSUME NEW k \in 1..Len(framed), framed'[k].at > i
        PROVE  /\ framed[k].at = framed'[k].at + 1 /\ framed[k].at > hit
               /\ EndOf(framed'[k]) = EndOf(framed[k]) - 1
    <2>1. framed[k].at > i
      BY <1>4, <1>6, <1>7
    <2>2. framed'[k].at = framed[k].at - 1 /\ framed'[k].payload = framed[k].payload
      BY <1>4, <2>1
    <2> QED
      <3>1. /\ EndOf(framed[k]) = framed[k].at + 1 + Len(framed[k].payload)
            /\ framed[k].at \in Nat /\ Len(framed[k].payload) \in Nat
        BY <1>6
      <3>2. EndOf(framed'[k]) = framed'[k].at + 1 + Len(framed[k].payload)
        BY <2>2 DEF EndOf
      <3>3. framed[k].at = framed'[k].at + 1
        BY <2>2, <3>1
      <3>4. EndOf(framed'[k]) = EndOf(framed[k]) - 1
        BY <2>2, <3>1, <3>2
      <3>5. framed[k].at > hit
        BY <1>1, <2>1, <3>1
      <3> QED
        BY <3>3, <3>4, <3>5
  <1>a. StreamTypes'
    <2>1. \A k \in 1..Len(framed') : Len(framed'[k].payload) <= MaxLen
      BY <1>3, <1>4 DEF FrameInv, StreamTypes
    <2>2. pos' <= Len(stream')
      BY <1>1, <1>2, <1>5
    <2>3. hit' \in Nat
      BY <1>1
    <2> QED
      BY <1>1, <1>2, <1>3, <2>1, <2>2, <2>3 DEF FrameInv, StreamTypes
  <1>b. PlaceInv'
    <2> SUFFICES ASSUME NEW k \in 1..Len(framed), framed'[k].at > i
                 PROVE  Lies(framed[k])'
      BY <1>1, <1>3 DEF PlaceInv
    <2> DEFINE a == framed'[k].at
               q == framed[k].payload
    <2>1. /\ framed[k].at = a + 1 /\ framed[k].at > hit
          /\ EndOf(framed'[k]) = EndOf(framed[k]) - 1
          /\ framed'[k].payload = q /\ a > i
      BY <1>4, <1>7
    <2>2. /\ stream[a + 1] = Marker /\ stream[a + 2] = Len(q)
          /\ EndOf(framed[k]) = a + 2 + Len(q) /\ EndOf(framed[k]) <= Len(stream)
          /\ Len(q) \in Nat /\ a \in Nat
      <3>1. /\ stream[framed[k].at] = Marker /\ stream[framed[k].at + 1] = Len(q)
            /\ EndOf(framed[k]) <= Len(stream)
        BY <2>1, LyingFrame
      <3>2. a \in Nat /\ Len(q) \in Nat /\ EndOf(framed[k]) = a + 2 + Len(q)
        <4>1. /\ Len(q) \in Nat /\ a \in Nat
              /\ EndOf(framed[k]) = framed[k].at + 1 + Len(q)
          BY <1>6
        <4> HIDE DEF a, q
        <4> QED
          BY <2>1, <4>1
      <3>3. framed[k].at = a + 1 /\ framed[k].at + 1 = a + 2
        BY <2>1, <3>2
      <3> QED
        BY <3>1, <3>2, <3>3
    <2>3. \A j \in 1..Len(q) : stream[a + 2 + j] = q[j]
      <3>1. \A j \in 1..Len(q) : stream[framed[k].at + 1 + j] = q[j]
        BY <2>1, LyingFrame
      <3>2. framed[k].at = a + 1 /\ a \in Nat
        BY <2>1, <2>2
      <3> HIDE DEF a, q
      <3>3. ASSUME NEW j \in 1..Len(q) PROVE stream[a + 2 + j] = q[j]
        <4>1. framed[k].at + 1 + j = a + 2 + j
          BY <3>2
        <4>2. stream[framed[k].at + 1 + j] = q[j]
          BY <3>1
        <4> QED
          BY <4>1, <4>2
      <3> QED
        BY <3>3
    <2>4. EndOf(framed[k])' = EndOf(framed'[k])
      BY DEF EndOf
    <2> HIDE DEF a, q
    <2>5. stream'[a] = Marker /\ stream'[a + 1] = Len(q)
      <3>1. a \in i..(Len(stream) - 1) /\ a + 1 \in i..(Len(stream) - 1)
        BY <1>5, <2>1, <2>2
      <3>2. stream'[a] = stream[a + 1] /\ stream'[a + 1] = stream[(a + 1) + 1]
        BY <1>2, <3>1
      <3> QED
        BY <2>2, <3>2
    <2>6. ASSUME NEW j \in 1..Len(q) PROVE stream'[a + 1 + j] = q[j]
      <3>1. a + 1 + j \in i..(Len(stream) - 1) /\ (a + 1 + j) + 1 = a + 2 + j
        BY <1>5, <2>1, <2>2
      <3>2. stream'[a + 1 + j] = stream[(a + 1 + j) + 1]
        BY <1>2, <3>1
      <3> QED
        BY <2>3, <3>1, <3>2
    <2>7. EndOf(framed[k])' <= Len(stream')
      BY <1>2, <1>5, <2>1, <2>2, <2>4
    <2> QED
      BY <2>1, <2>5, <2>6, <2>7 DEF Lies, a
  <1>c. ApartInv'
    <2> SUFFICES ASSUME NEW k \in 1..Len(framed), NEW m \in 1..Len(framed),
                        k < m, framed'[k].at > i
                 PROVE  EndOf(framed'[k]) < framed'[m].at
      BY <1>1, <1>3 DEF ApartInv, EndOf
    <2>1. EndOf(framed[k]) < framed[m].at
      BY <1>7 DEF FrameInv, ApartInv
    <2>2. framed[m].at > i /\ EndOf(framed'[k]) = EndOf(framed[k]) - 1
      <3>1. /\ framed[k].at = framed'[k].at + 1
            /\ EndOf(framed'[k]) = EndOf(framed[k]) - 1
        BY <1>7
      <3>2. /\ EndOf(framed[k]) = framed[k].at + 1 + Len(framed[k].payload)
            /\ framed[k].at \in Nat /\ Len(framed[k].payload) \in Nat
            /\ framed[m].at \in Nat /\ framed'[k].at \in Nat
        BY <1>6
      <3>3. framed[m].at > framed[k].at
        BY <2>1, <3>2
      <3>4. framed[k].at > i
        BY <3>1, <3>2
      <3> QED
        BY <3>1, <3>2, <3>3, <3>4
    <2>3. framed'[m].at = framed[m].at - 1
      BY <1>4, <2>2
    <2>4. EndOf(framed[k]) \in Nat /\ framed[m].at \in Nat
      BY <1>6
    <2> QED
      BY <2>1, <2>2, <2>3, <2>4
  <1>d. MarkerInv'
    <2> SUFFICES ASSUME AllCalm', NEW j \in 2..Len(stream'), j > i, stream'[j] = Marker
                 PROVE  \E k \in 1..Len(framed) : framed'[k].at = j
      BY <1>1, <1>3 DEF MarkerInv
    <2>1. AllCalm
      BY <1>3, <1>4 DEF AllCalm, Framing!Calm
    <2>2. stream[j + 1] = Marker /\ j + 1 \in 2..Len(stream) /\ j + 1 > hit
      BY <1>1, <1>2, <1>5
    <2>3. PICK k \in 1..Len(framed) : framed[k].at = j + 1
      BY <2>1, <2>2 DEF FrameInv, MarkerInv
    <2>4. framed'[k].at = j
      BY <1>4, <2>3
    <2> QED
      BY <2>4
  <1>e. HeadInv'
    <2> SUFFICES ASSUME want \in {"length", "payload"}
                 PROVE  /\ begin >= 1 /\ begin <= Len(stream') /\ stream'[begin] = Marker
                        /\ want = "length" => pos = begin
                        /\ want = "payload" => /\ pos = begin + 1
                                               /\ need = stream'[pos] /\ need <= MaxLen
      BY <1>1 DEF HeadInv
    <2>1. begin \in 1..pos /\ pos \in 1..Len(stream)
      BY HeadBehind
    <2>2. begin \in 1..(i - 1) /\ pos \in 1..(i - 1)
      BY <1>1, <1>5, <2>1
    <2>3. stream'[begin] = stream[begin] /\ stream'[pos] = stream[pos]
          /\ begin <= Len(stream')
      BY <1>1, <1>2, <1>5, <2>1, <2>2
    <2> QED
      BY <2>1, <2>3 DEF FrameInv, HeadInv
  <1>f. FarInv'
    <2> SUFFICES ASSUME want # "error", NEW k \in 1..Len(framed),
                        framed'[k].at > i + MaxLen + 1,
                        IF want = "marker" THEN framed'[k].at <= pos
                                           ELSE framed'[k].at < begin
                 PROVE  FALSE
      BY <1>1, <1>3 DEF FarInv, Far, Passed
    <2>1. framed'[k].at \in Nat
      BY <1>6
    <2>2. want # "marker" => begin <= pos
      BY <1>5, HeadBehind
    <2> QED
      BY <1>1, <1>5, <2>1, <2>2, MCLinkAssumption
  <1>g. hit' # 0
    BY <1>1
  <1> QED
    BY <1>a, <1>b, <1>c, <1>d, <1>e, <1>f, <1>g DEF FrameInv, ChainInv, CleanInv

\* A marker behind the damage is that of a frame, if all frames are calm.
LEMMA MarkerOfFrame ==
  ASSUME FrameInv, AllCalm, NEW i \in 2..Len(stream), i > hit, stream[i] = Marker
  PROVE  \E k \in 1..Len(framed) : framed[k].at = i
  BY DEF FrameInv, MarkerInv

\* Without damage, what follows the first n frames is frame n + 1.
LEMMA NextFrame ==
  ASSUME FrameInv, hit = 0, NEW n \in 1..Len(framed), EndOf(framed[n]) < Len(stream)
  PROVE  n + 1 \in 1..Len(framed) /\ framed[n + 1].at = EndOf(framed[n]) + 1
  <1>1. Len(framed) \in Nat /\ Len(stream) \in Nat
    BY FrameFacts
  <1>2. n # Len(framed)
    <2>1. SUFFICES ASSUME n = Len(framed) PROVE FALSE
      OBVIOUS
    <2>2. framed # <<>>
      BY <1>1
    <2>3. EndOf(framed[Len(framed)]) = Len(stream)
      BY <2>2 DEF FrameInv, ChainInv
    <2> QED
      BY <1>1, <2>1, <2>3
  <1>3. n + 1 \in 1..Len(framed) /\ n + 1 <= Len(framed)
    BY <1>1, <1>2
  <1> QED
    BY <1>3 DEF FrameInv, ChainInv

\* Without damage the first frame comes first.
LEMMA FirstFrame ==
  ASSUME FrameInv, hit = 0, NEW k \in 1..Len(framed)
  PROVE  1 \in 1..Len(framed) /\ framed[1].at <= framed[k].at /\ framed[1].at > hit
         /\ framed # <<>>
  <1>1. Len(framed) \in Nat /\ 1 \in 1..Len(framed)
    BY FrameFacts
  <1>2. /\ framed[1].at \in Nat /\ framed[1].at >= 1
        /\ Len(framed[1].payload) \in 0..MaxLen
        /\ EndOf(framed[1]) = framed[1].at + 1 + Len(framed[1].payload)
    BY <1>1, WrittenTypes DEF FrameInv
  <1>3. framed[k].at \in Nat
    BY WrittenTypes DEF FrameInv
  <1>4. CASE k = 1
    BY <1>1, <1>2, <1>4
  <1>5. CASE k # 1
    <2>1. EndOf(framed[1]) < framed[k].at
      BY <1>1, <1>2, <1>5 DEF FrameInv, ApartInv
    <2> QED
      BY <1>1, <1>2, <1>3, <2>1, MCLinkAssumption
  <1> QED
    BY <1>4, <1>5

\* SkipToMarker never skips the marker of a far frame, nor, without damage,
\* that of the next one.
LEMMA SkipStep ==
  ASSUME FrameInv, Framing!SkipToMarker
  PROVE  FrameInv'
  <1>1. /\ stream' = stream /\ framed' = framed /\ hit' = hit /\ need' = need
        /\ unframed' = unframed /\ want = "marker"
        /\ pos < Len(stream) /\ pos' = pos + 1
    BY DEF Framing!SkipToMarker, Framing!ReadByte
  <1>2. IF stream[pos + 1] = Marker THEN want' = "length" /\ begin' = pos + 1
                                    ELSE want' = "marker" /\ begin' = begin
    BY <1>1 DEF Framing!SkipToMarker
  <1>3. hit \in Nat /\ pos \in Nat /\ begin \in Nat /\ Len(stream) \in Nat
    BY FrameFacts
  <1>a. StreamTypes'
    BY <1>1, <1>2, <1>3 DEF FrameInv, StreamTypes
  <1>b. PlaceInv' /\ ApartInv' /\ MarkerInv' /\ ChainInv'
    BY <1>1 DEF FrameInv, PlaceInv, Lies, ApartInv, MarkerInv, AllCalm,
       Framing!Calm, ChainInv, EndOf
  <1>c. HeadInv'
    BY <1>1, <1>2, <1>3 DEF HeadInv
  <1>d. FarInv'
    <2> SUFFICES ASSUME hit # 0, AllCalm, NEW k \in 1..Len(framed),
                        Far(framed[k]), Passed(framed[k])'
                 PROVE  Returned(framed[k])
      BY <1>1 DEF FarInv, AllCalm, Framing!Calm, Far, Returned
    <2>1. framed[k].at \in Nat /\ framed[k].at > hit
      BY <1>3, WrittenTypes, MCLinkAssumption DEF FrameInv, Far
    <2>2. framed[k].at <= pos
      <3>1. CASE stream[pos + 1] = Marker
        BY <1>1, <1>2, <1>3, <2>1, <3>1 DEF Passed
      <3>2. CASE stream[pos + 1] # Marker
        <4>1. framed[k].at <= pos + 1
          BY <1>1, <1>2, <3>2 DEF Passed
        <4>2. framed[k].at # pos + 1
          BY <2>1, <3>2, LyingFrame
        <4> QED
          BY <1>3, <2>1, <4>1, <4>2
      <3> QED
        BY <3>1, <3>2
    <2> QED
      BY <1>1, <2>2 DEF FrameInv, FarInv, Passed
  <1>e. CleanInv'
    <2> SUFFICES ASSUME hit = 0, QuietNoise
                 PROVE  /\ Count <= Len(framed)
                        /\ \A k \in 1..Count : unframed[k] = framed[k]
                        /\ want' = "marker" =>
                             IF Count = 0 THEN framed # <<>> => pos + 1 < framed[1].at
                             ELSE pos + 1 = EndOf(framed[Count])
                        /\ want' # "marker" => /\ Count < Len(framed)
                                               /\ begin' = framed[Count + 1].at
      BY <1>1, <1>2 DEF CleanInv, QuietNoise, Count, EndOf
    <2>1. /\ Count <= Len(framed) /\ Count \in Nat /\ Len(framed) \in Nat
          /\ \A k \in 1..Count : unframed[k] = framed[k]
          /\ IF Count = 0 THEN framed # <<>> => pos < framed[1].at
             ELSE pos = EndOf(framed[Count])
      BY <1>1, FrameFacts DEF FrameInv, CleanInv
    <2>2. CASE Count # 0
      <3>1. Count \in 1..Len(framed) /\ EndOf(framed[Count]) = pos
        BY <2>1, <2>2
      <3>2. Count + 1 \in 1..Len(framed) /\ framed[Count + 1].at = pos + 1
        BY <1>1, <3>1, NextFrame
      <3>3. stream[pos + 1] = Marker
        <4>1. framed[Count + 1].at > hit
          BY <1>3, <3>2
        <4> QED
          BY <3>2, <4>1, LyingFrame
      <3> QED
        BY <1>2, <2>1, <3>2, <3>3
    <2>3. CASE Count = 0 /\ stream[pos + 1] = Marker
      <3>1. PICK k \in 1..Len(framed) : pos + 1 >= framed[k].at
        BY <1>1, <1>3, <2>3, FrameFacts DEF QuietNoise
      <3>2. framed[1].at <= framed[k].at /\ 1 \in 1..Len(framed) /\ framed # <<>>
        BY FirstFrame
      <3>3. framed[1].at \in Nat /\ framed[k].at \in Nat
        BY <3>2, WrittenTypes DEF FrameInv
      <3>4. framed[1].at = pos + 1
        BY <1>3, <2>1, <2>3, <3>1, <3>2, <3>3
      <3> QED
        BY <1>2, <2>1, <2>3, <3>2, <3>4
    <2>4. CASE Count = 0 /\ stream[pos + 1] # Marker
      <3>1. ASSUME framed # <<>> PROVE pos + 1 < framed[1].at
        <4>1. 1 \in 1..Len(framed)
          BY <2>1, <3>1, FrameFacts
        <4>2. framed[1].at > hit /\ framed[1].at \in Nat
          BY <4>1, FirstFrame, WrittenTypes DEF FrameInv
        <4>3. stream[framed[1].at] = Marker
          BY <4>1, <4>2, LyingFrame
        <4> QED
          BY <1>3, <2>1, <2>4, <3>1, <4>2, <4>3
      <3> QED
        BY <1>2, <2>1, <2>4, <3>1
    <2> QED
      BY <2>2, <2>3, <2>4
  <1> QED
    BY <1>a, <1>b, <1>c, <1>d, <1>e DEF FrameInv

\* ReadLength gives up a marker only where no frame lies that counts.
LEMMA LengthStep ==
  ASSUME FrameInv, Framing!ReadLength
  PROVE  FrameInv'
  <1>1. /\ stream' = stream /\ framed' = framed /\ hit' = hit /\ begin' = begin
        /\ unframed' = unframed /\ want = "length"
        /\ pos < Len(stream) /\ pos' = pos + 1 /\ need' = stream[pos + 1]
    BY DEF Framing!ReadLength, Framing!ReadByte
  <1>2. want' = IF need' <= MaxLen THEN "payload"
                ELSE IF resync THEN "marker" ELSE "error"
    BY DEF Framing!ReadLength
  <1>3. /\ hit \in Nat /\ pos \in Nat /\ begin \in Nat /\ Len(stream) \in Nat
        /\ begin >= 1 /\ pos = begin /\ stream[begin] = Marker
    BY <1>1, FrameFacts DEF FrameInv, HeadInv
  <1>4. need' \in Nat
    <2>1. stream[pos + 1] \in Framing!Bytes
      BY <1>1, <1>3, FrameFacts
    <2> QED
      BY <1>1, <2>1, ByteRange, MCLinkAssumption
  \* The length of a frame that lies here is plausible.
  <1>5. ASSUME NEW k \in 1..Len(framed), framed[k].at = begin, begin > hit
        PROVE  want' = "payload"
    <2>1. stream[begin + 1] = Len(framed[k].payload)
          /\ Len(framed[k].payload) \in 0..MaxLen
      BY <1>5, LyingFrame
    <2> QED
      BY <1>1, <1>2, <1>3, <2>1, MCLinkAssumption
  <1>a. StreamTypes'
    BY <1>1, <1>2, <1>3, <1>4 DEF FrameInv, StreamTypes
  <1>b. PlaceInv' /\ ApartInv' /\ MarkerInv' /\ ChainInv'
    BY <1>1 DEF FrameInv, PlaceInv, Lies, ApartInv, MarkerInv, AllCalm,
       Framing!Calm, ChainInv, EndOf
  <1>c. HeadInv'
    BY <1>1, <1>2, <1>3 DEF HeadInv
  <1>d. FarInv'
    <2> SUFFICES ASSUME hit # 0, AllCalm, want' # "error", NEW k \in 1..Len(framed),
                        Far(framed[k]), Passed(framed[k])'
                 PROVE  Returned(framed[k])
      BY <1>1 DEF FarInv, AllCalm, Framing!Calm, Far, Returned
    <2>1. framed[k].at \in Nat /\ framed[k].at > hit + 3
      BY <1>3, WrittenTypes, MCLinkAssumption DEF FrameInv, Far
    <2>2. framed[k].at < begin
      <3>1. CASE want' = "marker"
        <4>1. framed[k].at <= begin + 1
          BY <1>1, <1>3, <3>1 DEF Passed
        <4>2. begin > hit /\ begin \in 2..Len(stream)
          BY <1>1, <1>3, <2>1, <4>1
        <4>3. PICK m \in 1..Len(framed) : framed[m].at = begin
          BY <1>3, <4>2, MarkerOfFrame
        <4> QED
          BY <1>5, <3>1, <4>2, <4>3
      <3>2. CASE want' # "marker"
        BY <1>1, <3>2 DEF Passed
      <3> QED
        BY <3>1, <3>2
    <2> QED
      BY <1>1, <2>2 DEF FrameInv, FarInv, Passed
  <1>e. CleanInv'
    <2> SUFFICES ASSUME hit = 0, QuietNoise
                 PROVE  /\ want' = "payload"
                        /\ Count < Len(framed) /\ begin = framed[Count + 1].at
                        /\ Count <= Len(framed)
                        /\ \A k \in 1..Count : unframed[k] = framed[k]
      BY <1>1 DEF CleanInv, QuietNoise, Count, EndOf
    <2>1. /\ Count <= Len(framed) /\ Count \in Nat /\ Len(framed) \in Nat
          /\ \A k \in 1..Count : unframed[k] = framed[k]
          /\ Count < Len(framed) /\ begin = framed[Count + 1].at
      BY <1>1, FrameFacts DEF FrameInv, CleanInv
    <2>2. Count + 1 \in 1..Len(framed)
      BY <2>1
    <2>3. want' = "payload"
      BY <1>3, <1>5, <2>1, <2>2
    <2> QED
      BY <2>1, <2>3
  <1> QED
    BY <1>a, <1>b, <1>c, <1>d, <1>e DEF FrameInv

\* What ReadPayload returns where a frame lies is that frame.
LEMMA WholeFrame ==
  ASSUME FrameInv, Framing!ReadPayload, NEW k \in 1..Len(framed),
         framed[k].at = begin, begin > hit
  PROVE  /\ [at |-> begin, payload |-> SubSeq(stream, pos + 1, pos')] = framed[k]
         /\ pos' = EndOf(framed[k])
  <1>1. /\ want = "payload" /\ pos + need <= Len(stream) /\ pos' = pos + need
    BY DEF Framing!ReadPayload
  <1>2. /\ pos = begin + 1 /\ need = stream[pos] /\ pos \in Nat /\ begin \in Nat
        /\ Len(stream) \in Nat /\ need \in Nat
    BY <1>1, FrameFacts DEF FrameInv, HeadInv
  <1> DEFINE q == framed[k].payload
             s == SubSeq(stream, pos + 1, pos')
  <1>3. /\ stream[begin + 1] = Len(q) /\ \A j \in 1..Len(q) : stream[begin + 1 + j] = q[j]
        /\ EndOf(framed[k]) = begin + 1 + Len(q)
    BY LyingFrame
  <1>4. need = Len(q) /\ pos' = EndOf(framed[k]) /\ pos' = pos + Len(q)
    BY <1>1, <1>2, <1>3
  <1>5. stream \in Seq(Framing!Bytes) /\ q \in Seq(Framing!Bytes)
    BY FrameFacts, WrittenTypes DEF FrameInv
  <1>6. /\ s \in Seq(Framing!Bytes) /\ Len(s) = need
        /\ \A j \in 1..need : s[j] = stream[pos + j]
    <2> HIDE DEF q
    <2>1. pos + 1 \in 1..(Len(stream) + 1) /\ pos' \in 0..Len(stream) /\ pos' \in Nat
      BY <1>1, <1>2
    <2>2. s \in Seq(Framing!Bytes)
      BY <1>5, <2>1
    <2>3. Len(s) = need
      BY <1>1, <1>2, <1>5, <2>1, SMTT(30)
    <2>4. ASSUME NEW j \in 1..need PROVE s[j] = stream[pos + j]
      BY <1>1, <1>2, <1>5, <2>1, SMTT(30)
    <2> QED
      BY <2>2, <2>3, <2>4
  <1> HIDE DEF s, q
  <1>7. s = q
    <2>1. \A j \in 1..Len(s) : s[j] = q[j]
      BY <1>2, <1>3, <1>4, <1>6
    <2> QED
      BY <1>4, <1>5, <1>6, <2>1, SameSequence
  <1>8. framed[k] = [at |-> framed[k].at, payload |-> framed[k].payload]
    <2>1. framed[k] \in Written
      BY WrittenTypes DEF FrameInv
    <2> QED
      BY <2>1 DEF Written
  <1> QED
    BY <1>4, <1>7, <1>8 DEF s, q

\* ReadPayload does not read over the marker of a far frame: a marker close
\* in front of one is that of a whole frame.
LEMMA PayloadStep ==
  ASSUME FrameInv, Framing!ReadPayload
  PROVE  FrameInv'
  <1> DEFINE r == [at |-> begin, payload |-> SubSeq(stream, pos + 1, pos')]
  <1>1. /\ stream' = stream /\ framed' = framed /\ hit' = hit /\ begin' = begin
        /\ need' = need /\ want = "payload" /\ want' = "marker"
        /\ pos + need <= Len(stream) /\ pos' = pos + need
        /\ unframed' = Append(unframed, r)
    BY DEF Framing!ReadPayload
  <1>2. /\ hit \in Nat /\ pos \in Nat /\ begin \in Nat /\ need \in Nat
        /\ Len(stream) \in Nat /\ begin >= 1 /\ begin <= Len(stream)
        /\ pos = begin + 1 /\ stream[begin] = Marker /\ need <= MaxLen
    BY <1>1, FrameFacts DEF FrameInv, HeadInv
  <1>3. r \in Written
    <2>1. stream \in Seq(Framing!Bytes) /\ pos + 1 \in 1..(Len(stream) + 1)
          /\ pos' \in 0..Len(stream)
      BY <1>1, <1>2, FrameFacts
    <2>2. SubSeq(stream, pos + 1, pos') \in Seq(Framing!Bytes)
      BY <2>1
    <2> QED
      BY <1>2, <2>2 DEF Written
  <1> HIDE DEF r
  <1>4. /\ unframed' \in Seq(Written) /\ Len(unframed') = Count + 1 /\ Count \in Nat
        /\ \A g \in 1..Count : unframed'[g] = unframed[g]
        /\ unframed'[Count + 1] = r
    BY <1>1, <1>3, FrameFacts DEF Count
  <1>a. StreamTypes'
    BY <1>1, <1>2, <1>4 DEF FrameInv, StreamTypes
  <1>b. PlaceInv' /\ ApartInv' /\ MarkerInv' /\ ChainInv'
    BY <1>1 DEF FrameInv, PlaceInv, Lies, ApartInv, MarkerInv, AllCalm,
       Framing!Calm, ChainInv, EndOf
  <1>c. HeadInv'
    BY <1>1 DEF HeadInv
  <1>d. FarInv'
    <2> SUFFICES ASSUME hit # 0, AllCalm, NEW k \in 1..Len(framed),
                        Far(framed[k]), framed[k].at <= pos'
                 PROVE  \E g \in 1..Len(unframed') : unframed'[g] = framed[k]
      BY <1>1 DEF FarInv, AllCalm, Framing!Calm, Far, Returned, Passed
    <2>1. framed[k].at \in Nat /\ framed[k].at > hit /\ framed[k].at > hit + MaxLen + 1
      BY <1>2, WrittenTypes, MCLinkAssumption DEF FrameInv, Far
    <2>2. CASE framed[k].at < begin
      <3>1. Returned(framed[k])
        BY <1>1, <2>2 DEF FrameInv, FarInv, Passed
      <3>2. PICK g \in 1..Count : unframed[g] = framed[k]
        BY <3>1 DEF Returned, Count
      <3>3. g \in 1..Len(unframed') /\ unframed'[g] = framed[k]
        BY <1>4, <3>2
      <3> QED
        BY <3>3
    <2>3. CASE framed[k].at = begin
      <3>1. r = framed[k]
        BY <2>1, <2>3, WholeFrame DEF r
      <3>2. Count + 1 \in 1..Len(unframed')
        BY <1>4
      <3> QED
        BY <1>4, <3>1, <3>2
    <2>4. CASE framed[k].at > begin
      <3>1. begin > hit /\ begin \in 2..Len(stream)
        BY <1>1, <1>2, <2>1, <2>4, MCLinkAssumption, SMTT(30)
      <3>2. PICK m \in 1..Len(framed) : framed[m].at = begin
        BY <1>2, <3>1, MarkerOfFrame
      <3>3. EndOf(framed[m]) = pos'
        BY <3>1, <3>2, WholeFrame
      <3>4. /\ EndOf(framed[k]) = framed[k].at + 1 + Len(framed[k].payload)
            /\ Len(framed[k].payload) \in 0..MaxLen
        BY <2>1, LyingFrame
      <3>5. CASE m < k
        <4>1. EndOf(framed[m]) < framed[k].at
          BY <3>1, <3>2, <3>5 DEF FrameInv, ApartInv
        <4> QED
          BY <1>1, <1>2, <2>1, <3>3, <4>1
      <3>6. CASE k < m
        <4>1. EndOf(framed[k]) < begin
          BY <2>1, <3>2, <3>6 DEF FrameInv, ApartInv
        <4> QED
          BY <1>2, <2>1, <2>4, <3>4, <4>1, MCLinkAssumption, SMTT(30)
      <3>7. m # k
        BY <1>2, <2>1, <2>4, <3>2
      <3> QED
        BY <3>5, <3>6, <3>7, FrameFacts
    <2> QED
      BY <1>2, <2>1, <2>2, <2>3, <2>4
  <1>e. CleanInv'
    <2> SUFFICES ASSUME hit = 0, QuietNoise
                 PROVE  /\ Count + 1 <= Len(framed)
                        /\ \A k \in 1..(Count + 1) : unframed'[k] = framed[k]
                        /\ pos' = EndOf(framed[Count + 1])
      <3>1. Count' = Count + 1 /\ Count + 1 # 0
        BY <1>4 DEF Count
      <3> QED
        BY <1>1, <3>1 DEF CleanInv, QuietNoise, EndOf
    <2>1. /\ Count <= Len(framed) /\ Count \in Nat /\ Len(framed) \in Nat
          /\ \A k \in 1..Count : unframed[k] = framed[k]
          /\ Count < Len(framed) /\ begin = framed[Count + 1].at
      BY <1>1, FrameFacts DEF FrameInv, CleanInv
    <2>2. Count + 1 \in 1..Len(framed)
      BY <2>1
    <2>3. r = framed[Count + 1] /\ pos' = EndOf(framed[Count + 1])
      <3>1. begin > hit /\ framed[Count + 1].at = begin
        BY <1>2, <2>1
      <3> QED
        BY <2>2, <3>1, WholeFrame DEF r
    <2>4. ASSUME NEW k \in 1..(Count + 1) PROVE unframed'[k] = framed[k]
      <3>1. CASE k = Count + 1
        BY <1>4, <2>3, <3>1
      <3>2. CASE k # Count + 1
        BY <1>4, <2>1, <3>2
      <3> QED
        BY <3>1, <3>2
    <2> QED
      BY <2>1, <2>2, <2>3, <2>4
  <1> QED
    BY <1>a, <1>b, <1>c, <1>d, <1>e DEF FrameInv

\* Nothing is written or read yet.
LEMMA StreamInit == MCInit => FrameInv
  <1> SUFFICES ASSUME MCInit PROVE FrameInv
    OBVIOUS
  <1>1. /\ stream \in Noise /\ framed = <<>> /\ hit = 0 /\ pos = 0
        /\ want = "marker" /\ begin = 0 /\ need = 0 /\ unframed = <<>>
    BY DEF MCInit, Framing!Init
  <1>2. stream \in Seq(Framing!Bytes) /\ Len(stream) \in Nat /\ Len(stream) <= 1
    BY <1>1, NoiseTypes
  <1>3. Len(framed) = 0 /\ Len(unframed) = 0
    BY <1>1
  <1>4. StreamTypes
    BY <1>1, <1>2 DEF StreamTypes
  <1>5. PlaceInv /\ ApartInv /\ FarInv /\ ChainInv /\ HeadInv
    BY <1>1, <1>3 DEF PlaceInv, ApartInv, FarInv, ChainInv, HeadInv
  <1>6. MarkerInv
    BY <1>2 DEF MarkerInv
  <1>7. CleanInv
    BY <1>1, <1>3 DEF CleanInv, Count
  <1> QED
    BY <1>4, <1>5, <1>6, <1>7 DEF FrameInv

\* Every step keeps the invariant; the other layers leave the stream alone.
LEMMA StreamStep == FrameInv /\ [MCNext]_mcVars => FrameInv'
  <1> SUFFICES ASSUME FrameInv, [MCNext]_mcVars PROVE FrameInv'
    OBVIOUS
  <1>1. CASE Framing!Next
    <2>1. ASSUME NEW p \in Payloads, Framing!Write(p) PROVE FrameInv'
      BY <2>1, WriteStep
    <2>2. ASSUME NEW i \in 1..Len(stream), Framing!Lose(i) PROVE FrameInv'
      BY <2>2, LoseStep
    <2>3. ASSUME NEW i \in 1..Len(stream), NEW b \in Framing!Bytes,
                 Framing!Corrupt(i, b)
          PROVE  FrameInv'
      BY <2>3, CorruptStep
    <2> QED
      BY <1>1, <2>1, <2>2, <2>3, SkipStep, LengthStep, PayloadStep DEF Framing!Next
  <1>2. CASE UNCHANGED frameVars
    BY <1>2 DEF frameVars, FrameInv, StreamTypes, PlaceInv, Lies, ApartInv,
       MarkerInv, AllCalm, Framing!Calm, HeadInv, FarInv, Far, Passed, Returned,
       ChainInv, CleanInv, QuietNoise, Count, EndOf
  <1> QED
    BY <1>1, <1>2 DEF MCNext, mcVars

\* The invariant is enough.
LEMMA FrameInvArrives == FrameInv => FramesArrive
  <1> SUFFICES ASSUME FrameInv PROVE FramesArrive
    OBVIOUS
  <1>1. /\ Len(stream) \in Nat /\ Len(framed) \in Nat /\ Count \in Nat
        /\ framed \in Seq(Written) /\ unframed \in Seq(Written)
        /\ DOMAIN framed = 1..Len(framed) /\ DOMAIN unframed = 1..Count
        /\ hit \in Nat /\ pos \in Nat
    BY FrameFacts
  <1>2. Framing!CleanStream
    <2> SUFFICES ASSUME hit = 0, QuietNoise
                 PROVE  /\ want # "error"
                        /\ Len(unframed) <= Len(framed)
                        /\ unframed = SubSeq(framed, 1, Len(unframed))
                        /\ Framing!Drained => unframed = framed
      BY DEF Framing!CleanStream, QuietNoise
    <2>1. /\ want # "error" /\ Count <= Len(framed)
          /\ \A k \in 1..Count : unframed[k] = framed[k]
          /\ want = "marker" =>
               IF Count = 0 THEN framed # <<>> => pos < framed[1].at
               ELSE pos = EndOf(framed[Count])
      BY DEF FrameInv, CleanInv
    <2>2. unframed = SubSeq(framed, 1, Count)
      <3> DEFINE s == SubSeq(framed, 1, Count)
      <3>1. s \in Seq(Written) /\ Len(s) = Count /\ \A k \in 1..Count : s[k] = framed[k]
        BY <1>1, <2>1
      <3> HIDE DEF s
      <3>2. Len(unframed) = Len(s) /\ \A k \in 1..Len(unframed) : unframed[k] = s[k]
        BY <2>1, <3>1 DEF Count
      <3>3. unframed = s
        BY <1>1, <3>1, <3>2, SameSequence
      <3> QED
        BY <3>3 DEF s
    <2>3. ASSUME Framing!Drained PROVE unframed = framed
      <3>1. want = "marker" /\ pos = Len(stream)
        BY <2>3 DEF Framing!Drained
      <3>2. Count = Len(framed)
        <4>1. CASE Count = 0
          <5>1. SUFFICES ASSUME Len(framed) # 0 PROVE FALSE
            BY <4>1
          <5>2. 1 \in 1..Len(framed) /\ framed # <<>>
            BY <1>1, <5>1
          <5>3. framed[1].at > hit
            BY <5>2, FirstFrame
          <5>4. framed[1].at \in 1..Len(stream)
            BY <5>2, <5>3, LyingFrame
          <5> QED
            BY <1>1, <2>1, <3>1, <4>1, <5>2, <5>4
        <4>2. CASE Count # 0
          <5>1. SUFFICES ASSUME Count # Len(framed) PROVE FALSE
            OBVIOUS
          <5>2. Count \in 1..Len(framed) /\ Count + 1 \in 1..Len(framed)
                /\ Count + 1 <= Len(framed)
            <6>1. Count \in Nat /\ Len(framed) \in Nat /\ Count <= Len(framed)
              BY <1>1, <2>1
            <6> QED
              BY <4>2, <5>1, <6>1
          <5>3. framed[Count + 1].at = Len(stream) + 1
            BY <2>1, <3>1, <4>2, <5>2 DEF FrameInv, ChainInv
          <5>4. framed[Count + 1].at > hit
            BY <1>1, <5>3
          <5>5. framed[Count + 1].at \in 1..Len(stream)
            BY <5>2, <5>4, LyingFrame
          <5> QED
            BY <1>1, <5>3, <5>5
        <4> QED
          BY <4>1, <4>2
      <3>3. Len(unframed) = Len(framed) /\ \A k \in 1..Len(unframed) : unframed[k] = framed[k]
        BY <2>1, <3>2 DEF Count
      <3> QED
        BY <1>1, <3>3, SameSequence
    <2> QED
      BY <2>1, <2>2, <2>3 DEF Count
  <1>3. Framing!DamageBounded
    <2> SUFFICES ASSUME hit # 0, Framing!Drained, AllCalm,
                        NEW k \in 1..Len(framed), framed[k].at > hit + MaxLen + 1
                 PROVE  \E g \in 1..Len(unframed) : unframed[g] = framed[k]
      BY <1>1 DEF Framing!DamageBounded, AllCalm, Count
    <2>1. framed[k].at \in Nat /\ framed[k].at > hit
      BY <1>1, WrittenTypes, MCLinkAssumption DEF FrameInv
    <2>2. framed[k].at \in 1..Len(stream)
      BY <2>1, LyingFrame
    <2>3. want = "marker" /\ framed[k].at <= pos
      BY <1>1, <2>2 DEF Framing!Drained
    <2> QED
      BY <2>3 DEF FrameInv, FarInv, Far, Passed, Returned
  <1> QED
    BY <1>2, <1>3 DEF FramesArrive, Framing!FramesArrive

(* streamframe.go: over an undamaged stream the reader returns the frames  *)
(* that were written, in order and whole, behind noise without a marker;   *)
(* one lost or altered byte costs only frames that begin within a frame's  *)
(* length of it, for calm frames and a reader that has not failed.         *)
THEOREM FramesKept == MCSpec => []FramesArrive
  <1>1. MCInit => FrameInv
    BY StreamInit
  <1>2. FrameInv /\ [MCNext]_mcVars => FrameInv'
    BY StreamStep
  <1>3. FrameInv => FramesArrive
    BY FrameInvArrives
  <1> QED
    BY <1>1, <1>2, <1>3, PTL DEF MCSpec
=============================================================================
