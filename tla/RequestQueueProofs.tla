------------------------- MODULE RequestQueueProofs -------------------------
(***************************************************************************)
(* Theorems about RequestQueue, for any number of callers and requests and *)
(* any buffer capacity.                                                    *)
(***************************************************************************)
EXTENDS RequestQueue, TLAPS

\* The lock: its holder is the only caller inside, and it is the last request.
LockInv ==
  /\ SingleActiveRequest
  /\ sendMu # NoCaller => last >= 1
  /\ \A r \in Requests : r > last => outcome[r] = "none"

\* The read loop handles one frame, and a looked-up waiter is not older than
\* the command the frame answers.
ReaderInv ==
  /\ reader \in {"lookup", "push"} => Len(held) = 1 /\ held[1].req \in 1..last
  /\ reader = "push" => heldW >= 1 /\ held[1].req <= heldW

\* The commands in s are in request order.
InOrder(s) == \A i, j \in 1..Len(s) : i < j => s[i].req < s[j].req

\* The radio has not sent the last frame for any command in s.
Unfinished(s, counts) == \A i \in 1..Len(s) : counts[s[i].req] <= MaxItems

\* Commands reach the radio in request order, and it has not finished
\* answering those it still holds.
RadioInv ==
  /\ BelongUpTo(cmds, last)
  /\ InOrder(cmds)
  /\ Unfinished(cmds, sent)
  /\ \A c \in Callers :
       pc[c] = "sending" => sent[last] = 0 /\ BelongUpTo(cmds, last - 1)
  /\ \A r \in Requests : r > last => sent[r] = 0

\* No frame answers a command that has not been sent.
CausalInv == BelongUpTo(wire, last) /\ NoFutureResponse

\* The inductive invariant.
IInv == TypeOK /\ LockInv /\ ReaderInv /\ RadioInv /\ CausalInv

\* The initial state satisfies the inductive invariant.
LEMMA InitIInv == Init => IInv
  <1> SUFFICES ASSUME Init PROVE IInv
    OBVIOUS
  <1> USE RequestQueueAssumption DEF Init, Requests, NoWaiter
  <1>1. TypeOK
    BY DEF TypeOK, CallTypes, QueueTypes, ReadTypes, RadioTypes, HistoryTypes,
           Outcomes
  <1>2. LockInv
    BY DEF LockInv, SingleActiveRequest
  <1>3. ReaderInv /\ RadioInv /\ CausalInv
    BY DEF ReaderInv, RadioInv, CausalInv, NoFutureResponse, BelongUpTo,
           InOrder, Unfinished
  <1> QED
    BY <1>1, <1>2, <1>3 DEF IInv

CommandSet == [req: Requests, kind: {"single", "stream"}]

\* What taking the head off a sequence does to the predicates above.
LEMMA TailFacts ==
  ASSUME NEW S, NEW s \in Seq(S), s # <<>>
  PROVE  /\ Head(s) \in S
         /\ Head(s) = s[1]
         /\ Tail(s) \in Seq(S)
         /\ Len(Tail(s)) = Len(s) - 1
         /\ Len(s) \in Nat \ {0}
         /\ \A m : BelongUpTo(s, m) =>
              BelongUpTo(Tail(s), m) /\ Head(s).req \in 1..m
         /\ InOrder(s) => InOrder(Tail(s))
         /\ \A t : Unfinished(s, t) =>
              Unfinished(Tail(s), t) /\ t[Head(s).req] <= MaxItems
  BY DEF BelongUpTo, InOrder, Unfinished

\* What appending an element does to them.
LEMMA AppendFacts ==
  ASSUME NEW S, NEW s \in Seq(S), NEW e \in S
  PROVE  /\ Append(s, e) \in Seq(S)
         /\ Len(Append(s, e)) = Len(s) + 1
         /\ \A m : BelongUpTo(s, m) /\ e.req \in 1..m =>
              BelongUpTo(Append(s, e), m)
         /\ \A t : Unfinished(s, t) /\ t[e.req] <= MaxItems =>
              Unfinished(Append(s, e), t)
         /\ e.req \in Nat /\ InOrder(s) /\ BelongUpTo(s, e.req - 1) =>
              InOrder(Append(s, e))
  BY SMTT(30) DEF BelongUpTo, InOrder, Unfinished

\* A larger bound is weaker.
LEMMA UpToMono ==
  ASSUME NEW S, NEW s \in Seq(S), NEW m \in Nat, NEW k \in Nat, m <= k,
         BelongUpTo(s, m)
  PROVE  BelongUpTo(s, k)
  BY DEF BelongUpTo

\* Sending one more frame for the first command leaves the others alone.
LEMMA AnswerKeepsRest ==
  ASSUME NEW s \in Seq(CommandSet), s # <<>>, InOrder(s),
         NEW t \in [Requests -> Nat], Unfinished(s, t), NEW v \in Nat
  PROVE  Unfinished(Tail(s), [t EXCEPT ![Head(s).req] = v])
  <1>1. s[1] \in CommandSet /\ Head(s) = s[1] /\ 1 \in 1..Len(s)
    OBVIOUS
  <1>2. ASSUME NEW i \in 1..Len(Tail(s))
        PROVE  [t EXCEPT ![Head(s).req] = v][Tail(s)[i].req] <= MaxItems
    <2>1. Tail(s)[i] = s[i + 1] /\ i + 1 \in 1..Len(s) /\ i + 1 > 1
      OBVIOUS
    <2>2. s[i + 1] \in CommandSet
      BY <2>1
    <2>3. s[1].req < s[i + 1].req /\ s[1].req \in Nat /\ s[i + 1].req \in Requests
      BY <1>1, <2>1, <2>2 DEF InOrder, CommandSet, Requests
    <2>4. t[s[i + 1].req] <= MaxItems
      BY <2>1 DEF Unfinished
    <2> QED
      BY <1>1, <2>1, <2>3, <2>4
  <1> QED
    BY <1>2 DEF Unfinished

\* A counter below its bound can be incremented.
LEMMA CountStaysTyped ==
  ASSUME NEW t \in [Requests -> 0..(MaxItems + 1)], NEW r \in Requests,
         t[r] \in 0..MaxItems
  PROVE  [t EXCEPT ![r] = t[r] + 1] \in [Requests -> 0..(MaxItems + 1)]
  BY RequestQueueAssumption

\* An item that is not the last one leaves every command unfinished.
LEMMA ItemKeepsUnfinished ==
  ASSUME NEW s \in Seq(CommandSet), NEW t \in [Requests -> Nat], Unfinished(s, t),
         NEW r \in Requests, NEW v \in Nat, v <= MaxItems
  PROVE  Unfinished(s, [t EXCEPT ![r] = v])
  <1>1. \A i \in 1..Len(s) : s[i] \in CommandSet
    OBVIOUS
  <1>2. \A i \in 1..Len(s) : s[i].req \in Requests
    BY <1>1 DEF CommandSet
  <1> QED
    BY <1>2 DEF Unfinished

\* Whoever is inside the lock owns the last request and its waiter.
LEMMA HolderFacts ==
  ASSUME IInv, NEW c \in Callers, pc[c] \in {"sending", "waiting"}
  PROVE  last \in Requests /\ sendMu = c /\ waiter = last /\ c # NoCaller
  BY RequestQueueAssumption
  DEF IInv, TypeOK, QueueTypes, LockInv, SingleActiveRequest, Requests, NoWaiter

\* Every step preserves the inductive invariant.
LEMMA StepIInv == IInv /\ [Next]_vars => IInv'
  <1> SUFFICES ASSUME IInv, [Next]_vars PROVE IInv'
    OBVIOUS
  <1> USE RequestQueueAssumption DEF IInv, TypeOK, Requests, NoWaiter
  <1>1. ASSUME NEW c \in Callers, NEW k \in {"single", "stream"}, Call(c, k)
       PROVE  IInv'
    <2>1. CallTypes'
      BY <1>1
      DEF Call, callVars, CallTypes
    <2>2. LockInv'
      BY <1>1
      DEF Call, callVars, queueVars, histVars, LockInv, SingleActiveRequest,
          CallTypes
    <2>3. RadioInv'
      BY <1>1
      DEF Call, callVars, queueVars, radioVars, RadioInv, CallTypes
    <2>4. QueueTypes' /\ ReadTypes' /\ RadioTypes' /\ HistoryTypes' /\
         ReaderInv' /\ CausalInv'
      BY <1>1
      DEF Call, queueVars, readVars, radioVars, histVars, QueueTypes,
          ReadTypes, RadioTypes, HistoryTypes, ReaderInv, CausalInv,
          NoFutureResponse
    <2> QED
      BY <2>1, <2>2, <2>3, <2>4
  <1>2. ASSUME NEW c \in Callers, Expire(c)
       PROVE  IInv'
    <2>1. CallTypes'
      BY <1>2
      DEF Expire, callVars, CallTypes
    <2>2. QueueTypes' /\ ReadTypes' /\ RadioTypes' /\ HistoryTypes' /\
         LockInv' /\ ReaderInv' /\ RadioInv' /\ CausalInv'
      BY <1>2
      DEF Expire, queueVars, readVars, radioVars, histVars, callVars,
          QueueTypes, ReadTypes, RadioTypes, HistoryTypes, LockInv,
          SingleActiveRequest, ReaderInv, RadioInv, CausalInv,
          NoFutureResponse
    <2> QED
      BY <2>1, <2>2
  <1>3. ASSUME NEW c \in Callers, Acquire(c)
       PROVE  IInv'
    <2>1. last' = last + 1 /\ last \in Nat /\ last' \in Requests
      BY <1>3
      DEF Acquire, QueueTypes
    <2>2. /\ BelongUpTo(cmds, last') /\ BelongUpTo(wire, last')
          /\ BelongUpTo(cmds, last' - 1)
      BY <1>3, <2>1, UpToMono
      DEF RadioTypes, RadioInv, CausalInv
    <2>3. CallTypes'
      BY <1>3
      DEF Acquire, callVars, CallTypes
    <2>4. QueueTypes'
      BY <1>3, <2>1
      DEF Acquire, queueVars, QueueTypes
    <2>5. LockInv'
      BY <1>3, <2>1
      DEF Acquire, callVars, queueVars, histVars, LockInv,
          SingleActiveRequest, CallTypes, QueueTypes
    <2>6. ReaderInv'
      BY <1>3, <2>1
      DEF Acquire, readVars, queueVars, ReaderInv
    <2>7. RadioInv'
      BY <1>3, <2>1, <2>2
      DEF Acquire, callVars, queueVars, radioVars, RadioInv, CallTypes,
          LockInv, SingleActiveRequest
    <2>8. CausalInv'
      BY <1>3, <2>2
      DEF Acquire, queueVars, radioVars, histVars, CausalInv, NoFutureResponse
    <2>9. ReadTypes' /\ RadioTypes' /\ HistoryTypes'
      BY <1>3
      DEF Acquire, readVars, radioVars, histVars, ReadTypes, RadioTypes,
          HistoryTypes
    <2> QED
      BY <2>3, <2>4, <2>5, <2>6, <2>7, <2>8, <2>9
  <1>4. ASSUME NEW c \in Callers, Send(c)
       PROVE  IInv'
    <2>1. last \in Requests /\ sendMu = c /\ waiter = last /\ c # NoCaller
      BY <1>4, HolderFacts
      DEF Send
    <2>2. Command(c) \in CommandSet /\ Command(c).req = last
      BY <1>4, <2>1
      DEF Command, CallTypes, CommandSet
    <2>3. /\ cmds \in Seq(CommandSet)
          /\ sent[last] = 0 /\ BelongUpTo(cmds, last - 1)
      BY <1>4
      DEF Send, RadioTypes, RadioInv, CommandSet
    <2>4. /\ Append(cmds, Command(c)) \in Seq(CommandSet)
          /\ BelongUpTo(Append(cmds, Command(c)), last)
          /\ InOrder(Append(cmds, Command(c)))
          /\ Unfinished(Append(cmds, Command(c)), sent)
      BY <1>4, <2>1, <2>2, <2>3, AppendFacts
      DEF RadioInv
    <2>5. CallTypes'
      BY <1>4
      DEF Send, callVars, CallTypes
    <2>6. RadioTypes'
      BY <1>4, <2>4
      DEF Send, radioVars, RadioTypes, CommandSet
    <2>7. LockInv'
      BY <1>4, <2>1
      DEF Send, callVars, queueVars, histVars, LockInv, SingleActiveRequest,
          CallTypes
    <2>8. RadioInv'
      BY <1>4, <2>1, <2>4
      DEF Send, callVars, queueVars, radioVars, RadioInv, CallTypes, LockInv,
          SingleActiveRequest
    <2>9. QueueTypes' /\ ReadTypes' /\ HistoryTypes' /\ ReaderInv' /\
         CausalInv'
      BY <1>4
      DEF Send, queueVars, readVars, histVars, radioVars, QueueTypes,
          ReadTypes, HistoryTypes, ReaderInv, CausalInv, NoFutureResponse
    <2> QED
      BY <2>5, <2>6, <2>7, <2>8, <2>9
  <1>5. ASSUME NEW c \in Callers, SendErr(c)
       PROVE  IInv'
    <2>1. last \in Requests /\ sendMu = c /\ waiter = last /\ c # NoCaller
      BY <1>5, HolderFacts
      DEF SendErr
    <2>2. Command(c) \in CommandSet /\ Command(c).req = last
      BY <1>5, <2>1
      DEF Command, CallTypes, CommandSet
    <2>3. /\ cmds \in Seq(CommandSet)
          /\ sent[last] = 0 /\ BelongUpTo(cmds, last - 1)
      BY <1>5
      DEF SendErr, RadioTypes, RadioInv, CommandSet
    <2>4. /\ Append(cmds, Command(c)) \in Seq(CommandSet)
          /\ BelongUpTo(Append(cmds, Command(c)), last)
          /\ InOrder(Append(cmds, Command(c)))
          /\ Unfinished(Append(cmds, Command(c)), sent)
      BY <1>5, <2>1, <2>2, <2>3, AppendFacts
      DEF RadioInv
    <2>5. CallTypes'
      BY <1>5
      DEF SendErr, Return, callVars, CallTypes
    <2>6. QueueTypes'
      BY <1>5, <2>1
      DEF SendErr, Return, queueVars, QueueTypes
    <2>7. HistoryTypes'
      BY <1>5, <2>1
      DEF SendErr, Return, histVars, HistoryTypes, Outcomes
    <2>8. LockInv'
      BY <1>5, <2>1
      DEF SendErr, Return, callVars, queueVars, histVars, LockInv,
          SingleActiveRequest, CallTypes, QueueTypes, HistoryTypes, Outcomes
    <2>9. RadioTypes'
      BY <1>5, <2>4
      DEF SendErr, Return, radioVars, RadioTypes, CommandSet
    <2>10. RadioInv'
      BY <1>5, <2>1, <2>4
      DEF SendErr, Return, callVars, queueVars, radioVars, RadioInv,
          CallTypes, LockInv, SingleActiveRequest
    <2>11. ReadTypes' /\ ReaderInv' /\ CausalInv'
      BY <1>5
      DEF SendErr, Return, readVars, queueVars, radioVars, histVars,
          ReadTypes, ReaderInv, CausalInv, NoFutureResponse
    <2> QED
      BY <2>5, <2>6, <2>7, <2>8, <2>9, <2>10, <2>11
  <1>6. ASSUME NEW c \in Callers, Collect(c)
       PROVE  IInv'
    <2>1. last \in Requests /\ sendMu = c /\ waiter = last /\ c # NoCaller
      BY <1>6, HolderFacts
      DEF Collect
    <2>2. /\ box[last] \in Seq(Frame) /\ box[last] # <<>>
          /\ got[last] \in Seq(Frame)
      BY <1>6, <2>1
      DEF Collect, QueueTypes, HistoryTypes
    <2>3. /\ Head(box[last]) \in Frame /\ Head(box[last]).req \in 1..last
          /\ Tail(box[last]) \in Seq(Frame)
          /\ Len(Tail(box[last])) <= Len(box[last])
          /\ BelongUpTo(Tail(box[last]), last)
      BY <1>6, <2>1, <2>2, TailFacts
      DEF CausalInv, NoFutureResponse
    <2>4. /\ Append(got[last], Head(box[last])) \in Seq(Frame)
          /\ BelongUpTo(Append(got[last], Head(box[last])), last)
      BY <1>6, <2>1, <2>2, <2>3, AppendFacts
      DEF CausalInv, NoFutureResponse
    <2>5. Completes(kind[c], Head(box[last])) => Return(c, "done") /\ last' = last
      BY <1>6
      DEF Collect
    <2>6. Return(c, "done") /\ last' = last => LockInv'
      BY <1>6, <2>1
      DEF Return, LockInv, SingleActiveRequest, CallTypes, QueueTypes,
          HistoryTypes
    <2>7. ~Completes(kind[c], Head(box[last])) => LockInv'
      BY <1>6, <2>1
      DEF Collect, LockInv, SingleActiveRequest, callVars
    <2>8. CallTypes'
      BY <1>6
      DEF Collect, Return, callVars, CallTypes
    <2>9. QueueTypes'
      BY <1>6, <2>1, <2>3
      DEF Collect, Return, queueVars, QueueTypes
    <2>10. HistoryTypes'
      BY <1>6, <2>1, <2>4
      DEF Collect, Return, histVars, HistoryTypes, Outcomes
    <2>11. LockInv'
      BY <1>6, <2>5, <2>6, <2>7
      DEF Collect, Return, callVars, queueVars, histVars, LockInv,
          SingleActiveRequest
    <2>12. RadioInv'
      BY <1>6, <2>1
      DEF Collect, Return, callVars, queueVars, radioVars, RadioInv, CallTypes
    <2>13. CausalInv'
      BY <1>6, <2>1, <2>3, <2>4
      DEF Collect, Return, queueVars, radioVars, histVars, CausalInv,
          NoFutureResponse, QueueTypes, HistoryTypes
    <2>14. ReadTypes' /\ RadioTypes' /\ ReaderInv'
      BY <1>6
      DEF Collect, Return, readVars, radioVars, queueVars, ReadTypes,
          RadioTypes, ReaderInv
    <2> QED
      BY <2>8, <2>9, <2>10, <2>11, <2>12, <2>13, <2>14
  <1>7. ASSUME NEW c \in Callers, OverflowReturn(c)
       PROVE  IInv'
    <2>1. last \in Requests /\ sendMu = c /\ waiter = last /\ c # NoCaller
      BY <1>7, HolderFacts
      DEF OverflowReturn
    <2>2. CallTypes'
      BY <1>7
      DEF OverflowReturn, Return, callVars, CallTypes
    <2>3. QueueTypes'
      BY <1>7, <2>1
      DEF OverflowReturn, Return, queueVars, QueueTypes
    <2>4. HistoryTypes'
      BY <1>7, <2>1
      DEF OverflowReturn, Return, histVars, HistoryTypes, Outcomes
    <2>5. LockInv'
      BY <1>7, <2>1
      DEF OverflowReturn, Return, callVars, queueVars, histVars, LockInv,
          SingleActiveRequest, CallTypes, QueueTypes, HistoryTypes, Outcomes
    <2>6. RadioInv'
      BY <1>7, <2>1
      DEF OverflowReturn, Return, callVars, queueVars, radioVars, RadioInv,
          CallTypes
    <2>7. ReadTypes' /\ RadioTypes' /\ ReaderInv' /\ CausalInv'
      BY <1>7
      DEF OverflowReturn, Return, readVars, radioVars, queueVars, histVars,
          ReadTypes, RadioTypes, ReaderInv, CausalInv, NoFutureResponse
    <2> QED
      BY <2>2, <2>3, <2>4, <2>5, <2>6, <2>7
  <1>8. ASSUME NEW c \in Callers, CtxReturn(c)
       PROVE  IInv'
    <2>1. last \in Requests /\ sendMu = c /\ waiter = last /\ c # NoCaller
      BY <1>8, HolderFacts
      DEF CtxReturn
    <2>2. CallTypes'
      BY <1>8
      DEF CtxReturn, Return, callVars, CallTypes
    <2>3. QueueTypes'
      BY <1>8, <2>1
      DEF CtxReturn, Return, queueVars, QueueTypes
    <2>4. HistoryTypes'
      BY <1>8, <2>1
      DEF CtxReturn, Return, histVars, HistoryTypes, Outcomes
    <2>5. LockInv'
      BY <1>8, <2>1
      DEF CtxReturn, Return, callVars, queueVars, histVars, LockInv,
          SingleActiveRequest, CallTypes, QueueTypes, HistoryTypes, Outcomes
    <2>6. RadioInv'
      BY <1>8, <2>1
      DEF CtxReturn, Return, callVars, queueVars, radioVars, RadioInv,
          CallTypes
    <2>7. ReadTypes' /\ RadioTypes' /\ ReaderInv' /\ CausalInv'
      BY <1>8
      DEF CtxReturn, Return, readVars, radioVars, queueVars, histVars,
          ReadTypes, RadioTypes, ReaderInv, CausalInv, NoFutureResponse
    <2> QED
      BY <2>2, <2>3, <2>4, <2>5, <2>6, <2>7
  <1>9. CASE ReadFrame
    <2>1. wire \in Seq(Frame) /\ wire # <<>>
      BY <1>9
      DEF ReadFrame, RadioTypes
    <2>2. /\ Head(wire) \in Frame /\ Tail(wire) \in Seq(Frame)
          /\ Head(wire).req \in 1..last /\ BelongUpTo(Tail(wire), last)
      BY <1>9, <2>1, TailFacts
      DEF CausalInv
    <2>3. /\ held' = <<Head(wire)>> /\ held' \in Seq(Frame)
          /\ held'[1] = Head(wire) /\ Len(held') = 1
      BY <1>9, <2>2
      DEF ReadFrame
    <2>4. ReadTypes'
      BY <1>9, <2>3
      DEF ReadFrame, readVars, ReadTypes
    <2>5. RadioTypes'
      BY <1>9, <2>2
      DEF ReadFrame, radioVars, RadioTypes
    <2>6. ReaderInv'
      BY <1>9, <2>2, <2>3
      DEF ReadFrame, readVars, queueVars, ReaderInv
    <2>7. CausalInv'
      BY <1>9, <2>2
      DEF ReadFrame, queueVars, radioVars, histVars, CausalInv,
          NoFutureResponse
    <2>8. CallTypes' /\ QueueTypes' /\ HistoryTypes' /\ LockInv' /\ RadioInv'
      BY <1>9
      DEF ReadFrame, callVars, queueVars, histVars, radioVars, CallTypes,
          QueueTypes, HistoryTypes, LockInv, SingleActiveRequest, RadioInv
    <2> QED
      BY <2>4, <2>5, <2>6, <2>7, <2>8
  <1>10. CASE DecodeError
    <2>1. held \in Seq(Frame) /\ Len(held) = 1
      BY <1>10
      DEF DecodeError, ReadTypes, ReaderInv
    <2>2. held[1] \in Frame
      BY <1>10, <2>1
    <2>3. held[1].req \in Requests
      BY <1>10, <2>2
      DEF Frame
    <2>4. held' = <<>> /\ held' \in Seq(Frame)
      BY <1>10
      DEF DecodeError
    <2>5. ReadTypes'
      BY <1>10, <2>4
      DEF DecodeError, readVars, ReadTypes
    <2>6. HistoryTypes'
      BY <1>10, <2>3
      DEF DecodeError, histVars, HistoryTypes
    <2>7. ReaderInv'
      BY <1>10
      DEF DecodeError, readVars, queueVars, ReaderInv
    <2>8. CallTypes' /\ QueueTypes' /\ RadioTypes' /\ LockInv' /\ RadioInv' /\
         CausalInv'
      BY <1>10
      DEF DecodeError, callVars, queueVars, radioVars, histVars, CallTypes,
          QueueTypes, RadioTypes, LockInv, SingleActiveRequest, RadioInv,
          CausalInv, NoFutureResponse
    <2> QED
      BY <2>5, <2>6, <2>7, <2>8
  <1>11. CASE DeliverLookup
    <2>1. ReadTypes'
      BY <1>11
      DEF DeliverLookup, readVars, ReadTypes, QueueTypes
    <2>2. ReaderInv'
      BY <1>11
      DEF DeliverLookup, readVars, queueVars, ReaderInv, LockInv,
          SingleActiveRequest, QueueTypes
    <2>3. CallTypes' /\ QueueTypes' /\ RadioTypes' /\ HistoryTypes' /\
         LockInv' /\ RadioInv' /\ CausalInv'
      BY <1>11
      DEF DeliverLookup, callVars, queueVars, radioVars, histVars, CallTypes,
          QueueTypes, RadioTypes, HistoryTypes, LockInv, SingleActiveRequest,
          RadioInv, CausalInv, NoFutureResponse
    <2> QED
      BY <2>1, <2>2, <2>3
  <1>12. CASE DeliverUnmatched
    <2>1. held' = <<>> /\ held' \in Seq(Frame)
      BY <1>12
      DEF DeliverUnmatched
    <2>2. ReadTypes'
      BY <1>12, <2>1
      DEF DeliverUnmatched, readVars, ReadTypes
    <2>3. ReaderInv'
      BY <1>12
      DEF DeliverUnmatched, readVars, queueVars, ReaderInv
    <2>4. CallTypes' /\ QueueTypes' /\ RadioTypes' /\ HistoryTypes' /\
         LockInv' /\ RadioInv' /\ CausalInv'
      BY <1>12
      DEF DeliverUnmatched, callVars, queueVars, radioVars, histVars,
          CallTypes, QueueTypes, RadioTypes, HistoryTypes, LockInv,
          SingleActiveRequest, RadioInv, CausalInv, NoFutureResponse
    <2> QED
      BY <2>2, <2>3, <2>4
  <1>13. CASE DeliverPush
    <2>1. held \in Seq(Frame) /\ Len(held) = 1
      BY <1>13
      DEF DeliverPush, ReadTypes, ReaderInv
    <2>2. held[1] \in Frame
      BY <1>13, <2>1
    <2>3. held' = <<>> /\ held' \in Seq(Frame)
      BY <1>13
      DEF DeliverPush
    <2>4. heldW \in Requests /\ held[1].req \in 1..heldW
      BY <1>13
      DEF DeliverPush, ReadTypes, ReaderInv
    <2>5. /\ box[heldW] \in Seq(Frame) /\ Len(box[heldW]) \in Nat
          /\ Len(box[heldW]) < StreamBuffer
      BY <1>13, <2>4
      DEF DeliverPush, QueueTypes
    <2>6. /\ Append(box[heldW], held[1]) \in Seq(Frame)
          /\ Len(Append(box[heldW], held[1])) <= StreamBuffer
          /\ BelongUpTo(Append(box[heldW], held[1]), heldW)
      BY <1>13, <2>2, <2>4, <2>5, AppendFacts
      DEF CausalInv, NoFutureResponse
    <2>7. QueueTypes'
      BY <1>13, <2>4, <2>6
      DEF DeliverPush, queueVars, QueueTypes
    <2>8. ReadTypes'
      BY <1>13, <2>3
      DEF DeliverPush, readVars, ReadTypes
    <2>9. ReaderInv'
      BY <1>13
      DEF DeliverPush, readVars, queueVars, ReaderInv
    <2>10. CausalInv'
      BY <1>13, <2>4, <2>6
      DEF DeliverPush, queueVars, radioVars, histVars, CausalInv,
          NoFutureResponse, QueueTypes
    <2>11. CallTypes' /\ RadioTypes' /\ HistoryTypes' /\ LockInv' /\ RadioInv'
      BY <1>13
      DEF DeliverPush, callVars, radioVars, histVars, queueVars, CallTypes,
          RadioTypes, HistoryTypes, LockInv, SingleActiveRequest, RadioInv
    <2> QED
      BY <2>7, <2>8, <2>9, <2>10, <2>11
  <1>14. CASE DeliverOverflow
    <2>1. held' = <<>> /\ held' \in Seq(Frame)
      BY <1>14
      DEF DeliverOverflow
    <2>2. heldW \in Requests
      BY <1>14
      DEF DeliverOverflow, ReadTypes, ReaderInv
    <2>3. QueueTypes'
      BY <1>14, <2>2
      DEF DeliverOverflow, queueVars, QueueTypes
    <2>4. ReadTypes'
      BY <1>14, <2>1
      DEF DeliverOverflow, readVars, ReadTypes
    <2>5. ReaderInv'
      BY <1>14
      DEF DeliverOverflow, readVars, queueVars, ReaderInv
    <2>6. CallTypes' /\ RadioTypes' /\ HistoryTypes' /\ LockInv' /\ RadioInv'
         /\ CausalInv'
      BY <1>14
      DEF DeliverOverflow, callVars, radioVars, histVars, queueVars,
          CallTypes, RadioTypes, HistoryTypes, LockInv, SingleActiveRequest,
          RadioInv, CausalInv, NoFutureResponse
    <2> QED
      BY <2>3, <2>4, <2>5, <2>6
  <1>15. CASE ReadError
    <2>1. ReadTypes'
      BY <1>15
      DEF ReadError, readVars, ReadTypes
    <2>2. ReaderInv'
      BY <1>15
      DEF ReadError, readVars, queueVars, ReaderInv
    <2>3. CallTypes' /\ QueueTypes' /\ RadioTypes' /\ HistoryTypes' /\
         LockInv' /\ RadioInv' /\ CausalInv'
      BY <1>15
      DEF ReadError, callVars, queueVars, radioVars, histVars, CallTypes,
          QueueTypes, RadioTypes, HistoryTypes, LockInv, SingleActiveRequest,
          RadioInv, CausalInv, NoFutureResponse
    <2> QED
      BY <2>1, <2>2, <2>3
  <1>16. CASE Close
    <2>1. ReadTypes'
      BY <1>16
      DEF Close, readVars, ReadTypes
    <2>2. CallTypes' /\ QueueTypes' /\ RadioTypes' /\ HistoryTypes' /\
         LockInv' /\ ReaderInv' /\ RadioInv' /\ CausalInv'
      BY <1>16
      DEF Close, callVars, queueVars, radioVars, histVars, readVars,
          CallTypes, QueueTypes, RadioTypes, HistoryTypes, LockInv,
          SingleActiveRequest, ReaderInv, RadioInv, CausalInv,
          NoFutureResponse
    <2> QED
      BY <2>1, <2>2
  <1>17. CASE RadioItem
    <2>1. cmds \in Seq(CommandSet) /\ cmds # <<>>
      BY <1>17
      DEF RadioItem, RadioTypes, CommandSet
    <2>2. /\ Head(cmds) \in CommandSet /\ Head(cmds).req \in 1..last
          /\ sent[Head(cmds).req] <= MaxItems
      BY <1>17, <2>1, TailFacts
      DEF RadioInv
    <2>3. Head(cmds).req \in Requests
      BY <1>17, <2>2
      DEF CommandSet
    <2>4. sent[Head(cmds).req] \in 0..MaxItems
      BY <1>17, <2>2, <2>3
      DEF RadioTypes
    <2>5. sent' = [sent EXCEPT ![Head(cmds).req] = sent[Head(cmds).req] + 1]
      BY <1>17
      DEF RadioItem, Answer
    <2>6. sent' \in [Requests -> 0..(MaxItems + 1)]
      BY <1>17, <2>3, <2>4, <2>5, CountStaysTyped
      DEF RadioTypes
    <2>7. PICK f \in Frame : f.req = Head(cmds).req /\ wire' = Append(wire, f)
      BY <1>17, <2>3, <2>4, SMTT(30)
      DEF RadioItem, Answer, Frame, FrameTypes
    <2>8. wire' \in Seq(Frame) /\ BelongUpTo(wire', last)
      BY <1>17, <2>2, <2>7, AppendFacts
      DEF RadioTypes, CausalInv
    <2>9. cmds' = cmds
      BY <1>17
      DEF RadioItem
    <2>10. /\ \A m : BelongUpTo(cmds, m) =>
                Head(cmds).req \in 1..m
      BY <1>17, <2>1, TailFacts
      DEF RadioInv
    <2>11. sent \in [Requests -> Nat] /\ sent[Head(cmds).req] + 1 <= MaxItems
      BY <1>17, <2>4, SMTT(30)
      DEF RadioItem, RadioTypes
    <2>12. sent[Head(cmds).req] + 1 \in Nat
      BY <1>17, <2>4
    <2>13. Unfinished(cmds,
                       [sent EXCEPT ![Head(cmds).req] = sent[Head(cmds).req] + 1])
      BY <1>17, <2>1, <2>3, <2>11, <2>12, ItemKeepsUnfinished
      DEF RadioInv
    <2>14. Unfinished(cmds', sent')
      BY <1>17, <2>5, <2>9, <2>13
    <2>15. RadioTypes'
      BY <1>17, <2>1, <2>6, <2>8, <2>9, <2>10
      DEF RadioItem, Answer, radioVars, RadioTypes, CommandSet
    <2>16. RadioInv'
      BY <1>17, <2>2, <2>3, <2>5, <2>6, <2>9, <2>10, <2>14, HolderFacts, SMTT(30)
      DEF RadioItem, Answer, callVars, queueVars, radioVars, RadioInv,
          QueueTypes
    <2>17. CausalInv'
      BY <1>17, <2>8
      DEF RadioItem, Answer, queueVars, radioVars, histVars, CausalInv,
          NoFutureResponse
    <2>18. CallTypes' /\ QueueTypes' /\ ReadTypes' /\ HistoryTypes' /\
         LockInv' /\ ReaderInv'
      BY <1>17
      DEF RadioItem, Answer, callVars, queueVars, readVars, histVars,
          CallTypes, QueueTypes, ReadTypes, HistoryTypes, LockInv,
          SingleActiveRequest, ReaderInv
    <2> QED
      BY <2>15, <2>16, <2>17, <2>18
  <1>18. CASE RadioLast
    <2>1. cmds \in Seq(CommandSet) /\ cmds # <<>>
      BY <1>18
      DEF RadioLast, RadioTypes, CommandSet
    <2>2. /\ Head(cmds) \in CommandSet /\ Head(cmds).req \in 1..last
          /\ sent[Head(cmds).req] <= MaxItems
      BY <1>18, <2>1, TailFacts
      DEF RadioInv
    <2>3. Head(cmds).req \in Requests
      BY <1>18, <2>2
      DEF CommandSet
    <2>4. sent[Head(cmds).req] \in 0..MaxItems
      BY <1>18, <2>2, <2>3
      DEF RadioTypes
    <2>5. sent' = [sent EXCEPT ![Head(cmds).req] = sent[Head(cmds).req] + 1]
      BY <1>18
      DEF RadioLast, Answer
    <2>6. sent' \in [Requests -> 0..(MaxItems + 1)]
      BY <1>18, <2>3, <2>4, <2>5, CountStaysTyped
      DEF RadioTypes
    <2>7. PICK f \in Frame : f.req = Head(cmds).req /\ wire' = Append(wire, f)
      BY <1>18, <2>3, <2>4, SMTT(30)
      DEF RadioLast, Answer, Frame, FrameTypes
    <2>8. wire' \in Seq(Frame) /\ BelongUpTo(wire', last)
      BY <1>18, <2>2, <2>7, AppendFacts
      DEF RadioTypes, CausalInv
    <2>9. cmds' = Tail(cmds)
      BY <1>18
      DEF RadioLast
    <2>10. /\ Tail(cmds) \in Seq(CommandSet) /\ InOrder(Tail(cmds))
           /\ \A m : BelongUpTo(cmds, m) =>
                BelongUpTo(Tail(cmds), m) /\ Head(cmds).req \in 1..m
      BY <1>18, <2>1, TailFacts
      DEF RadioInv
    <2>11. sent \in [Requests -> Nat]
      BY <1>18
      DEF RadioTypes
    <2>12. sent[Head(cmds).req] + 1 \in Nat
      BY <1>18, <2>4
    <2>13. Unfinished(Tail(cmds),
                       [sent EXCEPT ![Head(cmds).req] = sent[Head(cmds).req] + 1])
      BY <1>18, <2>1, <2>11, <2>12, AnswerKeepsRest
      DEF RadioInv
    <2>14. Unfinished(cmds', sent')
      BY <1>18, <2>5, <2>9, <2>13
    <2>15. RadioTypes'
      BY <1>18, <2>1, <2>6, <2>8, <2>9, <2>10
      DEF RadioLast, Answer, radioVars, RadioTypes, CommandSet
    <2>16. RadioInv'
      BY <1>18, <2>2, <2>3, <2>5, <2>6, <2>9, <2>10, <2>14, HolderFacts, SMTT(30)
      DEF RadioLast, Answer, callVars, queueVars, radioVars, RadioInv,
          QueueTypes
    <2>17. CausalInv'
      BY <1>18, <2>8
      DEF RadioLast, Answer, queueVars, radioVars, histVars, CausalInv,
          NoFutureResponse
    <2>18. CallTypes' /\ QueueTypes' /\ ReadTypes' /\ HistoryTypes' /\
         LockInv' /\ ReaderInv'
      BY <1>18
      DEF RadioLast, Answer, callVars, queueVars, readVars, histVars,
          CallTypes, QueueTypes, ReadTypes, HistoryTypes, LockInv,
          SingleActiveRequest, ReaderInv
    <2> QED
      BY <2>15, <2>16, <2>17, <2>18
  <1>19. CASE RadioErr
    <2>1. cmds \in Seq(CommandSet) /\ cmds # <<>>
      BY <1>19
      DEF RadioErr, RadioTypes, CommandSet
    <2>2. /\ Head(cmds) \in CommandSet /\ Head(cmds).req \in 1..last
          /\ sent[Head(cmds).req] <= MaxItems
      BY <1>19, <2>1, TailFacts
      DEF RadioInv
    <2>3. Head(cmds).req \in Requests
      BY <1>19, <2>2
      DEF CommandSet
    <2>4. sent[Head(cmds).req] \in 0..MaxItems
      BY <1>19, <2>2, <2>3
      DEF RadioTypes
    <2>5. sent' = [sent EXCEPT ![Head(cmds).req] = sent[Head(cmds).req] + 1]
      BY <1>19
      DEF RadioErr, Answer
    <2>6. sent' \in [Requests -> 0..(MaxItems + 1)]
      BY <1>19, <2>3, <2>4, <2>5, CountStaysTyped
      DEF RadioTypes
    <2>7. PICK f \in Frame : f.req = Head(cmds).req /\ wire' = Append(wire, f)
      BY <1>19, <2>3, <2>4, SMTT(30)
      DEF RadioErr, Answer, Frame, FrameTypes
    <2>8. wire' \in Seq(Frame) /\ BelongUpTo(wire', last)
      BY <1>19, <2>2, <2>7, AppendFacts
      DEF RadioTypes, CausalInv
    <2>9. cmds' = Tail(cmds)
      BY <1>19
      DEF RadioErr
    <2>10. /\ Tail(cmds) \in Seq(CommandSet) /\ InOrder(Tail(cmds))
           /\ \A m : BelongUpTo(cmds, m) =>
                BelongUpTo(Tail(cmds), m) /\ Head(cmds).req \in 1..m
      BY <1>19, <2>1, TailFacts
      DEF RadioInv
    <2>11. sent \in [Requests -> Nat]
      BY <1>19
      DEF RadioTypes
    <2>12. sent[Head(cmds).req] + 1 \in Nat
      BY <1>19, <2>4
    <2>13. Unfinished(Tail(cmds),
                       [sent EXCEPT ![Head(cmds).req] = sent[Head(cmds).req] + 1])
      BY <1>19, <2>1, <2>11, <2>12, AnswerKeepsRest
      DEF RadioInv
    <2>14. Unfinished(cmds', sent')
      BY <1>19, <2>5, <2>9, <2>13
    <2>15. RadioTypes'
      BY <1>19, <2>1, <2>6, <2>8, <2>9, <2>10
      DEF RadioErr, Answer, radioVars, RadioTypes, CommandSet
    <2>16. RadioInv'
      BY <1>19, <2>2, <2>3, <2>5, <2>6, <2>9, <2>10, <2>14, HolderFacts, SMTT(30)
      DEF RadioErr, Answer, callVars, queueVars, radioVars, RadioInv,
          QueueTypes
    <2>17. CausalInv'
      BY <1>19, <2>8
      DEF RadioErr, Answer, queueVars, radioVars, histVars, CausalInv,
          NoFutureResponse
    <2>18. CallTypes' /\ QueueTypes' /\ ReadTypes' /\ HistoryTypes' /\
         LockInv' /\ ReaderInv'
      BY <1>19
      DEF RadioErr, Answer, callVars, queueVars, readVars, histVars,
          CallTypes, QueueTypes, ReadTypes, HistoryTypes, LockInv,
          SingleActiveRequest, ReaderInv
    <2> QED
      BY <2>15, <2>16, <2>17, <2>18
  <1>20. CASE RadioSilent
    <2>1. cmds \in Seq(CommandSet) /\ cmds # <<>>
      BY <1>20
      DEF RadioSilent, RadioTypes, CommandSet
    <2>2. /\ Tail(cmds) \in Seq(CommandSet) /\ InOrder(Tail(cmds))
          /\ Unfinished(Tail(cmds), sent)
          /\ \A m : BelongUpTo(cmds, m) => BelongUpTo(Tail(cmds), m)
      BY <1>20, <2>1, TailFacts
      DEF RadioInv
    <2>3. RadioTypes'
      BY <1>20, <2>2
      DEF RadioSilent, radioVars, RadioTypes, CommandSet
    <2>4. RadioInv'
      BY <1>20, <2>2
      DEF RadioSilent, callVars, queueVars, radioVars, RadioInv
    <2>5. CallTypes' /\ QueueTypes' /\ ReadTypes' /\ HistoryTypes' /\ LockInv'
         /\ ReaderInv' /\ CausalInv'
      BY <1>20
      DEF RadioSilent, callVars, queueVars, readVars, histVars, radioVars,
          CallTypes, QueueTypes, ReadTypes, HistoryTypes, LockInv,
          SingleActiveRequest, ReaderInv, CausalInv, NoFutureResponse
    <2> QED
      BY <2>3, <2>4, <2>5
  <1>21. CASE UNCHANGED vars
    <2>1. CallTypes' /\ QueueTypes' /\ ReadTypes' /\ RadioTypes' /\
         HistoryTypes' /\ LockInv' /\ ReaderInv' /\ RadioInv' /\ CausalInv'
      BY <1>21
      DEF vars, callVars, queueVars, readVars, radioVars, histVars, CallTypes,
          QueueTypes, ReadTypes, RadioTypes, HistoryTypes, LockInv,
          SingleActiveRequest, ReaderInv, RadioInv, CausalInv,
          NoFutureResponse
    <2> QED
      BY <2>1
  <1> QED
    BY <1>1, <1>2, <1>3, <1>4, <1>5, <1>6, <1>7, <1>8, <1>9, <1>10, <1>11,
       <1>12, <1>13, <1>14, <1>15, <1>16, <1>17, <1>18, <1>19, <1>20, <1>21
    DEF Next, Caller, ReadLoop, Radio

\* Types and buffer bounds hold in every reachable state, for every capacity
\* and any number of callers.
THEOREM TypeCorrect == Spec => []TypeOK
  <1>1. Init => IInv
    BY InitIInv
  <1>2. IInv /\ [Next]_vars => IInv'
    BY StepIInv
  <1>3. IInv => TypeOK
    BY DEF IInv
  <1> QED
    BY <1>1, <1>2, <1>3, PTL DEF Spec

\* Queue.run is exclusive and its waiter never outlives its request.
THEOREM OneRequestAtATime == Spec => []SingleActiveRequest
  <1>1. Init => IInv
    BY InitIInv
  <1>2. IInv /\ [Next]_vars => IInv'
    BY StepIInv
  <1>3. IInv => SingleActiveRequest
    BY DEF IInv, LockInv
  <1> QED
    BY <1>1, <1>2, <1>3, PTL DEF Spec

\* No request is handed an answer to a later command.
THEOREM Causality == Spec => []NoFutureResponse
  <1>1. Init => IInv
    BY InitIInv
  <1>2. IInv /\ [Next]_vars => IInv'
    BY StepIInv
  <1>3. IInv => NoFutureResponse
    BY DEF IInv, CausalInv
  <1> QED
    BY <1>1, <1>2, <1>3, PTL DEF Spec
-----------------------------------------------------------------------------
(* Whose answers a request gets                                            *)

\* The read loop has a frame in hand.
Handling == reader \in {"lookup", "push"}

\* A request is under way and none before it was abandoned.
Tidy == sendMu # NoCaller /\ NothingAbandonedBefore(last)

\* The frame f answers the request under way: a plain one has no items, a
\* stream has items and an end.
Fits(f) ==
  f.req = last /\ f.type # IF kind[sendMu] = "single" THEN "item" ELSE "reply"

\* Nothing is there for requests to come, and those of before have returned.
FreshInv ==
  /\ \A r \in Requests : r > last => got[r] = <<>> /\ box[r] = <<>>
  /\ \A r \in 1..last :
       outcome[r] = "none" => r = last /\ sendMu # NoCaller
  /\ reader = "push" => heldW <= last

\* What a request saw before any was abandoned is its own; once it has
\* completed it has seen all of it, and the radio is through with it.
DoneInv ==
  \A r \in Requests :
    NothingAbandonedBefore(r) =>
      /\ \A i \in 1..Len(got[r]) : got[r][i].req = r
      /\ outcome[r] = "done" =>
           /\ \A i \in 1..Len(cmds) : cmds[i].req # r
           /\ r \notin garbled =>
                /\ Len(got[r]) = sent[r]
                /\ \A i \in 1..Len(got[r]) : got[r][i].n = i

\* Between requests, when all have completed, nothing is on its way.
QuietInv ==
  sendMu = NoCaller /\ (\A r \in 1..last : outcome[r] = "done") =>
    cmds = <<>> /\ wire = <<>> /\ ~Handling

\* Everything on its way belongs to the request under way.
FlowInv ==
  Tidy =>
    /\ \A i \in 1..Len(cmds) : cmds[i] = [req |-> last, kind |-> kind[sendMu]]
    /\ \A i \in 1..Len(wire) : Fits(wire[i])
    /\ \A i \in 1..Len(box[last]) : Fits(box[last][i])
    /\ Handling => Fits(held[1])
    /\ reader = "push" => heldW = last
    /\ \A c \in Callers : pc[c] = "sending" =>
         /\ cmds = <<>> /\ wire = <<>> /\ ~Handling
         /\ box[last] = <<>> /\ got[last] = <<>>

\* Behind the frame that ends an answer there is nothing.
LastInv ==
  Tidy =>
    /\ \A i \in 1..Len(wire) : wire[i].type # "item" =>
         i = Len(wire) /\ cmds = <<>> /\ wire[i].n = sent[last]
    /\ Handling /\ held[1].type # "item" =>
         wire = <<>> /\ cmds = <<>> /\ held[1].n = sent[last]
    /\ \A i \in 1..Len(box[last]) : box[last][i].type # "item" =>
         /\ i = Len(box[last]) /\ ~Handling
         /\ wire = <<>> /\ cmds = <<>> /\ box[last][i].n = sent[last]

\* Number of frames the request under way has seen, has in its buffer and is
\* about to get from the read loop.
Seen == Len(got[last])
Buffered == Seen + Len(box[last])
Handled == Buffered + IF Handling THEN 1 ELSE 0

\* The frames on their way are numbered without a gap, unless one could not be
\* decoded or the read loop has ended.
CountInv ==
  Tidy /\ last \notin garbled =>
    /\ \A i \in 1..Seen : got[last][i].n = i
    /\ \A i \in 1..Len(box[last]) : box[last][i].n = Seen + i
    /\ Handling => held[1].n = Buffered + 1
    /\ reader # "ended" =>
         /\ \A i \in 1..Len(wire) : wire[i].n = Handled + i
         /\ sent[last] = Handled + Len(wire)

\* The inductive invariant, on top of IInv.
OwnInv ==
  FreshInv /\ DoneInv /\ QuietInv /\ FlowInv /\ LastInv /\ CountInv

\* A sequence and its tail, entry by entry.
LEMMA TailEntries ==
  ASSUME NEW S, NEW s \in Seq(S), s # <<>>
  PROVE  /\ Len(s) \in Nat /\ Len(s) >= 1 /\ Len(Tail(s)) = Len(s) - 1
         /\ Head(s) = s[1] /\ s[1] \in S /\ Tail(s) \in Seq(S)
         /\ \A i \in 1..Len(Tail(s)) : i + 1 \in 1..Len(s) /\ Tail(s)[i] = s[i + 1]
  OBVIOUS

\* A sequence and an entry more.
LEMMA AppendEntries ==
  ASSUME NEW S, NEW s \in Seq(S), NEW e \in S
  PROVE  /\ Len(s) \in Nat /\ Len(Append(s, e)) = Len(s) + 1
         /\ Append(s, e) \in Seq(S) /\ Append(s, e) # <<>>
         /\ Append(s, e)[Len(s) + 1] = e
         /\ \A i \in 1..Len(s) : Append(s, e)[i] = s[i]
         /\ \A i \in 1..Len(Append(s, e)) : i \in 1..Len(s) \/ i = Len(s) + 1
  <1>1. /\ Len(s) \in Nat /\ Len(Append(s, e)) = Len(s) + 1
        /\ Append(s, e) \in Seq(S) /\ Append(s, e)[Len(s) + 1] = e
        /\ \A i \in 1..Len(s) : Append(s, e)[i] = s[i]
    OBVIOUS
  <1>2. Append(s, e) # <<>>
    BY <1>1
  <1>3. \A i \in 1..Len(s) + 1 : i \in 1..Len(s) \/ i = Len(s) + 1
    BY <1>1
  <1> QED
    BY <1>1, <1>2, <1>3

\* A step that touches neither the answers nor the holder's request.
LEMMA OwnUntouched ==
  ASSUME OwnInv, IInv,
         UNCHANGED <<queueVars, readVars, radioVars, histVars>>,
         \A c \in Callers : pc'[c] = "sending" => pc[c] = "sending",
         sendMu # NoCaller => kind'[sendMu] = kind[sendMu]
  PROVE  OwnInv'
  <1> USE DEF OwnInv, queueVars, readVars, radioVars, histVars, Tidy, Handling,
              NothingAbandonedBefore
  <1>1. FreshInv' /\ DoneInv' /\ QuietInv'
    BY DEF FreshInv, DoneInv, QuietInv
  <1>2. FlowInv'
    BY DEF FlowInv, Fits
  <1>3. LastInv' /\ CountInv'
    BY DEF LastInv, CountInv, Seen, Buffered, Handled
  <1> QED
    BY <1>1, <1>2, <1>3

\* A request that is abandoned, whether or not its command is sent.
LEMMA OwnAbandoned ==
  ASSUME OwnInv, IInv, NEW c \in Callers, pc[c] \in {"sending", "waiting"},
         NEW how \in Outcomes \ {"done", "none"}, Return(c, how),
         \/ UNCHANGED cmds
         \/ cmds' = Append(cmds, Command(c)),
         UNCHANGED <<box, last, reader, held, heldW, sent, wire, got, garbled>>
  PROVE  OwnInv'
  <1>1. last \in Requests /\ sendMu = c
    BY HolderFacts
  <1>2. /\ outcome' = [outcome EXCEPT ![last] = how] /\ sendMu' = NoCaller
        /\ outcome[last] = "none" /\ outcome \in [Requests -> Outcomes]
        /\ last \in Nat
    BY <1>1, HolderFacts
    DEF Return, IInv, LockInv, SingleActiveRequest, TypeOK, HistoryTypes,
        QueueTypes, Requests, NoWaiter
  <1>3. \A i \in 1..Len(cmds') :
          cmds'[i].req = last \/ (i \in 1..Len(cmds) /\ cmds'[i] = cmds[i])
    <2>1. Command(c) \in CommandSet /\ Command(c).req = last
      BY <1>1 DEF Command, CommandSet, IInv, TypeOK, CallTypes
    <2>2. cmds \in Seq(CommandSet)
      BY DEF IInv, TypeOK, RadioTypes, CommandSet
    <2> QED
      BY <2>1, <2>2, AppendEntries
  <1>4. FreshInv'
    BY <1>1, <1>2 DEF OwnInv, FreshInv, Requests
  <1>5. DoneInv'
    <2> SUFFICES ASSUME NEW r \in Requests, NothingAbandonedBefore(r)'
                 PROVE  /\ \A i \in 1..Len(got[r]) : got[r][i].req = r
                        /\ outcome'[r] = "done" =>
                             /\ \A i \in 1..Len(cmds') : cmds'[i].req # r
                             /\ r \notin garbled =>
                                  /\ Len(got[r]) = sent[r]
                                  /\ \A i \in 1..Len(got[r]) : got[r][i].n = i
      BY DEF DoneInv
    <2>1. r <= last
      BY <1>1, <1>2 DEF NothingAbandonedBefore, Requests
    <2>2. NothingAbandonedBefore(r)
      BY <1>1, <1>2, <2>1 DEF NothingAbandonedBefore, Requests
    <2>3. outcome'[r] = "done" => r # last /\ outcome[r] = "done"
      BY <1>1, <1>2
    <2> QED
      BY <1>3, <2>2, <2>3 DEF OwnInv, DoneInv
  <1>6. QuietInv'
    BY <1>1, <1>2 DEF QuietInv, Requests
  <1>7. FlowInv' /\ LastInv' /\ CountInv'
    BY <1>2 DEF FlowInv, LastInv, CountInv, Tidy
  <1> QED
    BY <1>4, <1>5, <1>6, <1>7 DEF OwnInv

\* The radio sends a frame for its first command, an item or the last frame.
LEMMA OwnAnswer ==
  ASSUME IInv, OwnInv, cmds # <<>>, NEW type \in FrameTypes, Answer(type),
         \/ type = "item" /\ Head(cmds).kind = "stream" /\ UNCHANGED cmds
         \/ /\ type # "item" /\ cmds' = Tail(cmds)
            /\ type = "reply" => Head(cmds).kind = "single"
  PROVE  OwnInv'
  <1> DEFINE r == Head(cmds).req
             f == [req |-> r, n |-> sent[r] + 1, type |-> type]
  <1> USE RequestQueueAssumption
  <1>0. /\ last \in Nat /\ cmds \in Seq(CommandSet) /\ wire \in Seq(Frame)
        /\ sent \in [Requests -> 0..(MaxItems + 1)]
        /\ got \in [Requests -> Seq(Frame)] /\ box \in [Requests -> Seq(Frame)]
        /\ Tidy => last \in Requests
    <2>1. last \in 0..MaxRequests /\ (Tidy => last >= 1)
      BY DEF IInv, TypeOK, QueueTypes, LockInv, Tidy
    <2>2. last \in Nat /\ (Tidy => last \in Requests)
      BY <2>1 DEF Requests
    <2> QED
      BY <2>2
      DEF IInv, TypeOK, QueueTypes, RadioTypes, HistoryTypes, CommandSet
  <1>1. /\ Len(cmds) \in Nat /\ Len(cmds) >= 1 /\ Head(cmds) = cmds[1]
        /\ cmds[1] \in CommandSet /\ Len(Tail(cmds)) = Len(cmds) - 1
        /\ \A i \in 1..Len(Tail(cmds)) :
             i + 1 \in 1..Len(cmds) /\ Tail(cmds)[i] = cmds[i + 1]
    BY <1>0, TailEntries
  <1>2. 1 \in 1..Len(cmds) /\ r \in Requests /\ sent[r] \in 0..MaxItems
    BY <1>0, <1>1 DEF CommandSet, IInv, RadioInv, Unfinished
  <1>3. /\ wire' = Append(wire, f) /\ sent' = [sent EXCEPT ![r] = sent[r] + 1]
        /\ UNCHANGED <<callVars, queueVars, readVars, histVars>>
    BY DEF Answer
  <1>4. f \in Frame /\ f.req = r /\ f.n = sent[r] + 1 /\ f.type = type
    BY <1>2 DEF Frame, FrameTypes
  <1>5. \A i \in 1..Len(cmds') : \E j \in 1..Len(cmds) : cmds'[i] = cmds[j]
    BY <1>1
  <1>6. FreshInv'
    BY <1>3 DEF OwnInv, FreshInv, queueVars, readVars, histVars
  <1>7. DoneInv'
    <2> SUFFICES ASSUME NEW q \in Requests, NothingAbandonedBefore(q)'
                 PROVE  /\ \A i \in 1..Len(got[q]) : got[q][i].req = q
                        /\ outcome[q] = "done" =>
                             /\ \A i \in 1..Len(cmds') : cmds'[i].req # q
                             /\ q \notin garbled =>
                                  /\ Len(got[q]) = sent'[q]
                                  /\ \A i \in 1..Len(got[q]) : got[q][i].n = i
      BY <1>3 DEF DoneInv, histVars
    <2>1. NothingAbandonedBefore(q)
      BY <1>3 DEF NothingAbandonedBefore, histVars
    <2>2. outcome[q] = "done" => r # q
      BY <1>1, <1>2, <2>1 DEF OwnInv, DoneInv
    <2>3. r # q => sent'[q] = sent[q]
      BY <1>0, <1>2, <1>3
    <2> QED
      BY <1>5, <2>1, <2>2, <2>3 DEF OwnInv, DoneInv
  <1>8. QuietInv'
    BY <1>3 DEF OwnInv, QuietInv, queueVars, histVars
  <1>9. Tidy' <=> Tidy
    BY <1>3 DEF Tidy, NothingAbandonedBefore, queueVars, histVars
  <1>10. Tidy => /\ cmds[1] = [req |-> last, kind |-> kind[sendMu]]
                 /\ r = last /\ Fits(f)
    <2> SUFFICES ASSUME Tidy
                 PROVE  /\ cmds[1] = [req |-> last, kind |-> kind[sendMu]]
                        /\ r = last /\ Fits(f)
      OBVIOUS
    <2>1. cmds[1] = [req |-> last, kind |-> kind[sendMu]]
      BY <1>2 DEF OwnInv, FlowInv
    <2>2. r = last /\ Head(cmds).kind = kind[sendMu]
      BY <1>1, <2>1
    <2> QED
      BY <1>4, <2>1, <2>2 DEF Fits
  <1>11. /\ Len(wire) \in Nat /\ Len(wire') = Len(wire) + 1
         /\ wire'[Len(wire) + 1] = f
         /\ \A i \in 1..Len(wire) : wire'[i] = wire[i]
         /\ \A i \in 1..Len(wire) + 1 : i \in 1..Len(wire) \/ i = Len(wire) + 1
    BY <1>0, <1>3, <1>4, AppendEntries
  <1>12. FlowInv'
    <2> SUFFICES ASSUME Tidy PROVE FlowInv'
      BY <1>9 DEF FlowInv
    <2>1. \A i \in 1..Len(cmds') : cmds'[i] = [req |-> last, kind |-> kind[sendMu]]
      BY <1>5 DEF OwnInv, FlowInv
    <2>2. \A i \in 1..Len(wire') : Fits(wire'[i])
      BY <1>10, <1>11 DEF OwnInv, FlowInv
    <2> QED
      BY <1>3, <2>1, <2>2
      DEF OwnInv, FlowInv, Fits, Handling, callVars, queueVars, readVars,
          histVars
  <1>13. LastInv'
    <2> SUFFICES ASSUME Tidy PROVE LastInv'
      BY <1>9 DEF LastInv
    <2>1. /\ \A i \in 1..Len(wire) : wire[i].type = "item"
          /\ \A i \in 1..Len(box[last]) : box[last][i].type = "item"
          /\ Handling => held[1].type = "item"
      BY DEF OwnInv, LastInv
    <2>2. type # "item" => cmds' = <<>>
      <3>1. Len(cmds) = 1
        <4> SUFFICES ASSUME 2 \in 1..Len(cmds) PROVE FALSE
          BY <1>1
        <4>1. cmds[2].req = last /\ cmds[1].req = last
          BY <1>2 DEF OwnInv, FlowInv
        <4>2. cmds[1].req < cmds[2].req
          BY <1>1, <1>2 DEF IInv, RadioInv, InOrder
        <4> QED
          BY <1>0, <4>1, <4>2
      <3> QED
        BY <1>0, <3>1
    <2>3. sent'[last] = f.n
      BY <1>0, <1>3, <1>4, <1>10
    <2>4. \A i \in 1..Len(wire') : wire'[i].type # "item" =>
            i = Len(wire') /\ cmds' = <<>> /\ wire'[i].n = sent'[last]
      BY <1>4, <1>11, <2>1, <2>2, <2>3
    <2> QED
      BY <1>3, <2>1, <2>4 DEF LastInv, Handling, queueVars, readVars
  <1>14. CountInv'
    <2> SUFFICES ASSUME Tidy, last \notin garbled PROVE CountInv'
      BY <1>3, <1>9 DEF CountInv, queueVars, histVars
    <2>1. Seen' = Seen /\ Buffered' = Buffered /\ Handled' = Handled
      BY <1>3
      DEF Seen, Buffered, Handled, Handling, queueVars, readVars, histVars
    <2>2. Handled \in Nat
      BY <1>0 DEF Seen, Buffered, Handled
    <2>3. sent'[last] = sent[last] + 1 /\ f.n = sent[last] + 1
      BY <1>0, <1>3, <1>4, <1>10
    <2>4. reader # "ended" =>
            /\ \A i \in 1..Len(wire') : wire'[i].n = Handled + i
            /\ sent'[last] = Handled + Len(wire')
      <3> SUFFICES ASSUME reader # "ended"
                   PROVE  /\ \A i \in 1..Len(wire') : wire'[i].n = Handled + i
                          /\ sent'[last] = Handled + Len(wire')
        OBVIOUS
      <3>1. sent[last] = Handled + Len(wire)
            /\ \A i \in 1..Len(wire) : wire[i].n = Handled + i
        BY DEF OwnInv, CountInv
      <3>2. sent[last] + 1 = Handled + (Len(wire) + 1)
        BY <1>11, <2>2, <3>1
      <3> QED
        BY <1>11, <2>3, <3>1, <3>2
    <2> QED
      BY <1>3, <2>1, <2>4
      DEF OwnInv, CountInv, Handling, queueVars, readVars, histVars
  <1> QED
    BY <1>6, <1>7, <1>8, <1>12, <1>13, <1>14 DEF OwnInv

\* Every step preserves it.
LEMMA StepOwnInv == IInv /\ OwnInv /\ [Next]_vars => OwnInv'
  <1> SUFFICES ASSUME IInv, OwnInv, [Next]_vars PROVE OwnInv'
    OBVIOUS
  <1> USE RequestQueueAssumption DEF NoWaiter
  <1>0. /\ last \in 0..MaxRequests /\ last \in Nat /\ MaxRequests \in Nat
        /\ cmds \in Seq(CommandSet) /\ wire \in Seq(Frame)
        /\ box \in [Requests -> Seq(Frame)] /\ got \in [Requests -> Seq(Frame)]
        /\ sent \in [Requests -> 0..(MaxItems + 1)]
        /\ outcome \in [Requests -> Outcomes]
        /\ kind \in [Callers -> {"single", "stream"}]
    BY
    DEF IInv, TypeOK, CallTypes, QueueTypes, RadioTypes, HistoryTypes,
        CommandSet
  <1>t. /\ Tidy => last \in Requests /\ sendMu \in Callers /\ waiter = last
        /\ sendMu # NoCaller => outcome[last] = "none"
        /\ Handling => Len(held) = 1 /\ held[1] \in Frame /\ held[1].req \in 1..last
    BY
    DEF Tidy, Handling, IInv, LockInv, SingleActiveRequest, ReaderInv, TypeOK,
           QueueTypes, ReadTypes, Requests
  <1>1. ASSUME NEW c \in Callers, NEW k \in {"single", "stream"}, Call(c, k)
        PROVE  OwnInv'
    <2>1. sendMu # c /\ pc \in [Callers -> {"idle", "queued", "sending", "waiting"}]
      BY <1>1 DEF Call, IInv, LockInv, SingleActiveRequest, TypeOK, CallTypes
    <2> QED
      BY <1>0, <1>1, <2>1, OwnUntouched
      DEF Call, IInv, TypeOK, QueueTypes
  <1>2. ASSUME NEW c \in Callers, Expire(c)
        PROVE  OwnInv'
    BY <1>2, OwnUntouched DEF Expire
  <1>3. ASSUME NEW c \in Callers, Acquire(c)
        PROVE  OwnInv'
    <2>1. /\ last' = last + 1 /\ last' \in Requests /\ sendMu = NoCaller
          /\ sendMu' = c /\ c # NoCaller /\ waiter' = last'
          /\ UNCHANGED <<kind, box, readVars, radioVars, histVars>>
      BY <1>0, <1>3 DEF Acquire, Requests
    <2>2. FreshInv'
      BY <1>0, <2>1
      DEF OwnInv, FreshInv, IInv, TypeOK, ReadTypes, readVars, histVars
    <2>3. DoneInv'
      BY <2>1 DEF OwnInv, DoneInv, NothingAbandonedBefore, radioVars, histVars
    <2>4. QuietInv'
      BY <2>1 DEF QuietInv
    <2>5. Tidy' => /\ cmds' = <<>> /\ wire' = <<>> /\ ~Handling'
                   /\ box'[last'] = <<>> /\ got'[last'] = <<>> /\ sent'[last'] = 0
      <3>1. Tidy' => \A r \in 1..last : outcome[r] = "done"
        BY <1>0, <2>1 DEF Tidy, NothingAbandonedBefore, Requests, histVars
      <3>2. box[last'] = <<>> /\ got[last'] = <<>>
        BY <1>0, <2>1 DEF OwnInv, FreshInv
      <3>3. sent[last'] = 0
        BY <1>0, <2>1 DEF IInv, RadioInv
      <3> QED
        BY <2>1, <3>1, <3>2, <3>3
        DEF OwnInv, QuietInv, Handling, radioVars, readVars, histVars
    <2>6. FlowInv' /\ LastInv'
      BY <2>5 DEF FlowInv, LastInv, Fits, Handling
    <2>7. CountInv'
      <3>1. Tidy' => /\ Seen' = 0 /\ Handled' = 0 /\ sent'[last'] = 0
                     /\ Len(box'[last']) = 0 /\ Len(wire') = 0 /\ ~Handling'
        <4>1. Len(<<>>) = 0
          OBVIOUS
        <4>2. Tidy' => Seen' = 0 /\ Len(box'[last']) = 0 /\ Len(wire') = 0
          BY <2>5, <4>1 DEF Seen
        <4> QED
          BY <2>5, <4>2 DEF Buffered, Handled
      <3> QED
        BY <3>1 DEF CountInv
    <2> QED
      BY <2>2, <2>3, <2>4, <2>6, <2>7 DEF OwnInv
  <1>4. ASSUME NEW c \in Callers, Send(c)
        PROVE  OwnInv'
    <2>1. /\ last \in Requests /\ sendMu = c /\ c # NoCaller
          /\ cmds' = Append(cmds, Command(c)) /\ pc' = [pc EXCEPT ![c] = "waiting"]
          /\ UNCHANGED <<kind, queueVars, readVars, sent, wire, histVars>>
      BY <1>4, HolderFacts DEF Send
    <2>2. Command(c) \in CommandSet /\ Command(c).req = last /\ Command(c).kind = kind[c]
      BY <1>0, <2>1 DEF Command, CommandSet
    <2>3. \A i \in 1..Len(cmds') :
            cmds'[i] = Command(c) \/ (i \in 1..Len(cmds) /\ cmds'[i] = cmds[i])
      BY <1>0, <2>1, <2>2, AppendEntries
    <2>4. FreshInv'
      BY <2>1 DEF OwnInv, FreshInv, queueVars, readVars, histVars
    <2>5. DoneInv'
      BY <1>t, <2>1, <2>2, <2>3
      DEF OwnInv, DoneInv, NothingAbandonedBefore, queueVars, histVars
    <2>6. QuietInv'
      BY <2>1 DEF QuietInv, queueVars
    <2>7. Tidy' <=> Tidy
      BY <2>1 DEF Tidy, NothingAbandonedBefore, queueVars, histVars
    <2>8. Tidy => /\ cmds = <<>> /\ wire = <<>> /\ ~Handling
                  /\ box[last] = <<>> /\ got[last] = <<>>
      BY <1>4 DEF OwnInv, FlowInv, Send
    <2>9. \A d \in Callers : pc'[d] # "sending"
      BY <1>4, <2>1
      DEF Send, IInv, TypeOK, CallTypes, LockInv, SingleActiveRequest
    <2>10. FlowInv'
      <3>1. Command(c) = [req |-> last, kind |-> kind[sendMu]]
        BY <2>1 DEF Command
      <3>2. Tidy => \A i \in 1..Len(cmds') : cmds'[i] = Command(c)
        BY <2>3, <2>8
      <3> QED
        BY <2>1, <2>7, <2>8, <2>9, <3>1, <3>2
        DEF FlowInv, Handling, queueVars, readVars, histVars
    <2>11. LastInv'
      BY <2>1, <2>7, <2>8 DEF LastInv, Handling, queueVars, readVars, histVars
    <2>12. CountInv'
      BY <2>1, <2>7
      DEF OwnInv, CountInv, Seen, Buffered, Handled, Handling, queueVars,
          readVars, histVars
    <2> QED
      BY <2>4, <2>5, <2>6, <2>10, <2>11, <2>12 DEF OwnInv
  <1>5. ASSUME NEW c \in Callers, SendErr(c)
        PROVE  OwnInv'
    BY <1>5, OwnAbandoned DEF SendErr, Outcomes, readVars
  <1>6. ASSUME NEW c \in Callers, Collect(c)
        PROVE  OwnInv'
    <2> DEFINE b == box[last]
               g == got[last]
    <2>1. /\ last \in Requests /\ sendMu = c /\ c # NoCaller /\ b # <<>>
          /\ b \in Seq(Frame) /\ g \in Seq(Frame)
          /\ UNCHANGED <<last, readVars, radioVars, garbled>>
      BY <1>0, <1>6, HolderFacts DEF Collect
    <2>2. /\ box' = [box EXCEPT ![last] = Tail(b)]
          /\ got' = [got EXCEPT ![last] = Append(g, b[1])]
          /\ Head(b) = b[1]
      BY <1>6, <2>1, TailEntries DEF Collect
    <2>3. /\ box'[last] = Tail(b) /\ got'[last] = Append(g, b[1])
          /\ \A r \in Requests : r # last => box'[r] = box[r] /\ got'[r] = got[r]
      BY <1>0, <2>1, <2>2
    <2>4. /\ Len(b) \in Nat /\ Len(b) >= 1 /\ b[1] \in Frame
          /\ Len(Tail(b)) = Len(b) - 1
          /\ \A i \in 1..Len(Tail(b)) : i + 1 \in 1..Len(b) /\ Tail(b)[i] = b[i + 1]
      BY <2>1, TailEntries
    <2>5. /\ Len(g) \in Nat /\ Len(Append(g, b[1])) = Len(g) + 1
          /\ Append(g, b[1])[Len(g) + 1] = b[1]
          /\ \A i \in 1..Len(g) : Append(g, b[1])[i] = g[i]
          /\ \A i \in 1..Len(g) + 1 : i \in 1..Len(g) \/ i = Len(g) + 1
      BY <2>1, <2>4, AppendEntries
    <2>6. 1 \in 1..Len(b)
      BY <2>4
    <2>t. NothingAbandonedBefore(last) => Tidy
      BY <2>1 DEF Tidy
    <2>7. Tidy => /\ b[1].req = last
                  /\ b[1].type # IF kind[c] = "single" THEN "item" ELSE "reply"
                  /\ last \notin garbled => b[1].n = Len(g) + 1
                  /\ b[1].type # "item" =>
                       /\ Len(b) = 1 /\ ~Handling /\ wire = <<>> /\ cmds = <<>>
                       /\ b[1].n = sent[last]
      BY <2>1, <2>6 DEF OwnInv, FlowInv, Fits, LastInv, CountInv, Seen
    <2>8. ASSUME NEW r \in Requests,
                 \A q \in Requests : q < r => outcome[q] = "done"
          PROVE  \A i \in 1..Len(got'[r]) : got'[r][i].req = r
      <3>1. \A i \in 1..Len(got[r]) : got[r][i].req = r
        BY <2>8 DEF OwnInv, DoneInv, NothingAbandonedBefore
      <3>2. CASE r = last
        <4>1. b[1].req = last
          BY <2>7, <2>8, <2>t, <3>2 DEF NothingAbandonedBefore
        <4>2. Len(got'[last]) = Len(g) + 1
          BY <2>3, <2>5
        <4> QED
          BY <2>3, <2>5, <3>1, <3>2, <4>1, <4>2, SMTT(30)
      <3> QED
        BY <2>3, <3>1, <3>2
    <2>9. CASE Completes(kind[c], b[1])
      <3>1. /\ sendMu' = NoCaller /\ outcome' = [outcome EXCEPT ![last] = "done"]
            /\ outcome[last] = "none"
        BY <1>6, <1>t, <2>1, <2>2, <2>9 DEF Collect, Return
      <3>2. b[1].type # "item" \/ kind[c] = "single"
        BY <2>9 DEF Completes
      <3>3. Tidy => /\ ~Handling /\ wire = <<>> /\ cmds = <<>> /\ b[1].n = sent[last]
        BY <2>7, <3>2
      <3>4. FreshInv'
        <4>1. \A r \in Requests : outcome'[r] = "none" => outcome[r] = "none" /\ r # last
          BY <1>0, <2>1, <3>1
        <4>2. \A r \in 1..last : outcome'[r] # "none"
          <5>1. \A r \in 1..last : r \in Requests
            BY <1>0 DEF Requests
          <5> QED
            BY <4>1, <5>1 DEF OwnInv, FreshInv
        <4> QED
          BY <1>0, <2>1, <2>3, <4>2 DEF OwnInv, FreshInv, readVars
      <3>5. DoneInv'
        <4> SUFFICES ASSUME NEW r \in Requests, NothingAbandonedBefore(r)'
                     PROVE  /\ \A i \in 1..Len(got'[r]) : got'[r][i].req = r
                            /\ outcome'[r] = "done" =>
                                 /\ \A i \in 1..Len(cmds) : cmds[i].req # r
                                 /\ r \notin garbled =>
                                      /\ Len(got'[r]) = sent[r]
                                      /\ \A i \in 1..Len(got'[r]) : got'[r][i].n = i
          BY <2>1 DEF DoneInv, radioVars
        <4>1. CASE r > last
          <5>1. outcome'[r] = "none" /\ got'[r] = <<>>
            BY <1>0, <2>1, <2>3, <3>1, <4>1
            DEF OwnInv, FreshInv, IInv, LockInv, Requests
          <5> QED
            BY <5>1
        <4>2. CASE r <= last
          <5>1. NothingAbandonedBefore(r)
            BY <1>0, <2>1, <3>1, <4>2 DEF NothingAbandonedBefore, Requests
          <5>2. CASE r = last
            <6>1. Tidy
              BY <2>t, <5>1, <5>2
            <6>2. last \notin garbled =>
                    /\ Len(got'[last]) = sent[last]
                    /\ \A i \in 1..Len(got'[last]) : got'[last][i].n = i
              BY <2>3, <2>5, <2>7, <3>3, <6>1 DEF OwnInv, CountInv, Seen
            <6> QED
              BY <2>8, <3>3, <5>1, <5>2, <6>1, <6>2 DEF NothingAbandonedBefore
          <5>3. CASE r # last
            BY <2>3, <3>1, <5>1, <5>3 DEF OwnInv, DoneInv
          <5> QED
            BY <5>2, <5>3
        <4> QED
          <5>1. r > last \/ r <= last
            BY <1>0 DEF Requests
          <5> QED
            BY <4>1, <4>2, <5>1
      <3>6. QuietInv'
        <4>1. (\A r \in 1..last : outcome'[r] = "done") => Tidy
          BY <1>0, <2>1, <2>t, <3>1 DEF NothingAbandonedBefore, Requests
        <4> QED
          BY <2>1, <3>3, <4>1 DEF QuietInv, Handling, readVars, radioVars
      <3>7. FlowInv' /\ LastInv' /\ CountInv'
        BY <3>1 DEF FlowInv, LastInv, CountInv, Tidy
      <3> QED
        BY <3>4, <3>5, <3>6, <3>7 DEF OwnInv
    <2>10. CASE ~Completes(kind[c], b[1])
      <3>1. UNCHANGED <<callVars, sendMu, outcome>>
        BY <1>6, <2>2, <2>10 DEF Collect
      <3>2. Tidy => b[1].type = "item"
        <4>1. b[1].type \in FrameTypes
          BY <2>4 DEF Frame
        <4> QED
          BY <2>7, <2>10, <4>1 DEF Completes, FrameTypes
      <3>3. FreshInv'
        BY <1>0, <2>1, <2>3, <3>1 DEF OwnInv, FreshInv, readVars
      <3>4. DoneInv'
        BY <1>t, <2>1, <2>3, <2>8, <3>1
        DEF OwnInv, DoneInv, NothingAbandonedBefore, radioVars
      <3>5. QuietInv'
        BY <2>1, <3>1 DEF QuietInv
      <3>6. Tidy' <=> Tidy
        BY <2>1, <3>1 DEF Tidy, NothingAbandonedBefore
      <3>7. \A d \in Callers : pc[d] # "sending"
        BY <1>6, <2>1 DEF Collect, IInv, LockInv, SingleActiveRequest
      <3>8. FlowInv'
        BY <2>1, <2>3, <2>4, <3>1, <3>2, <3>6, <3>7
        DEF OwnInv, FlowInv, Fits, Handling, readVars, radioVars, callVars
      <3>9. LastInv'
        <4> SUFFICES ASSUME Tidy PROVE LastInv'
          BY <3>6 DEF LastInv
        <4>1. \A i \in 1..Len(Tail(b)) : Tail(b)[i].type # "item" =>
                 /\ i = Len(Tail(b)) /\ ~Handling
                 /\ wire = <<>> /\ cmds = <<>> /\ Tail(b)[i].n = sent[last]
          BY <2>4 DEF OwnInv, LastInv
        <4> QED
          BY <2>1, <2>3, <4>1 DEF OwnInv, LastInv, Handling, readVars, radioVars
      <3>10. CountInv'
        <4> SUFFICES ASSUME Tidy, last \notin garbled PROVE CountInv'
          BY <2>1, <3>6 DEF CountInv
        <4>1. /\ Seen' = Seen + 1 /\ Buffered' = Buffered /\ Handled' = Handled
              /\ Seen \in Nat
          <5>1. Seen' = Seen + 1 /\ Seen \in Nat
            BY <2>1, <2>3, <2>5 DEF Seen
          <5>2. Buffered' = Buffered
            <6>1. Len(box'[last']) = Len(b) - 1 /\ Len(b) \in Nat
              BY <2>1, <2>3, <2>4
            <6>2. \A x, y \in Nat : x + 1 + (y - 1) = x + y
              OBVIOUS
            <6> QED
              BY <5>1, <6>1, <6>2, ZenonT(30) DEF Buffered
          <5> QED
            BY <2>1, <5>1, <5>2 DEF Handled, Handling, readVars
        <4>2. \A i \in 1..Seen + 1 : got'[last][i].n = i
          BY <2>3, <2>5, <2>7 DEF OwnInv, CountInv, Seen
        <4>3. \A i \in 1..Len(Tail(b)) : Tail(b)[i].n = Seen + 1 + i
          <5>1. \A j \in 1..Len(b) : b[j].n = Seen + j
            BY DEF OwnInv, CountInv
          <5> SUFFICES ASSUME NEW i \in 1..Len(Tail(b))
                       PROVE  Tail(b)[i].n = Seen + 1 + i
            OBVIOUS
          <5>2. i + 1 \in 1..Len(b) /\ Tail(b)[i] = b[i + 1] /\ i \in Nat
            BY <2>4
          <5>3. b[i + 1].n = Seen + (i + 1)
            BY <5>1, <5>2
          <5> QED
            BY <4>1, <5>2, <5>3
        <4> QED
          BY <2>1, <2>3, <4>1, <4>2, <4>3
          DEF OwnInv, CountInv, Handling, readVars, radioVars
      <3> QED
        BY <3>3, <3>4, <3>5, <3>8, <3>9, <3>10 DEF OwnInv
    <2> QED
      BY <2>9, <2>10
  <1>7. ASSUME NEW c \in Callers, OverflowReturn(c)
        PROVE  OwnInv'
    BY <1>7, OwnAbandoned DEF OverflowReturn, Outcomes, readVars, radioVars
  <1>8. ASSUME NEW c \in Callers, CtxReturn(c)
        PROVE  OwnInv'
    BY <1>8, OwnAbandoned DEF CtxReturn, Outcomes, readVars, radioVars
  <1>9. CASE ReadFrame
    <2>1. /\ reader = "reading" /\ reader' = "lookup" /\ wire # <<>>
          /\ held' = <<Head(wire)>> /\ wire' = Tail(wire)
          /\ UNCHANGED <<callVars, queueVars, heldW, cmds, sent, histVars>>
      BY <1>9 DEF ReadFrame
    <2>2. /\ held'[1] = wire[1] /\ Len(wire) \in Nat /\ 1 \in 1..Len(wire)
          /\ Len(wire') = Len(wire) - 1
          /\ \A i \in 1..Len(wire') : i + 1 \in 1..Len(wire) /\ wire'[i] = wire[i + 1]
      BY <1>0, <2>1, TailEntries
    <2>3. Handling' /\ ~Handling
      BY <2>1 DEF Handling
    <2>4. FreshInv' /\ DoneInv' /\ QuietInv'
      BY <2>1
      DEF OwnInv, FreshInv, DoneInv, QuietInv, NothingAbandonedBefore,
          queueVars,
          histVars
    <2>5. Tidy' <=> Tidy
      BY <2>1 DEF Tidy, NothingAbandonedBefore, queueVars, histVars
    <2>6. FlowInv'
      BY <2>1, <2>2, <2>3, <2>5
      DEF OwnInv, FlowInv, Fits, callVars, queueVars, histVars
    <2>7. LastInv'
      <3> SUFFICES ASSUME Tidy PROVE LastInv'
        BY <2>5 DEF LastInv
      <3>1. wire[1].type # "item" =>
              Len(wire) = 1 /\ cmds = <<>> /\ wire[1].n = sent[last]
        BY <2>2 DEF OwnInv, LastInv
      <3>2. Len(wire) = 1 => wire' = <<>>
        BY <1>0, <2>1
      <3>3. \A i \in 1..Len(wire') : wire'[i].type # "item" =>
              i = Len(wire') /\ cmds = <<>> /\ wire'[i].n = sent[last]
        BY <2>2, SMTT(30) DEF OwnInv, LastInv
      <3>4. \A i \in 1..Len(box[last]) : box[last][i].type = "item"
        BY <2>1 DEF OwnInv, LastInv
      <3> QED
        BY <2>1, <2>2, <3>1, <3>2, <3>3, <3>4 DEF LastInv, queueVars, histVars
    <2>8. CountInv'
      <3> SUFFICES ASSUME Tidy, last \notin garbled PROVE CountInv'
        BY <2>1, <2>5 DEF CountInv, queueVars, histVars
      <3>1. last \in Requests
        BY <1>t
      <3>2. /\ Seen' = Seen /\ Buffered' = Buffered /\ Handled = Buffered
            /\ Handled' = Buffered + 1 /\ Buffered \in Nat
        BY <1>0, <2>1, <2>3, <3>1
        DEF Seen, Buffered, Handled, queueVars, histVars
      <3>3. wire[1].n = Buffered + 1
        BY <2>1, <2>2, <3>2 DEF OwnInv, CountInv
      <3>4. \A i \in 1..Len(wire') : wire'[i].n = Buffered + 1 + i
        <4> SUFFICES ASSUME NEW i \in 1..Len(wire')
                     PROVE  wire'[i].n = Buffered + 1 + i
          OBVIOUS
        <4>1. wire'[i] = wire[i + 1] /\ wire[i + 1].n = Buffered + (i + 1)
          BY <2>1, <2>2, <3>2 DEF OwnInv, CountInv
        <4> QED
          BY <3>2, <4>1
      <3>5. sent[last] = Buffered + 1 + Len(wire')
        BY <2>1, <2>2, <3>2 DEF OwnInv, CountInv
      <3> QED
        BY <2>1, <2>2, <3>2, <3>3, <3>4, <3>5
        DEF OwnInv, CountInv, queueVars, histVars
    <2> QED
      BY <2>4, <2>6, <2>7, <2>8 DEF OwnInv
  <1>10. CASE DecodeError
    <2>1. /\ Handling /\ reader' = "reading" /\ ~Handling'
          /\ garbled' = garbled \union {held[1].req}
          /\ UNCHANGED <<callVars, queueVars, heldW, radioVars, got, outcome>>
      BY <1>10 DEF DecodeError, Handling
    <2>2. FreshInv' /\ DoneInv' /\ QuietInv'
      BY <2>1
      DEF OwnInv, FreshInv, DoneInv, QuietInv, NothingAbandonedBefore,
          queueVars,
          radioVars
    <2>3. Tidy' <=> Tidy
      BY <2>1 DEF Tidy, NothingAbandonedBefore, queueVars
    <2>4. FlowInv' /\ LastInv'
      BY <2>1, <2>3
      DEF OwnInv, FlowInv, LastInv, Fits, callVars, queueVars, radioVars
    <2>5. CountInv'
      BY <2>1, <2>3 DEF OwnInv, FlowInv, Fits, CountInv, queueVars
    <2> QED
      BY <2>2, <2>4, <2>5 DEF OwnInv
  <1>11. CASE DeliverLookup
    <2>1. /\ Handling /\ reader' = "push" /\ Handling' /\ heldW' = waiter
          /\ waiter <= last
          /\ UNCHANGED <<callVars, queueVars, held, radioVars, histVars>>
      BY <1>0, <1>11
      DEF DeliverLookup, Handling, IInv, LockInv, SingleActiveRequest
    <2>2. FreshInv' /\ DoneInv' /\ QuietInv'
      BY <2>1
      DEF OwnInv, FreshInv, DoneInv, QuietInv, NothingAbandonedBefore,
          queueVars,
          radioVars, histVars
    <2>3. Tidy' <=> Tidy
      BY <2>1 DEF Tidy, NothingAbandonedBefore, queueVars, histVars
    <2>4. FlowInv' /\ LastInv'
      BY <1>t, <2>1, <2>3
      DEF OwnInv, FlowInv, LastInv, Fits, callVars, queueVars, radioVars,
          histVars
    <2>5. CountInv'
      BY <1>11, <2>1, <2>3
      DEF OwnInv, CountInv, Seen, Buffered, Handled, queueVars, radioVars,
          histVars,
          DeliverLookup
    <2> QED
      BY <2>2, <2>4, <2>5 DEF OwnInv
  <1>12. CASE DeliverUnmatched
    <2>1. /\ Handling /\ waiter = NoWaiter /\ reader' = "reading" /\ ~Handling'
          /\ UNCHANGED <<callVars, queueVars, heldW, radioVars, histVars>>
      BY <1>12 DEF DeliverUnmatched, Handling
    <2>2. sendMu = NoCaller
      BY <1>0, <2>1 DEF IInv, LockInv, SingleActiveRequest
    <2>3. FreshInv' /\ DoneInv' /\ QuietInv'
      BY <2>1
      DEF OwnInv, FreshInv, DoneInv, QuietInv, NothingAbandonedBefore,
          queueVars,
          radioVars, histVars
    <2>4. FlowInv' /\ LastInv' /\ CountInv'
      BY <2>1, <2>2 DEF FlowInv, LastInv, CountInv, Tidy, queueVars
    <2> QED
      BY <2>3, <2>4 DEF OwnInv
  <1>13. CASE DeliverPush
    <2>1. /\ reader = "push" /\ Handling /\ reader' = "reading" /\ ~Handling'
          /\ box' = [box EXCEPT ![heldW] = Append(@, held[1])]
          /\ UNCHANGED <<callVars, sendMu, last, radioVars, histVars>>
      BY <1>13 DEF DeliverPush, Handling
    <2>2. heldW \in 1..last /\ heldW \in Requests /\ held[1] \in Frame
      <3>1. heldW \in 0..MaxRequests /\ heldW >= 1
        BY <2>1 DEF IInv, ReaderInv, TypeOK, ReadTypes
      <3>2. heldW <= last
        BY <2>1 DEF OwnInv, FreshInv
      <3> QED
        BY <1>0, <1>t, <2>1, <3>1, <3>2 DEF Requests
    <2>3. \A r \in Requests : r # heldW => box'[r] = box[r]
      BY <1>0, <2>1
    <2>4. FreshInv'
      BY <1>0, <2>1, <2>2, <2>3 DEF OwnInv, FreshInv, histVars
    <2>5. DoneInv' /\ QuietInv'
      BY <2>1
      DEF OwnInv, DoneInv, QuietInv, NothingAbandonedBefore, radioVars, histVars
    <2>6. Tidy' <=> Tidy
      BY <2>1 DEF Tidy, NothingAbandonedBefore, histVars
    <2> DEFINE b == box[last]
    <2>7. Tidy => /\ heldW = last /\ b \in Seq(Frame)
                  /\ box'[last] = Append(b, held[1]) /\ Fits(held[1])
      BY <1>0, <1>t, <2>1, <2>2 DEF OwnInv, FlowInv
    <2>8. Tidy => /\ Len(b) \in Nat /\ Len(box'[last]) = Len(b) + 1
                  /\ box'[last][Len(b) + 1] = held[1]
                  /\ \A i \in 1..Len(b) : box'[last][i] = b[i]
                  /\ \A i \in 1..Len(b) + 1 : i \in 1..Len(b) \/ i = Len(b) + 1
      BY <2>2, <2>7, AppendEntries
    <2>9. \A d \in Callers : Tidy => pc[d] # "sending"
      BY <2>1 DEF OwnInv, FlowInv
    <2>10. FlowInv'
      BY <2>1, <2>6, <2>7, <2>8, <2>9
      DEF OwnInv, FlowInv, Fits, callVars, radioVars, histVars
    <2>11. LastInv'
      <3> SUFFICES ASSUME Tidy PROVE LastInv'
        BY <2>6 DEF LastInv
      <3>1. \A i \in 1..Len(b) : b[i].type = "item"
        BY <2>1 DEF OwnInv, LastInv
      <3>2. held[1].type # "item" =>
              wire = <<>> /\ cmds = <<>> /\ held[1].n = sent[last]
        BY <2>1 DEF OwnInv, LastInv
      <3> QED
        BY <2>1, <2>8, <3>1, <3>2 DEF OwnInv, LastInv, radioVars
    <2>12. CountInv'
      <3> SUFFICES ASSUME Tidy, last \notin garbled PROVE CountInv'
        BY <2>1, <2>6 DEF CountInv, histVars
      <3>0. Seen' = Seen /\ Seen \in Nat
        BY <1>0, <1>t, <2>1 DEF Seen, histVars
      <3>1. /\ Buffered = Seen + Len(b) /\ Buffered' = Seen + (Len(b) + 1)
            /\ Handled = Buffered + 1 /\ Handled' = Buffered'
        <4>1. Buffered = Seen + Len(b) /\ Buffered' = Seen + (Len(b) + 1)
          BY <2>1, <2>8, <3>0 DEF Buffered
        <4>2. Handled = Buffered + 1
          BY <2>1 DEF Handled
        <4>3. Handled' = Buffered' + 0
          BY <2>1 DEF Handled
        <4> QED
          BY <2>8, <3>0, <4>1, <4>2, <4>3
      <3>2. Buffered' = Buffered + 1
        <4>1. \A x, y \in Nat : x + (y + 1) = (x + y) + 1
          OBVIOUS
        <4> QED
          BY <2>8, <3>0, <3>1, <4>1
      <3>3. \A i \in 1..Len(b) + 1 : box'[last][i].n = Seen + i
        <4>1. held[1].n = Seen + Len(b) + 1 /\ \A i \in 1..Len(b) : b[i].n = Seen + i
          BY <2>1, <3>1 DEF OwnInv, CountInv
        <4>2. \A x, y \in Nat : (x + y) + 1 = x + (y + 1)
          OBVIOUS
        <4>3. held[1].n = Seen + (Len(b) + 1)
          BY <2>8, <3>0, <3>1, <4>1, <4>2
        <4> QED
          BY <2>8, <4>1, <4>3
      <3> QED
        BY <2>1, <2>8, <3>0, <3>1, <3>2, <3>3
        DEF OwnInv, CountInv, radioVars, histVars
    <2> QED
      BY <2>4, <2>5, <2>10, <2>11, <2>12 DEF OwnInv
  <1>14. CASE DeliverOverflow
    <2>1. /\ Handling /\ reader' = "ended" /\ ~Handling'
          /\ UNCHANGED <<callVars, sendMu, waiter, box, last, radioVars, histVars>>
      BY <1>14 DEF DeliverOverflow, Handling
    <2>2. FreshInv' /\ DoneInv' /\ QuietInv'
      BY <2>1
      DEF OwnInv, FreshInv, DoneInv, QuietInv, NothingAbandonedBefore,
          radioVars,
          histVars
    <2>3. Tidy' <=> Tidy
      BY <2>1 DEF Tidy, NothingAbandonedBefore, histVars
    <2>4. FlowInv' /\ LastInv'
      BY <2>1, <2>3
      DEF OwnInv, FlowInv, LastInv, Fits, callVars, radioVars, histVars
    <2>5. CountInv'
      BY <2>1, <2>3 DEF OwnInv, CountInv, Seen, histVars
    <2> QED
      BY <2>2, <2>4, <2>5 DEF OwnInv
  <1>15. CASE ReadError
    <2>1. /\ reader' = "ended" /\ ~Handling /\ ~Handling'
          /\ UNCHANGED <<callVars, queueVars, radioVars, histVars>>
      BY <1>15 DEF ReadError, Handling
    <2>2. FreshInv' /\ DoneInv' /\ QuietInv'
      BY <2>1
      DEF OwnInv, FreshInv, DoneInv, QuietInv, NothingAbandonedBefore,
          queueVars,
          radioVars, histVars
    <2>3. Tidy' <=> Tidy
      BY <2>1 DEF Tidy, NothingAbandonedBefore, queueVars, histVars
    <2>4. FlowInv' /\ LastInv'
      BY <2>1, <2>3
      DEF OwnInv, FlowInv, LastInv, Fits, callVars, queueVars, radioVars,
          histVars
    <2>5. CountInv'
      BY <2>1, <2>3 DEF OwnInv, CountInv, Seen, queueVars, histVars
    <2> QED
      BY <2>2, <2>4, <2>5 DEF OwnInv
  <1>16. CASE Close
    BY <1>16, OwnUntouched DEF Close, callVars
  <1>17. CASE RadioItem
    BY <1>17, OwnAnswer DEF RadioItem, FrameTypes
  <1>18. CASE RadioLast
    <2>1. Head(cmds).kind \in {"single", "stream"}
      <3>1. Head(cmds) \in CommandSet
        BY <1>0, <1>18 DEF RadioLast
      <3> QED
        BY <3>1 DEF CommandSet
    <2> QED
      BY <1>18, <2>1, OwnAnswer DEF RadioLast, FrameTypes
  <1>19. CASE RadioErr
    BY <1>19, OwnAnswer DEF RadioErr, FrameTypes
  <1>20. CASE RadioSilent
    <2>1. /\ cmds # <<>> /\ cmds' = Tail(cmds)
          /\ UNCHANGED <<callVars, queueVars, readVars, sent, wire, histVars>>
      BY <1>20 DEF RadioSilent
    <2>2. /\ \A i \in 1..Len(cmds') : \E j \in 1..Len(cmds) : cmds'[i] = cmds[j]
          /\ cmds' # cmds
      BY <1>0, <2>1, TailEntries
    <2>3. FreshInv' /\ DoneInv' /\ QuietInv'
      BY <2>1, <2>2
      DEF OwnInv, FreshInv, DoneInv, QuietInv, NothingAbandonedBefore,
          queueVars,
          readVars, histVars
    <2>4. Tidy' <=> Tidy
      BY <2>1 DEF Tidy, NothingAbandonedBefore, queueVars, histVars
    <2>5. FlowInv' /\ LastInv'
      BY <2>1, <2>2, <2>4
      DEF OwnInv, FlowInv, LastInv, Fits, Handling, callVars, queueVars,
          readVars,
          histVars
    <2>6. CountInv'
      BY <2>1, <2>4
      DEF OwnInv, CountInv, Seen, Buffered, Handled, Handling, queueVars,
          readVars,
          histVars
    <2> QED
      BY <2>3, <2>5, <2>6 DEF OwnInv
  <1>21. CASE UNCHANGED vars
    BY <1>21, OwnUntouched DEF vars, callVars
  <1> QED
    BY <1>1, <1>2, <1>3, <1>4, <1>5, <1>6, <1>7, <1>8, <1>9, <1>10, <1>11,
       <1>12, <1>13, <1>14, <1>15, <1>16, <1>17, <1>18, <1>19, <1>20, <1>21
    DEF Next, Caller, ReadLoop, Radio

\* As long as no request is abandoned, every request gets its own answer and all
\* of it (Queue.run, Deliver, requestStream), for any number of callers, requests
\* and items and any capacity of the response buffer.
THEOREM OwnAnswers == Spec => []AnswersAreOwn
  <1>1. Init => IInv /\ OwnInv
    <2>1. Init => OwnInv
      BY RequestQueueAssumption
      DEF Init, OwnInv, FreshInv, DoneInv, QuietInv, FlowInv, LastInv, CountInv,
          Tidy, Handling
    <2> QED
      BY <2>1, InitIInv
  <1>2. IInv /\ OwnInv /\ [Next]_vars => IInv' /\ OwnInv'
    BY StepIInv, StepOwnInv
  <1>3. IInv /\ OwnInv => AnswersAreOwn
    <2> SUFFICES ASSUME IInv, OwnInv PROVE AnswersAreOwn
      OBVIOUS
    <2>1. \A r \in Requests : DOMAIN got[r] = 1..Len(got[r])
      BY DEF IInv, TypeOK, HistoryTypes
    <2> QED
      BY <2>1
      DEF OwnInv, DoneInv, AnswersAreOwn, MatchedUnlessAbandoned,
          CompleteUnlessAbandoned
  <1> QED
    BY <1>1, <1>2, <1>3, PTL DEF Spec
=============================================================================
