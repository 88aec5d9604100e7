-------------------------- MODULE DispatcherProofs --------------------------
(***************************************************************************)
(* Theorems about Dispatcher, for any set of subscribers, any buffer sizes *)
(* and any number of events.                                               *)
(***************************************************************************)
EXTENDS Dispatcher, Integers, TLAPS

\* Emit holds mu exactly while it has work, and works on registered,
\* open channels only.
EmitInv ==
  /\ ~emitting => todo = {} /\ step = "idle"
  /\ step # "idle" => target \in todo
  /\ todo \subseteq subs

\* Registered means open; a channel without a buffer is not registered.
SubsInv ==
  /\ \A s \in Subscribers : s \in subs <=> chan[s] = "open"
  /\ \A s \in subs : cap[s] >= 1
  /\ closed => subs = {}
  /\ \A s \in Subscribers :
       chan[s] = None => buf[s] = <<>> /\ cap[s] = 0

\* A channel still to be served holds older events only.
NewestInv ==
  \A s \in Subscribers :
    /\ newest[s] <= event
    /\ s \in todo => newest[s] < event

\* The inductive invariant.
IInv == TypeOK /\ EmitInv /\ SubsInv /\ NewestInv

\* Taking the head off a sequence.
LEMMA TailFacts ==
  ASSUME NEW S, NEW q \in Seq(S), q # <<>>
  PROVE  /\ Head(q) \in S
         /\ Tail(q) \in Seq(S)
         /\ Len(Tail(q)) = Len(q) - 1
         /\ Len(q) \in Nat
         /\ Len(Tail(q)) \in Nat
  OBVIOUS

\* Appending to a sequence.
LEMMA AppendFacts ==
  ASSUME NEW S, NEW q \in Seq(S), NEW e \in S
  PROVE  Append(q, e) \in Seq(S) /\ Len(Append(q, e)) = Len(q) + 1
  OBVIOUS

\* Initially nothing is subscribed.
LEMMA InitIInv == Init => IInv
  <1> SUFFICES ASSUME Init PROVE IInv
    OBVIOUS
  <1> USE DispatcherAssumption DEF Init, None, Events
  <1>1. TypeOK
    <2>1. buf \in [Subscribers -> Seq(1..MaxEvents)] /\ got \in [Subscribers -> Seq(1..MaxEvents)]
      OBVIOUS
    <2>2. closed \in BOOLEAN /\ emitting \in BOOLEAN
      OBVIOUS
    <2> QED
      BY <2>1, <2>2 DEF TypeOK
  <1>2. EmitInv /\ SubsInv /\ NewestInv
    BY DEF EmitInv, SubsInv, NewestInv
  <1> QED
    BY <1>1, <1>2 DEF IInv

\* Every step preserves the inductive invariant.
LEMMA StepIInv == IInv /\ [Next]_vars => IInv'
  <1> SUFFICES ASSUME IInv, [Next]_vars PROVE IInv'
    OBVIOUS
  <1> USE DispatcherAssumption DEF IInv, None, Events
  <1>1. ASSUME NEW s \in Subscribers, NEW b \in Buffers, SubscribeOpen(s, b)
        PROVE  IInv'
    <2>1. cap' = [cap EXCEPT ![s] = IF b < 1 THEN 1 ELSE b] /\ b \in Nat
      BY <1>1 DEF SubscribeOpen
    <2>2. /\ cap' \in [Subscribers -> Nat]
          /\ cap'[s] >= 1
          /\ \A r \in Subscribers \ {s} : cap'[r] = cap[r]
      BY <2>1 DEF TypeOK
    <2>3. buf[s] = <<>> /\ Len(buf[s]) = 0
      BY <1>1 DEF SubscribeOpen, TypeOK, SubsInv
    <2>4. TypeOK'
      BY <1>1, <2>2, <2>3 DEF SubscribeOpen, emitVars, TypeOK
    <2>5. EmitInv' /\ NewestInv'
      BY <1>1 DEF SubscribeOpen, emitVars, EmitInv, NewestInv
    <2>6. SubsInv'
      BY <1>1, <2>2 DEF SubscribeOpen, TypeOK, SubsInv
    <2> QED
      BY <2>4, <2>5, <2>6
  <1>2. ASSUME NEW s \in Subscribers, SubscribeClosed(s)
        PROVE  IInv'
    BY <1>2 DEF SubscribeClosed, emitVars, histVars, TypeOK, EmitInv, SubsInv, NewestInv
  <1>3. ASSUME NEW s \in Subscribers, Unsubscribe(s)
        PROVE  IInv'
    BY <1>3 DEF Unsubscribe, emitVars, histVars, TypeOK, EmitInv, SubsInv, NewestInv
  <1>4. ASSUME NEW s \in Subscribers, Receive(s)
        PROVE  IInv'
    <2>1. buf[s] \in Seq(Events) /\ got[s] \in Seq(Events) /\ buf[s] # <<>>
      BY <1>4 DEF Receive, TypeOK
    <2>2. /\ Tail(buf[s]) \in Seq(Events) /\ Head(buf[s]) \in Events
          /\ Len(Tail(buf[s])) = Len(buf[s]) - 1 /\ Len(buf[s]) \in Nat
      BY <2>1, TailFacts
    <2>3. Append(got[s], Head(buf[s])) \in Seq(Events)
      BY <2>1, <2>2, AppendFacts
    <2>4. Len(Tail(buf[s])) <= cap[s]
      BY <2>2 DEF TypeOK
    <2>5. TypeOK'
      BY <1>4, <2>2, <2>3, <2>4 DEF Receive, emitVars, histVars, TypeOK
    <2>6. EmitInv' /\ SubsInv' /\ NewestInv'
      BY <1>4 DEF Receive, emitVars, histVars, EmitInv, SubsInv, NewestInv
    <2> QED
      BY <2>5, <2>6
  <1>5. CASE EmitStart
    BY <1>5 DEF EmitStart, emitVars, histVars, TypeOK, EmitInv, SubsInv, NewestInv
  <1>6. ASSUME NEW s \in Subscribers, EmitPush(s)
        PROVE  IInv'
    BY <1>6 DEF EmitPush, emitVars, histVars, TypeOK, EmitInv, SubsInv, NewestInv
  <1>7. ASSUME NEW s \in Subscribers, EmitFull(s)
        PROVE  IInv'
    BY <1>7 DEF EmitFull, emitVars, histVars, TypeOK, EmitInv, SubsInv, NewestInv
  <1>8. CASE EmitDropOldest
    <2>1. target \in Subscribers /\ buf[target] \in Seq(Events)
      BY <1>8 DEF EmitDropOldest, TypeOK, EmitInv
    <2> DEFINE rest == IF buf[target] = <<>> THEN buf[target] ELSE Tail(buf[target])
    <2>2. rest \in Seq(Events) /\ Len(rest) <= cap[target]
      <3>1. Len(buf[target]) <= cap[target] /\ cap[target] \in Nat
        BY <2>1 DEF TypeOK
      <3>2. CASE buf[target] = <<>>
        BY <2>1, <3>1, <3>2
      <3>3. CASE buf[target] # <<>>
        <4>1. /\ Tail(buf[target]) \in Seq(Events)
              /\ Len(Tail(buf[target])) = Len(buf[target]) - 1
              /\ Len(buf[target]) \in Nat
          BY <2>1, <3>3, TailFacts
        <4> QED
          BY <3>1, <3>3, <4>1
      <3> QED
        BY <3>2, <3>3
    <2>3. buf' = [buf EXCEPT ![target] = rest]
      BY <1>8 DEF EmitDropOldest
    <2> HIDE DEF rest
    <2>4. TypeOK'
      BY <1>8, <2>1, <2>2, <2>3 DEF EmitDropOldest, histVars, TypeOK
    <2>5. EmitInv' /\ SubsInv' /\ NewestInv'
      BY <1>8 DEF EmitDropOldest, histVars, EmitInv, SubsInv, NewestInv
    <2> QED
      BY <2>4, <2>5
  <1>9. CASE EmitRetry
    <2>1. /\ target \in Subscribers /\ target \in todo /\ emitting
          /\ buf[target] \in Seq(Events) /\ event \in Events
      BY <1>9 DEF EmitRetry, TypeOK, EmitInv, NewestInv
    <2> DEFINE room == Len(buf[target]) < cap[target]
               rest == IF room THEN Append(buf[target], event) ELSE buf[target]
               top  == IF room THEN event ELSE newest[target]
    <2>2. rest \in Seq(Events) /\ Len(rest) <= cap[target]
      <3>1. /\ Append(buf[target], event) \in Seq(Events)
            /\ Len(Append(buf[target], event)) = Len(buf[target]) + 1
        BY <2>1, AppendFacts
      <3>2. Len(buf[target]) <= cap[target] /\ cap[target] \in Nat
        BY <2>1 DEF TypeOK
      <3>3. Len(buf[target]) \in Nat
        BY <2>1
      <3>4. CASE room
        BY <3>1, <3>2, <3>3, <3>4
      <3>5. CASE ~room
        BY <2>1, <3>2, <3>5
      <3> QED
        BY <3>4, <3>5
    <2>3. top \in 0..MaxEvents /\ top <= event
      BY <2>1 DEF TypeOK, NewestInv
    <2>4. /\ buf' = [buf EXCEPT ![target] = rest]
          /\ newest' = [newest EXCEPT ![target] = top]
          /\ todo' = todo \ {target}
          /\ step' = "idle" /\ target' = "none"
          /\ UNCHANGED <<subs, chan, cap, closed, emitting, event, since, full, got>>
      BY <1>9 DEF EmitRetry
    <2> HIDE DEF room, rest, top
    <2>5. TypeOK'
      BY <2>1, <2>2, <2>3, <2>4 DEF TypeOK
    <2>6. EmitInv' /\ SubsInv'
      BY <2>1, <2>4 DEF EmitInv, SubsInv
    <2>7. NewestInv'
      BY <2>1, <2>3, <2>4 DEF TypeOK, NewestInv
    <2> QED
      BY <2>5, <2>6, <2>7
  <1>10. CASE EmitEnd
    BY <1>10 DEF EmitEnd, emitVars, histVars, TypeOK, EmitInv, SubsInv, NewestInv
  <1>11. CASE Close
    BY <1>11 DEF Close, emitVars, histVars, TypeOK, EmitInv, SubsInv, NewestInv
  <1>12. CASE UNCHANGED vars
    BY <1>12 DEF vars, emitVars, histVars, TypeOK, EmitInv, SubsInv, NewestInv
  <1> QED
    BY <1>1, <1>2, <1>3, <1>4, <1>5, <1>6, <1>7, <1>8, <1>9, <1>10, <1>11, <1>12
    DEF Next, Subscriber, Emit

\* Types and capacities hold in every reachable state.
THEOREM TypeCorrect == Spec => []TypeOK
  BY InitIInv, StepIInv, PTL DEF Spec, IInv

\* Emit never sends on a closed channel.
THEOREM NeverSendsOnClosed == Spec => []NoSendOnClosed
  <1>1. IInv => NoSendOnClosed
    BY DEF IInv, TypeOK, EmitInv, SubsInv, NoSendOnClosed
  <1> QED
    BY <1>1, InitIInv, StepIInv, PTL DEF Spec

\* A step of the dispatcher is a step of every subscriber's channel, or
\* leaves that channel alone.
LEMMA StepSimulation ==
  ASSUME IInv, [Next]_vars, NEW t \in Subscribers
  PROVE  [Fifo(t)!Next]_(Fifo(t)!vars)
  <1> USE DispatcherAssumption DEF IInv, None, Events, Fifo!Next, Fifo!vars
  <1>1. ASSUME NEW s \in Subscribers, NEW b \in Buffers, SubscribeOpen(s, b)
        PROVE  Fifo(t)!Open \/ UNCHANGED Fifo(t)!vars
    BY <1>1 DEF SubscribeOpen, histVars, TypeOK, Fifo!Open
  <1>2. ASSUME NEW s \in Subscribers, SubscribeClosed(s)
        PROVE  Fifo(t)!Open \/ UNCHANGED Fifo(t)!vars
    <2>1. cap[s] = 0
      BY <1>2 DEF SubscribeClosed, SubsInv
    <2> QED
      BY <1>2, <2>1 DEF SubscribeClosed, histVars, TypeOK, Fifo!Open
  <1>3. ASSUME NEW s \in Subscribers, Unsubscribe(s)
        PROVE  Fifo(t)!Shut \/ UNCHANGED Fifo(t)!vars
    BY <1>3 DEF Unsubscribe, histVars, TypeOK, SubsInv, Fifo!Shut
  <1>4. ASSUME NEW s \in Subscribers, Receive(s)
        PROVE  Fifo(t)!Take \/ UNCHANGED Fifo(t)!vars
    BY <1>4 DEF Receive, histVars, TypeOK, Fifo!Take
  <1>5. CASE EmitStart
    BY <1>5 DEF EmitStart, histVars
  <1>6. ASSUME NEW s \in Subscribers, EmitPush(s)
        PROVE  Fifo(t)!Put \/ UNCHANGED Fifo(t)!vars
    BY <1>6 DEF EmitPush, TypeOK, EmitInv, SubsInv, NewestInv, Fifo!Put
  <1>7. ASSUME NEW s \in Subscribers, EmitFull(s)
        PROVE  UNCHANGED Fifo(t)!vars
    BY <1>7 DEF EmitFull
  <1>8. CASE EmitDropOldest
    <2>1. target \in Subscribers /\ chan[target] = "open"
      BY <1>8 DEF EmitDropOldest, TypeOK, EmitInv, SubsInv
    <2>2. Fifo(t)!Lose \/ UNCHANGED Fifo(t)!vars
      BY <1>8, <2>1 DEF EmitDropOldest, histVars, TypeOK, Fifo!Lose
    <2> QED
      BY <2>2
  <1>9. CASE EmitRetry
    <2>1. /\ target \in Subscribers /\ chan[target] = "open"
          /\ newest[target] < event /\ event \in Nat
      BY <1>9 DEF EmitRetry, TypeOK, EmitInv, SubsInv, NewestInv
    <2>2. Fifo(t)!Put \/ UNCHANGED Fifo(t)!vars
      BY <1>9, <2>1 DEF EmitRetry, TypeOK, Fifo!Put
    <2> QED
      BY <2>2
  <1>10. CASE EmitEnd
    BY <1>10 DEF EmitEnd, histVars
  <1>11. CASE Close
    <2>1. Fifo(t)!Shut \/ UNCHANGED Fifo(t)!vars
      BY <1>11 DEF Close, histVars, TypeOK, SubsInv, Fifo!Shut
    <2> QED
      BY <2>1
  <1>12. CASE UNCHANGED vars
    BY <1>12 DEF vars, histVars
  <1> QED
    BY <1>1, <1>2, <1>3, <1>4, <1>5, <1>6, <1>7, <1>8, <1>9, <1>10, <1>11, <1>12
    DEF Next, Subscriber, Emit

\* Each subscriber's channel implements the abstract lossy FIFO.
THEOREM RefinesLossyChannel == Spec => ImplementsLossyChannel
  <1>1. Init => \A s \in Subscribers : Fifo(s)!Init
    BY DEF Init, None, Fifo!Init
  <1>2. IInv /\ [Next]_vars
          => [\A s \in Subscribers : [Fifo(s)!Next]_(Fifo(s)!vars)]_vars
    BY StepSimulation
  <1> QED
    BY <1>1, <1>2, InitIInv, StepIInv, PTL DEF Spec, ImplementsLossyChannel
-----------------------------------------------------------------------------
(* What Emit gives up.                                                     *)

\* A channel that Emit has taken the oldest event from has room: only the
\* consumer touches it in between, and a consumer makes more room.
RoomInv == step = "dropped" => Len(buf[target]) < cap[target]

\* The events a subscriber has received or can still receive, and with them
\* those that a full channel may have cost it.
Taken(s) == Len(got[s])
Waiting(s) == Len(buf[s])
Held(s) == Taken(s) + Waiting(s)
Settled(s) == Held(s) + full[s]

\* All events since the subscription are settled but the one of an Emit that
\* has yet to serve the subscriber; that one too between the counting of the
\* full channel and the drop.
DebtInv ==
  \A s \in subs :
    /\ Settled(s) + 1 >= event - since[s]
    /\ s \notin todo => Settled(s) >= event - since[s]
    /\ step = "full" /\ s = target => Settled(s) >= event - since[s]

\* The last element of a sequence.
Latest(q) == q[Len(q)]

\* Whoever has been served has the event at the end of its stream.
ServedInv ==
  \A s \in subs :
    s \notin todo /\ since[s] < event =>
      Stream(s) # <<>> /\ Latest(Stream(s)) = event

\* The inductive invariant, on top of IInv.
LossInv == RoomInv /\ DebtInv /\ ServedInv

\* A stream is as long as its two parts.
LEMMA StreamLen ==
  ASSUME NEW S, NEW g \in Seq(S), NEW b \in Seq(S)
  PROVE  /\ g \o b \in Seq(S)
         /\ Len(g \o b) = Len(g) + Len(b)
         /\ Len(g) \in Nat /\ Len(b) \in Nat
  OBVIOUS

\* What is put into the channel is the last element of the stream.
LEMMA StreamPut ==
  ASSUME NEW S, NEW g \in Seq(S), NEW b \in Seq(S), NEW e \in S
  PROVE  g \o Append(b, e) # <<>> /\ Latest(g \o Append(b, e)) = e
  <1>1. Append(b, e) \in Seq(S) /\ Len(Append(b, e)) = Len(b) + 1
    OBVIOUS
  <1>2. Append(b, e)[Len(b) + 1] = e
    OBVIOUS
  <1>3. Len(g \o Append(b, e)) = Len(g) + (Len(b) + 1)
    BY <1>1
  <1>4. (g \o Append(b, e))[Len(g) + (Len(b) + 1)] = Append(b, e)[Len(b) + 1]
    BY <1>1
  <1>5. Len(g) \in Nat /\ Len(b) \in Nat
    OBVIOUS
  <1>6. g \o Append(b, e) # <<>>
    BY <1>3, <1>5
  <1> QED
    BY <1>2, <1>3, <1>4, <1>6 DEF Latest

\* Receiving moves an event within the stream.
LEMMA StreamTake ==
  ASSUME NEW S, NEW g \in Seq(S), NEW b \in Seq(S), b # <<>>
  PROVE  Append(g, Head(b)) \o Tail(b) = g \o b
  <1> DEFINE t == Append(g, Head(b)) \o Tail(b)
             u == g \o b
  <1>1. /\ Head(b) \in S /\ Tail(b) \in Seq(S) /\ Len(Tail(b)) = Len(b) - 1
        /\ Len(b) \in Nat /\ Len(g) \in Nat
    BY TailFacts
  <1>2. Append(g, Head(b)) \in Seq(S) /\ Len(Append(g, Head(b))) = Len(g) + 1
    BY <1>1, AppendFacts
  <1>3. t \in Seq(S) /\ u \in Seq(S) /\ Len(t) = Len(u)
    BY <1>1, <1>2
  <1>4. ASSUME NEW i \in 1..Len(u) PROVE t[i] = u[i]
    <2>1. CASE i <= Len(g)
      BY <1>1, <1>2, <2>1
    <2>2. CASE i = Len(g) + 1
      BY <1>1, <1>2, <2>2
    <2>3. CASE i > Len(g) + 1
      <3>1. t[i] = Tail(b)[i - (Len(g) + 1)]
        BY <1>1, <1>2, <1>3, <2>3
      <3>2. u[i] = b[i - Len(g)]
        BY <1>1, <1>3, <2>3
      <3>3. Tail(b)[i - (Len(g) + 1)] = b[(i - (Len(g) + 1)) + 1]
        BY <1>1, <1>3, <2>3
      <3> QED
        BY <1>1, <3>1, <3>2, <3>3
    <2> QED
      BY <1>1, <2>1, <2>2, <2>3
  <1> QED
    BY <1>3, <1>4

\* Every step preserves the three parts.
LEMMA StepLossInv == IInv /\ LossInv /\ [Next]_vars => LossInv'
  <1> SUFFICES ASSUME IInv, LossInv, [Next]_vars PROVE LossInv'
    OBVIOUS
  <1> USE DispatcherAssumption DEF IInv, LossInv, None, Events
  <1>0. /\ \A s \in Subscribers :
             /\ got[s] \in Seq(Events) /\ buf[s] \in Seq(Events)
             /\ Len(got[s]) \in Nat /\ Len(buf[s]) \in Nat
             /\ full[s] \in Nat /\ cap[s] \in Nat
             /\ since[s] \in Int
        /\ event \in Int
        /\ subs \subseteq Subscribers
    BY DEF TypeOK
  <1>n. /\ \A s \in Subscribers : full[s] \in Int /\ since[s] \in Int
        /\ event \in Int
        /\ subs \subseteq Subscribers
    BY <1>0
  <1>h. \A s \in Subscribers : Taken(s) \in Int /\ Waiting(s) \in Int
    BY <1>0 DEF Taken, Waiting
  <1>d. \A s \in Subscribers : Settled(s) \in Int
    BY <1>0, <1>h DEF Held, Settled
  <1>1. ASSUME NEW s \in Subscribers, NEW b \in Buffers, SubscribeOpen(s, b)
        PROVE  LossInv'
    <2>1. /\ subs' = subs \union {s}
          /\ since' = [since EXCEPT ![s] = event]
          /\ step = "idle" /\ todo = {}
          /\ UNCHANGED <<buf, emitting, todo, step, target, event, full, got>>
      BY <1>1 DEF SubscribeOpen, emitVars, EmitInv
    <2>2. RoomInv'
      BY <2>1 DEF RoomInv
    <2>3. DebtInv'
      <3>1. \A q \in Subscribers : Settled(q)' = Settled(q)
        BY <2>1 DEF Settled, Held, Taken, Waiting
      <3>2. Settled(s) >= 0
        <4>1. Taken(s) \in Nat /\ Waiting(s) \in Nat /\ full[s] \in Nat
          BY <1>0 DEF Taken, Waiting
        <4> QED
          BY <4>1 DEF Settled, Held
      <3> QED
        BY <1>n, <1>d, <2>1, <3>1, <3>2 DEF DebtInv, TypeOK
    <2>4. ServedInv'
      <3> SUFFICES ASSUME NEW q \in subs', since'[q] < event
                   PROVE  Stream(q) # <<>> /\ Latest(Stream(q)) = event
        BY <2>1 DEF ServedInv, Stream
      <3>1. q # s /\ q \in subs /\ since[q] < event
        BY <1>0, <2>1 DEF TypeOK
      <3> QED
        BY <2>1, <3>1 DEF ServedInv
    <2> QED
      BY <2>2, <2>3, <2>4
  <1>2. ASSUME NEW s \in Subscribers, SubscribeClosed(s)
        PROVE  LossInv'
    BY <1>2 DEF SubscribeClosed, emitVars, histVars, RoomInv, DebtInv,
                Settled, Held, Taken, Waiting, ServedInv, Stream
  <1>3. ASSUME NEW s \in Subscribers, Unsubscribe(s)
        PROVE  LossInv'
    BY <1>3 DEF Unsubscribe, emitVars, histVars, RoomInv, DebtInv,
                Settled, Held, Taken, Waiting, ServedInv, Stream
  <1>4. ASSUME NEW s \in Subscribers, Receive(s)
        PROVE  LossInv'
    <2> DEFINE h == Append(got[s], Head(buf[s]))
               r == Tail(buf[s])
    <2>1. /\ got' = [got EXCEPT ![s] = h]
          /\ buf' = [buf EXCEPT ![s] = r]
          /\ UNCHANGED <<subs, cap, todo, step, target, event, since, full>>
          /\ buf[s] # <<>>
      BY <1>4 DEF Receive, emitVars, histVars
    <2>2. Len(r) = Len(buf[s]) - 1 /\ Len(h) = Len(got[s]) + 1
      BY <1>0, <2>1, TailFacts, AppendFacts
    <2>3. h \o r = got[s] \o buf[s]
      BY <1>0, <2>1, StreamTake
    <2> HIDE DEF h, r
    <2>4. \A q \in Subscribers :
            Settled(q)' = Settled(q) /\ Stream(q)' = Stream(q)
      <3> SUFFICES ASSUME NEW q \in Subscribers
                   PROVE  Settled(q)' = Settled(q) /\ Stream(q)' = Stream(q)
        OBVIOUS
      <3>1. CASE q = s
        <4>1. got'[q] = h /\ buf'[q] = r
          BY <2>1, <3>1 DEF TypeOK
        <4>2. Taken(q)' = Taken(q) + 1 /\ Waiting(q)' = Waiting(q) - 1
          BY <2>2, <3>1, <4>1 DEF Taken, Waiting
        <4>3. Stream(q)' = Stream(q)
          BY <2>3, <3>1, <4>1 DEF Stream
        <4> QED
          BY <1>h, <2>1, <4>2, <4>3 DEF Settled, Held
      <3>2. CASE q # s
        <4>1. got'[q] = got[q] /\ buf'[q] = buf[q]
          BY <2>1, <3>2 DEF TypeOK
        <4> QED
          BY <2>1, <4>1 DEF Taken, Waiting, Held, Settled, Stream
      <3> QED
        BY <3>1, <3>2
    <2>5. RoomInv'
      BY <1>0, <2>1, <2>2 DEF RoomInv, TypeOK, EmitInv
    <2>6. DebtInv'
      BY <1>0, <2>1, <2>4 DEF DebtInv
    <2>7. ServedInv'
      BY <1>0, <2>1, <2>4 DEF ServedInv
    <2> QED
      BY <2>5, <2>6, <2>7
  <1>5. CASE EmitStart
    <2>1. /\ todo = {} /\ todo' = subs /\ event' = event + 1 /\ step = "idle"
          /\ UNCHANGED <<subs, cap, buf, step, target, since, full, got>>
      BY <1>5 DEF EmitStart, histVars, EmitInv
    <2>2. RoomInv' /\ ServedInv'
      BY <2>1 DEF RoomInv, ServedInv
    <2>3. \A q \in Subscribers : Settled(q)' = Settled(q)
      BY <2>1 DEF Held, Settled, Taken, Waiting
    <2>4. DebtInv'
      BY <1>n, <1>d, <2>1, <2>3 DEF DebtInv
    <2> QED
      BY <2>2, <2>4
  <1>6. ASSUME NEW s \in Subscribers, EmitPush(s)
        PROVE  LossInv'
    <2> DEFINE r == Append(buf[s], event)
    <2>1. /\ buf' = [buf EXCEPT ![s] = r]
          /\ todo' = todo \ {s} /\ s \in todo /\ step = "idle"
          /\ UNCHANGED <<subs, cap, step, target, event, since, full, got>>
      BY <1>6 DEF EmitPush
    <2>2. event \in Events
      BY <1>0, <2>1 DEF NewestInv, TypeOK
    <2>3. /\ Len(r) = Len(buf[s]) + 1
          /\ got[s] \o r # <<>>
          /\ Latest(got[s] \o r) = event
      <3>1. /\ got[s] \in Seq(Events) /\ buf[s] \in Seq(Events)
            /\ event \in Events
        BY <1>0, <2>2
      <3> HIDE DEF Events
      <3>2. Len(r) = Len(buf[s]) + 1
        BY <3>1, AppendFacts
      <3>3. /\ got[s] \o r # <<>>
            /\ Latest(got[s] \o r) = event
        BY <3>1, StreamPut
      <3> QED
        BY <3>2, <3>3
    <2> HIDE DEF r
    <2>4. RoomInv'
      BY <2>1 DEF RoomInv
    <2>5. DebtInv'
      <3>1. /\ Waiting(s)' = Waiting(s) + 1
            /\ \A q \in Subscribers \ {s} : Waiting(q)' = Waiting(q)
            /\ \A q \in Subscribers : Taken(q)' = Taken(q)
        BY <2>1, <2>3 DEF Taken, Waiting, TypeOK
      <3>2. /\ Settled(s)' = Settled(s) + 1
            /\ \A q \in Subscribers \ {s} : Settled(q)' = Settled(q)
        BY <1>n, <1>h, <2>1, <3>1 DEF Settled, Held
      <3> QED
        BY <1>n, <1>d, <2>1, <3>2 DEF DebtInv
    <2>6. ServedInv'
      BY <1>0, <2>1, <2>3 DEF ServedInv, Stream, TypeOK
    <2> QED
      BY <2>4, <2>5, <2>6
  <1>7. ASSUME NEW s \in Subscribers, EmitFull(s)
        PROVE  LossInv'
    <2>1. /\ full' = [full EXCEPT ![s] = @ + 1]
          /\ step = "idle" /\ step' = "full" /\ target' = s /\ s \in todo
          /\ UNCHANGED <<subs, cap, buf, todo, event, since, got>>
      BY <1>7 DEF EmitFull
    <2>2. RoomInv' /\ ServedInv'
      BY <2>1 DEF RoomInv, ServedInv, Stream
    <2>3. DebtInv'
      <3>1. /\ Settled(s)' = Settled(s) + 1
            /\ \A q \in Subscribers \ {s} : Settled(q)' = Settled(q)
        <4>1. /\ \A q \in Subscribers : Held(q)' = Held(q) /\ Held(q) \in Int
              /\ full'[s] = full[s] + 1 /\ full[s] \in Int
              /\ \A q \in Subscribers \ {s} : full'[q] = full[q]
          BY <1>n, <1>h, <2>1 DEF Held, Taken, Waiting, TypeOK
        <4> QED
          BY <4>1 DEF Settled
      <3> QED
        BY <1>n, <1>d, <2>1, <3>1 DEF DebtInv
    <2> QED
      BY <2>2, <2>3
  <1>8. CASE EmitDropOldest
    <2> DEFINE rest == IF buf[target] = <<>> THEN buf[target]
                       ELSE Tail(buf[target])
    <2>1. /\ buf' = [buf EXCEPT ![target] = rest]
          /\ step = "full" /\ step' = "dropped"
          /\ target \in todo /\ target \in subs
          /\ UNCHANGED <<subs, cap, todo, target, event, since, full, got>>
      BY <1>8 DEF EmitDropOldest, histVars, EmitInv
    <2>2. target \in Subscribers /\ cap[target] >= 1
          /\ Len(buf[target]) <= cap[target]
      BY <1>0, <2>1 DEF SubsInv, TypeOK
    <2>3. /\ Len(rest) \in Nat
          /\ Len(rest) < cap[target]
          /\ Len(rest) >= Len(buf[target]) - 1
      <3>1. CASE buf[target] = <<>>
        BY <1>0, <2>2, <3>1
      <3>2. CASE buf[target] # <<>>
        <4>1. Len(Tail(buf[target])) = Len(buf[target]) - 1
              /\ Len(Tail(buf[target])) \in Nat
          BY <1>0, <2>2, <3>2, TailFacts
        <4> QED
          BY <1>0, <2>2, <3>2, <4>1
      <3> QED
        BY <3>1, <3>2
    <2> HIDE DEF rest
    <2>4. RoomInv'
      BY <1>0, <2>1, <2>2, <2>3 DEF RoomInv, TypeOK
    <2>5. DebtInv'
      <3>1. /\ Settled(target)' >= Settled(target) - 1
            /\ Settled(target)' \in Int
            /\ \A q \in Subscribers \ {target} : Settled(q)' = Settled(q)
        <4>1. /\ Waiting(target)' >= Waiting(target) - 1
              /\ Waiting(target)' \in Int
              /\ \A q \in Subscribers \ {target} : Waiting(q)' = Waiting(q)
              /\ \A q \in Subscribers : Taken(q)' = Taken(q)
          BY <2>1, <2>2, <2>3 DEF Taken, Waiting, TypeOK
        <4> QED
          BY <1>n, <1>h, <2>1, <2>2, <4>1 DEF Settled, Held
      <3>2. /\ Settled(target) >= event - since[target]
            /\ Settled(target)' + 1 >= event - since[target]
        BY <1>n, <1>d, <2>1, <2>2, <3>1 DEF DebtInv
      <3> QED
        BY <1>n, <1>d, <2>1, <2>2, <3>1, <3>2 DEF DebtInv
    <2>6. ServedInv'
      BY <1>0, <2>1 DEF ServedInv, Stream, TypeOK
    <2> QED
      BY <2>4, <2>5, <2>6
  <1>9. CASE EmitRetry
    <2> DEFINE r == Append(buf[target], event)
    <2>1. /\ step = "dropped" /\ step' = "idle"
          /\ target \in todo /\ target \in subs /\ target \in Subscribers
          /\ todo' = todo \ {target}
          /\ UNCHANGED <<subs, cap, event, since, full, got>>
      BY <1>0, <1>9 DEF EmitRetry, EmitInv
    <2>2. buf' = [buf EXCEPT ![target] = r]
      BY <1>9, <2>1 DEF EmitRetry, RoomInv
    <2>3. event \in Events
      BY <1>0, <2>1 DEF NewestInv, TypeOK
    <2>4. /\ Len(r) = Len(buf[target]) + 1
          /\ got[target] \o r # <<>>
          /\ Latest(got[target] \o r) = event
      <3>1. /\ got[target] \in Seq(Events) /\ buf[target] \in Seq(Events)
            /\ event \in Events
        BY <1>0, <2>1, <2>3
      <3> HIDE DEF Events
      <3>2. Len(r) = Len(buf[target]) + 1
        BY <3>1, AppendFacts
      <3>3. /\ got[target] \o r # <<>>
            /\ Latest(got[target] \o r) = event
        BY <3>1, StreamPut
      <3> QED
        BY <3>2, <3>3
    <2> HIDE DEF r
    <2>5. RoomInv'
      BY <2>1 DEF RoomInv
    <2>6. DebtInv'
      <3>0. PICK s \in Subscribers : s = target
        BY <2>1
      <3>1. /\ Waiting(s)' = Waiting(s) + 1
            /\ \A q \in Subscribers \ {s} : Waiting(q)' = Waiting(q)
            /\ \A q \in Subscribers : Taken(q)' = Taken(q)
        BY <2>1, <2>2, <2>4, <3>0 DEF Taken, Waiting, TypeOK
      <3>2. /\ Settled(s)' = Settled(s) + 1
            /\ \A q \in Subscribers \ {s} : Settled(q)' = Settled(q)
        BY <1>n, <1>h, <2>1, <3>1 DEF Settled, Held
      <3> QED
        BY <1>n, <1>d, <2>1, <3>0, <3>2 DEF DebtInv
    <2>7. ServedInv'
      BY <1>0, <2>1, <2>2, <2>4 DEF ServedInv, Stream, TypeOK
    <2> QED
      BY <2>5, <2>6, <2>7
  <1>10. CASE EmitEnd
    BY <1>10 DEF EmitEnd, histVars, RoomInv, DebtInv, Settled, Held, Taken,
                 Waiting, ServedInv,
                 Stream
  <1>11. CASE Close
    BY <1>11 DEF Close, emitVars, histVars, RoomInv, DebtInv, ServedInv,
                 EmitInv
  <1>12. CASE UNCHANGED vars
    BY <1>12 DEF vars, emitVars, histVars, RoomInv, DebtInv, Settled,
                 Held, Taken, Waiting, ServedInv, Stream
  <1> QED
    BY <1>1, <1>2, <1>3, <1>4, <1>5, <1>6, <1>7, <1>8, <1>9, <1>10, <1>11,
       <1>12
    DEF Next, Subscriber, Emit

\* A subscriber loses at most one event for every time Emit found its channel
\* full, and never the newest, however many subscribers and events there are
\* and whatever the consumers do between the channel operations of Emit.
THEOREM LossBounded == Spec => []LossIsBounded
  <1>1. Init => LossInv
    BY DEF Init, LossInv, RoomInv, DebtInv, ServedInv
  <1>2. IInv /\ LossInv => LossIsBounded
    <2> SUFFICES ASSUME IInv, LossInv PROVE LossIsBounded
      OBVIOUS
    <2>1. NewestIsKept
      BY DEF IInv, LossInv, EmitInv, ServedInv, NewestIsKept, Latest
    <2>2. LossBoundedByFull
      <3> SUFFICES ASSUME NEW s \in subs
                   PROVE  Len(Stream(s)) + full[s]
                            >= (event - since[s])
                               - (IF s \in todo THEN 1 ELSE 0)
        BY DEF LossBoundedByFull
      <3>1. /\ s \in Subscribers
            /\ got[s] \in Seq(Events) /\ buf[s] \in Seq(Events)
            /\ full[s] \in Nat /\ since[s] \in Int /\ event \in Int
        BY DispatcherAssumption DEF IInv, TypeOK
      <3>2. Len(Stream(s)) = Len(got[s]) + Len(buf[s])
            /\ Len(got[s]) \in Nat /\ Len(buf[s]) \in Nat
        BY <3>1, StreamLen DEF Stream
      <3> DEFINE n == Len(Stream(s))
      <3>3. n = Held(s) /\ n \in Int
        BY <3>2 DEF Held, Taken, Waiting
      <3> HIDE DEF n
      <3>4. /\ (n + full[s]) + 1 >= event - since[s]
            /\ s \notin todo => n + full[s] >= event - since[s]
        BY <3>3 DEF LossInv, DebtInv, Settled
      <3>5. n + full[s] >= (event - since[s]) - (IF s \in todo THEN 1 ELSE 0)
        BY <3>1, <3>3, <3>4
      <3> QED
        BY <3>5 DEF n
    <2> QED
      BY <2>1, <2>2 DEF LossIsBounded
  <1> QED
    BY <1>1, <1>2, InitIInv, StepIInv, StepLossInv, PTL DEF Spec
=============================================================================
