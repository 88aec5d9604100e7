----------------------------- MODULE Dispatcher -----------------------------
(***************************************************************************)
(* internal/dispatcher: one producer side (Emit, under mu) fanning events  *)
(* out to subscribers that each own a buffered channel, with consumers     *)
(* receiving concurrently.  The consumer needs no lock, so each channel    *)
(* operation of Emit is a step of its own.  Events are the numbers         *)
(* 1, 2, ... in the order in which Emit obtained mu.                       *)
(***************************************************************************)
EXTENDS Naturals, Sequences

CONSTANTS
  Subscribers,  \* subscriptions, each made at most once (nextID is fresh)
  Buffers,      \* values callers pass to Subscribe as buffer
  MaxEvents     \* bound: number of Emit calls

ASSUME DispatcherAssumption ==
  /\ Buffers \subseteq Nat
  /\ MaxEvents \in Nat

None == "none"

VARIABLES
  subs,     \* d.subs: registered subscribers
  chan,     \* [Subscribers -> none | open | closed]
  cap,      \* capacity of each channel
  buf,      \* contents of each channel
  closed,   \* d.closed
  emitting, \* mu is held by Emit
  todo,     \* subscribers Emit has not served yet
  step,     \* progress on one full channel: idle | full | dropped
  target,   \* the subscriber that step is about
  event,    \* history: number of events emitted
  since,    \* history: events emitted before the subscription
  full,     \* history: times Emit found the channel full
  newest,   \* history: last event put into the channel
  got       \* history: events the consumer received

emitVars == <<emitting, todo, step, target, event>>
histVars == <<since, full, newest>>
vars == <<subs, chan, cap, buf, closed, emitVars, histVars, got>>

Init ==
  /\ subs = {}
  /\ chan = [s \in Subscribers |-> None]
  /\ cap = [s \in Subscribers |-> 0]
  /\ buf = [s \in Subscribers |-> <<>>]
  /\ closed = FALSE
  /\ emitting = FALSE
  /\ todo = {}
  /\ step = "idle"
  /\ target = None
  /\ event = 0
  /\ since = [s \in Subscribers |-> 0]
  /\ full = [s \in Subscribers |-> 0]
  /\ got = [s \in Subscribers |-> <<>>]
  /\ newest = [s \in Subscribers |-> 0]
-----------------------------------------------------------------------------
\* Subscribe(buffer): at least one slot; after Close a closed channel.
SubscribeOpen(s, b) ==
  /\ ~emitting
  /\ chan[s] = None
  /\ ~closed
  /\ chan' = [chan EXCEPT ![s] = "open"]
  /\ cap' = [cap EXCEPT ![s] = IF b < 1 THEN 1 ELSE b]
  /\ subs' = subs \union {s}
  /\ since' = [since EXCEPT ![s] = event]
  /\ UNCHANGED <<buf, closed, emitVars, full, newest, got>>

SubscribeClosed(s) ==
  /\ ~emitting
  /\ chan[s] = None
  /\ closed
  /\ chan' = [chan EXCEPT ![s] = "closed"]
  /\ UNCHANGED <<subs, cap, buf, closed, emitVars, histVars, got>>

\* Faulty variant: the channel is closed without taking mu.
Unsubscribe_NoLock(s) ==
  /\ s \in subs
  /\ subs' = subs \ {s}
  /\ chan' = [chan EXCEPT ![s] = "closed"]
  /\ UNCHANGED <<cap, buf, closed, emitVars, histVars, got>>

\* The cancel function; a second call finds nothing to delete.
Unsubscribe(s) ==
  /\ ~emitting
  /\ s \in subs
  /\ subs' = subs \ {s}
  /\ chan' = [chan EXCEPT ![s] = "closed"]
  /\ UNCHANGED <<cap, buf, closed, emitVars, histVars, got>>

Close ==
  /\ ~emitting
  /\ ~closed
  /\ closed' = TRUE
  /\ chan' = [s \in Subscribers |-> IF s \in subs THEN "closed" ELSE chan[s]]
  /\ subs' = {}
  /\ UNCHANGED <<cap, buf, emitVars, histVars, got>>
-----------------------------------------------------------------------------
\* Emit obtains mu; after Close it returns at once (no step).
EmitStart ==
  /\ ~emitting
  /\ ~closed
  /\ event < MaxEvents
  /\ emitting' = TRUE
  /\ event' = event + 1
  /\ todo' = subs
  /\ UNCHANGED <<subs, chan, cap, buf, closed, step, target, histVars, got>>

\* Room in the channel: case ch <- ev.
EmitPush(s) ==
  /\ emitting /\ step = "idle"
  /\ s \in todo
  /\ Len(buf[s]) < cap[s]
  /\ buf' = [buf EXCEPT ![s] = Append(@, event)]
  /\ newest' = [newest EXCEPT ![s] = event]
  /\ todo' = todo \ {s}
  /\ UNCHANGED <<subs, chan, cap, closed, emitting, step, target, event,
                 since, full, got>>

\* No room: the default branch.
EmitFull(s) ==
  /\ emitting /\ step = "idle"
  /\ s \in todo
  /\ Len(buf[s]) >= cap[s]
  /\ step' = "full"
  /\ target' = s
  /\ full' = [full EXCEPT ![s] = @ + 1]
  /\ UNCHANGED <<subs, chan, cap, buf, closed, emitting, todo, event, since,
                 newest, got>>

\* Faulty variant: nothing makes room.
EmitDropOldest_KeepsOldest ==
  /\ step = "full"
  /\ step' = "dropped"
  /\ UNCHANGED <<subs, chan, cap, buf, closed, emitting, todo, target, event,
                 histVars, got>>

\* select { case <-ch: default: }: the consumer may have drained it since.
EmitDropOldest ==
  /\ step = "full"
  /\ step' = "dropped"
  /\ buf' = [buf EXCEPT ![target] = IF @ = <<>> THEN @ ELSE Tail(@)]
  /\ UNCHANGED <<subs, chan, cap, closed, emitting, todo, target, event,
                 histVars, got>>

\* Faulty variant: the event is put in front of those still waiting.
EmitRetry_InFront ==
  /\ step = "dropped"
  /\ buf' = [buf EXCEPT ![target] = <<event>> \o @]
  /\ todo' = todo \ {target}
  /\ step' = "idle"
  /\ target' = None
  /\ UNCHANGED <<subs, chan, cap, closed, emitting, event, histVars, got>>

\* select { case ch <- ev: default: }
EmitRetry ==
  LET room == Len(buf[target]) < cap[target]
  IN  /\ step = "dropped"
      /\ buf' = [buf EXCEPT ![target] = IF room THEN Append(@, event) ELSE @]
      /\ newest' = [newest EXCEPT ![target] = IF room THEN event ELSE @]
      /\ todo' = todo \ {target}
      /\ step' = "idle"
      /\ target' = None
      /\ UNCHANGED <<subs, chan, cap, closed, emitting, event, since, full,
                     got>>

\* Faulty variant: mu is kept until the consumers have caught up.
EmitEnd_WaitsForConsumers ==
  /\ emitting /\ step = "idle" /\ todo = {}
  /\ \A s \in subs : buf[s] = <<>>
  /\ emitting' = FALSE
  /\ UNCHANGED <<subs, chan, cap, buf, closed, todo, step, target, event,
                 histVars, got>>

EmitEnd ==
  /\ emitting /\ step = "idle" /\ todo = {}
  /\ emitting' = FALSE
  /\ UNCHANGED <<subs, chan, cap, buf, closed, todo, step, target, event,
                 histVars, got>>

\* A consumer receives; a closed channel still hands out what it holds.
Receive(s) ==
  /\ buf[s] # <<>>
  /\ got' = [got EXCEPT ![s] = Append(@, Head(buf[s]))]
  /\ buf' = [buf EXCEPT ![s] = Tail(@)]
  /\ UNCHANGED <<subs, chan, cap, closed, emitVars, histVars>>
-----------------------------------------------------------------------------
Subscriber(s) ==
  \/ \E b \in Buffers : SubscribeOpen(s, b)
  \/ SubscribeClosed(s)
  \/ Unsubscribe(s)
  \/ Receive(s)

Emit ==
  \/ EmitStart
  \/ \E s \in Subscribers : EmitPush(s) \/ EmitFull(s)
  \/ EmitDropOldest
  \/ EmitRetry
  \/ EmitEnd

Next == (\E s \in Subscribers : Subscriber(s)) \/ Emit \/ Close

Spec == Init /\ [][Next]_vars

\* A goroutine inside Emit keeps running; consumers are under no obligation.
EmitStep ==
  \/ \E s \in Subscribers : EmitPush(s) \/ EmitFull(s)
  \/ EmitDropOldest
  \/ EmitRetry
  \/ EmitEnd

FairSpec == Spec /\ WF_vars(EmitStep)
-----------------------------------------------------------------------------
(* Properties                                                              *)

Events == 1..MaxEvents

\* Types of the variables; no channel holds more than its capacity.
TypeOK ==
  /\ subs \subseteq Subscribers
  /\ chan \in [Subscribers -> {None, "open", "closed"}]
  /\ cap \in [Subscribers -> Nat]
  /\ buf \in [Subscribers -> Seq(Events)]
  /\ \A s \in Subscribers : Len(buf[s]) <= cap[s]
  /\ closed \in BOOLEAN
  /\ emitting \in BOOLEAN
  /\ todo \subseteq Subscribers
  /\ step \in {"idle", "full", "dropped"}
  /\ target \in Subscribers \union {None}
  /\ event \in 0..MaxEvents
  /\ since \in [Subscribers -> 0..MaxEvents]
  /\ full \in [Subscribers -> Nat]
  /\ got \in [Subscribers -> Seq(Events)]
  /\ newest \in [Subscribers -> 0..MaxEvents]

\* What subscriber s has received or can still receive, oldest first.
Stream(s) == got[s] \o buf[s]

\* Emit never sends on a closed channel (a panic in Go), although channels
\* are closed by unsubscribe and Close while events are in flight.
NoSendOnClosed == \A s \in todo : s \in subs /\ chan[s] = "open"

\* When Emit returns, its event is the last one of every subscriber's stream:
\* making room never costs the newest event, whatever the consumer does
\* between the three channel operations.
NewestIsKept ==
  ~emitting =>
    \A s \in subs :
      since[s] < event =>
        /\ Stream(s) # <<>>
        /\ Stream(s)[Len(Stream(s))] = event

\* A subscriber loses at most one event for every time Emit found its channel
\* full, and one that kept up has lost nothing since it subscribed.
LossBoundedByFull ==
  \A s \in subs :
    LET offered == (event - since[s]) - (IF s \in todo THEN 1 ELSE 0)
    IN  Len(Stream(s)) + full[s] >= offered

\* Both: what Emit gives up to make room is bounded and never the newest.
LossIsBounded == NewestIsKept /\ LossBoundedByFull

Fifo(s) == INSTANCE LossyChannel WITH
  queue <- buf[s], taken <- got[s], newest <- newest[s],
  capacity <- cap[s], phase <- chan[s]

\* Every subscriber's channel implements LossyChannel: events arrive in
\* emission order, none twice, only the oldest is ever given up, and a closed
\* channel takes nothing in.
ImplementsLossyChannel ==
  /\ \A s \in Subscribers : Fifo(s)!Init
  /\ [][\A s \in Subscribers : [Fifo(s)!Next]_(Fifo(s)!vars)]_vars

\* dispatcher.go "without blocking the producer": an Emit that has started
\* returns even if no consumer ever receives.
EmitReturns == []<>~emitting
=============================================================================
