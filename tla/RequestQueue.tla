---------------------------- MODULE RequestQueue ----------------------------
(***************************************************************************)
(* The request path of a client: internal/queue (one active request, one   *)
(* registered waiter), client.request / client.requestStream on top of it, *)
(* the client's read loop below it and the radio at the far end.           *)
(*                                                                         *)
(* A request is named by the order in which it obtained sendMu, which is   *)
(* also the identity of its streamWaiter: every run allocates a fresh one. *)
(* Answers carry no identifier on the wire; the field req of a frame       *)
(* (which command the radio is answering) is known to the model only.      *)
(***************************************************************************)
EXTENDS Integers, Sequences

CONSTANTS
  Callers,       \* goroutines that call request or requestStream
  NoCaller,      \* sendMu is free
  StreamBuffer,  \* capacity of streamWaiter.responses (2048 in the code)
  MaxRequests,   \* bound: number of requests a behaviour makes
  MaxItems       \* bound: items the radio sends before the end of a stream

ASSUME RequestQueueAssumption ==
  /\ NoCaller \notin Callers
  /\ StreamBuffer \in Nat \ {0}
  /\ MaxRequests \in Nat
  /\ MaxItems \in Nat

Requests == 1..MaxRequests
NoWaiter == 0

\* reply, err: the one answer of a plain command. item..., then end or err:
\* the answer of a stream command (GetContacts).
FrameTypes == {"reply", "err", "item", "end"}
Frame == [req: Requests, n: 1..(MaxItems + 1), type: FrameTypes]

Outcomes == {"none", "done", "overflow", "ctx", "senderr"}

VARIABLES
  pc,        \* [Callers -> idle | queued | sending | waiting]
  kind,      \* [Callers -> single | stream], Do or DoStream
  expired,   \* [Callers -> BOOLEAN], the call's context is done
  sendMu,    \* holder of Queue.sendMu
  waiter,    \* Queue.waiter
  box,       \* streamWaiter.responses of every request
  overflow,  \* streamWaiter.overflow of every request holds the error
  last,      \* number of requests started so far
  reader,    \* read loop: reading | lookup | push | ended
  held,      \* <<frame>> the read loop is handling, or <<>>
  heldW,     \* the waiter Deliver read before it released Queue.mu
  link,      \* transport: up | closed
  cmds,      \* commands the radio has received and not yet answered
  sent,      \* number of frames the radio sent for each request
  wire,      \* frames between the radio and the read loop
  got,       \* history: frames collect saw, per request
  outcome,   \* history: how each request returned
  garbled    \* history: requests one of whose frames did not decode

callVars   == <<pc, kind, expired>>
queueVars  == <<sendMu, waiter, box, overflow, last>>
readVars   == <<reader, held, heldW>>
radioVars  == <<cmds, sent, wire>>
histVars   == <<got, outcome, garbled>>
vars == <<callVars, queueVars, readVars, link, radioVars, histVars>>

Init ==
  /\ pc = [c \in Callers |-> "idle"]
  /\ kind = [c \in Callers |-> "single"]
  /\ expired = [c \in Callers |-> FALSE]
  /\ sendMu = NoCaller
  /\ waiter = NoWaiter
  /\ box = [r \in Requests |-> <<>>]
  /\ overflow = [r \in Requests |-> FALSE]
  /\ last = 0
  /\ reader = "reading"
  /\ held = <<>>
  /\ heldW = NoWaiter
  /\ link = "up"
  /\ cmds = <<>>
  /\ sent = [r \in Requests |-> 0]
  /\ wire = <<>>
  /\ got = [r \in Requests |-> <<>>]
  /\ outcome = [r \in Requests |-> "none"]
  /\ garbled = {}
-----------------------------------------------------------------------------
(* The callers: request, requestStream and Queue.run                       *)

\* The context and its deadline exist before the queue is entered.
Call(c, k) ==
  /\ pc[c] = "idle"
  /\ last < MaxRequests
  /\ pc' = [pc EXCEPT ![c] = "queued"]
  /\ kind' = [kind EXCEPT ![c] = k]
  /\ UNCHANGED <<expired, queueVars, readVars, link, radioVars, histVars>>

\* The per-request timeout, the stream's idle timer or the caller's cancel.
Expire(c) ==
  /\ pc[c] # "idle"
  /\ ~expired[c]
  /\ expired' = [expired EXCEPT ![c] = TRUE]
  /\ UNCHANGED <<pc, kind, queueVars, readVars, link, radioVars, histVars>>

\* sendMu.Lock does not look at the context; a fresh waiter is registered
\* before the command is written.
Acquire(c) ==
  /\ pc[c] = "queued"
  /\ sendMu = NoCaller
  /\ last < MaxRequests
  /\ sendMu' = c
  /\ last' = last + 1
  /\ waiter' = last'
  /\ pc' = [pc EXCEPT ![c] = "sending"]
  /\ UNCHANGED <<kind, expired, box, overflow, readVars, link, radioVars,
                 histVars>>

\* Faulty variant: the lock is released, the registered waiter stays.
Return_KeepsWaiter(c, how) ==
  /\ pc' = [pc EXCEPT ![c] = "idle"]
  /\ kind' = [kind EXCEPT ![c] = "single"]
  /\ expired' = [expired EXCEPT ![c] = FALSE]
  /\ sendMu' = NoCaller
  /\ outcome' = [outcome EXCEPT ![last] = how]
  /\ UNCHANGED waiter

\* The deferred part of run: the waiter is cleared, sendMu is released; the
\* call's context ends with it.
Return(c, how) ==
  /\ pc' = [pc EXCEPT ![c] = "idle"]
  /\ kind' = [kind EXCEPT ![c] = "single"]
  /\ expired' = [expired EXCEPT ![c] = FALSE]
  /\ sendMu' = NoCaller
  /\ waiter' = NoWaiter
  /\ outcome' = [outcome EXCEPT ![last] = how]

Command(c) == [req |-> last, kind |-> kind[c]]

Send(c) ==
  /\ pc[c] = "sending"
  /\ link = "up"
  /\ pc' = [pc EXCEPT ![c] = "waiting"]
  /\ cmds' = Append(cmds, Command(c))
  /\ UNCHANGED <<kind, expired, queueVars, readVars, link, sent, wire,
                 histVars>>

\* A write that reports an error may still have reached the radio (a BLE
\* write keeps running after its context is done).
SendErr(c) ==
  /\ pc[c] = "sending"
  /\ Return(c, "senderr")
  /\ \/ UNCHANGED cmds
     \/ link = "up" /\ cmds' = Append(cmds, Command(c))
  /\ UNCHANGED <<box, overflow, last, readVars, link, sent,
                 wire, got, garbled>>

\* Faulty variant: an item is taken for the end of its stream.
Completes_AtItem(k, f) == k = "single" \/ f.type \in {"end", "err", "item"}

\* The collect callback: any frame completes a plain request, a stream ends
\* with its end frame or with a device error.
Completes(k, f) == k = "single" \/ f.type \in {"end", "err"}

Collect(c) ==
  /\ pc[c] = "waiting"
  /\ box[last] # <<>>
  /\ box' = [box EXCEPT ![last] = Tail(@)]
  /\ got' = [got EXCEPT ![last] = Append(@, Head(box[last]))]
  /\ \/ /\ Completes(kind[c], Head(box[last]))
        /\ Return(c, "done")
     \/ /\ ~Completes(kind[c], Head(box[last]))
        /\ UNCHANGED <<callVars, sendMu, waiter, outcome>>
  /\ UNCHANGED <<overflow, last, readVars, link, radioVars,
                 garbled>>

OverflowReturn(c) ==
  /\ pc[c] = "waiting"
  /\ overflow[last]
  /\ overflow' = [overflow EXCEPT ![last] = FALSE]
  /\ Return(c, "overflow")
  /\ UNCHANGED <<box, last, readVars, link, radioVars, got,
                 garbled>>

\* Faulty variant: a dead read loop is never noticed.
CtxReturn_OnlyWhileReading(c) ==
  /\ pc[c] = "waiting"
  /\ expired[c]
  /\ reader # "ended"
  /\ Return(c, "ctx")
  /\ UNCHANGED <<box, overflow, last, readVars, link,
                 radioVars, got, garbled>>

CtxReturn(c) ==
  /\ pc[c] = "waiting"
  /\ expired[c]
  /\ Return(c, "ctx")
  /\ UNCHANGED <<box, overflow, last, readVars, link,
                 radioVars, got, garbled>>
-----------------------------------------------------------------------------
(* The read loop and Queue.Deliver                                         *)

ReadFrame ==
  /\ reader = "reading"
  /\ wire # <<>>
  /\ reader' = "lookup"
  /\ held' = <<Head(wire)>>
  /\ wire' = Tail(wire)
  /\ UNCHANGED <<callVars, queueVars, heldW, link, cmds, sent, histVars>>

\* A packet that does not decode is published raw and skipped.
DecodeError ==
  /\ reader = "lookup"
  /\ reader' = "reading"
  /\ garbled' = garbled \union {held[1].req}
  /\ held' = <<>>
  /\ UNCHANGED <<callVars, queueVars, heldW, link, radioVars, got, outcome>>

\* Faulty variant: the read loop remembers the first waiter it ever saw.
DeliverLookup_Cached ==
  /\ reader = "lookup"
  /\ waiter # NoWaiter
  /\ reader' = "push"
  /\ heldW' = 1
  /\ UNCHANGED <<callVars, queueVars, held, link, radioVars, histVars>>

\* Deliver, first half: the waiter is read under Queue.mu, then mu is free.
DeliverLookup ==
  /\ reader = "lookup"
  /\ waiter # NoWaiter
  /\ reader' = "push"
  /\ heldW' = waiter
  /\ UNCHANGED <<callVars, queueVars, held, link, radioVars, histVars>>

\* No request is active: the response is logged as unmatched and dropped.
DeliverUnmatched ==
  /\ reader = "lookup"
  /\ waiter = NoWaiter
  /\ reader' = "reading"
  /\ held' = <<>>
  /\ UNCHANGED <<callVars, queueVars, heldW, link, radioVars, histVars>>

\* Faulty variant: a full buffer drops its oldest response, as an event
\* channel does.
DeliverPush_DropsOldest ==
  /\ reader = "push"
  /\ box' = [box EXCEPT ![heldW] =
              Append(IF Len(@) < StreamBuffer THEN @ ELSE Tail(@), held[1])]
  /\ reader' = "reading"
  /\ held' = <<>>
  /\ heldW' = NoWaiter
  /\ UNCHANGED <<callVars, sendMu, waiter, overflow, last, link, radioVars,
                 histVars>>

\* Deliver, second half: the waiter may have returned in the meantime.
DeliverPush ==
  /\ reader = "push"
  /\ Len(box[heldW]) < StreamBuffer
  /\ box' = [box EXCEPT ![heldW] = Append(@, held[1])]
  /\ reader' = "reading"
  /\ held' = <<>>
  /\ heldW' = NoWaiter
  /\ UNCHANGED <<callVars, sendMu, waiter, overflow, last, link, radioVars,
                 histVars>>

\* A full buffer ends the read loop; the transport stays open.
DeliverOverflow ==
  /\ reader = "push"
  /\ Len(box[heldW]) >= StreamBuffer
  /\ overflow' = [overflow EXCEPT ![heldW] = TRUE]
  /\ reader' = "ended"
  /\ held' = <<>>
  /\ heldW' = NoWaiter
  /\ UNCHANGED <<callVars, sendMu, waiter, box, last, link, radioVars,
                 histVars>>

\* ReadPacket fails: the link broke, or Close cancelled the loop's context.
ReadError ==
  /\ reader = "reading"
  /\ reader' = "ended"
  /\ UNCHANGED <<callVars, queueVars, held, heldW, link, radioVars, histVars>>

Close ==
  /\ link = "up"
  /\ link' = "closed"
  /\ UNCHANGED <<callVars, queueVars, readVars, radioVars, histVars>>
-----------------------------------------------------------------------------
(* The radio (external): it answers commands in order, a plain command with *)
(* one frame, a stream with items and an end, or never.                    *)

Answer(type) ==
  LET r == Head(cmds).req
  IN  /\ wire' = Append(wire, [req |-> r, n |-> sent[r] + 1, type |-> type])
      /\ sent' = [sent EXCEPT ![r] = @ + 1]
      /\ UNCHANGED <<callVars, queueVars, readVars, link, histVars>>

RadioItem ==
  /\ cmds # <<>>
  /\ Head(cmds).kind = "stream"
  /\ sent[Head(cmds).req] < MaxItems
  /\ Answer("item")
  /\ UNCHANGED cmds

RadioLast ==
  /\ cmds # <<>>
  /\ Answer(IF Head(cmds).kind = "stream" THEN "end" ELSE "reply")
  /\ cmds' = Tail(cmds)

RadioErr ==
  /\ cmds # <<>>
  /\ Answer("err")
  /\ cmds' = Tail(cmds)

RadioSilent ==
  /\ cmds # <<>>
  /\ cmds' = Tail(cmds)
  /\ UNCHANGED <<callVars, queueVars, readVars, link, sent, wire, histVars>>
-----------------------------------------------------------------------------
Caller(c) ==
  \/ \E k \in {"single", "stream"} : Call(c, k)
  \/ Expire(c)
  \/ Acquire(c)
  \/ Send(c)
  \/ SendErr(c)
  \/ Collect(c)
  \/ OverflowReturn(c)
  \/ CtxReturn(c)

ReadLoop ==
  \/ ReadFrame
  \/ DecodeError
  \/ DeliverLookup
  \/ DeliverUnmatched
  \/ DeliverPush
  \/ DeliverOverflow
  \/ ReadError

Radio == RadioItem \/ RadioLast \/ RadioErr \/ RadioSilent

Next ==
  \/ \E c \in Callers : Caller(c)
  \/ ReadLoop
  \/ Close
  \/ Radio

Spec == Init /\ [][Next]_vars

(***************************************************************************)
(* Every context has a deadline (the client's timeout, the idle timer of a *)
(* stream), a write returns, and a free sync.Mutex is given to some waiter *)
(* (which waiter is left open: requests are finitely many).  Nothing is    *)
(* assumed of the radio or of the read loop.                               *)
(***************************************************************************)
Fairness ==
  /\ WF_vars(\E c \in Callers : Acquire(c))
  /\ \A c \in Callers :
       WF_vars(Expire(c)) /\ WF_vars(Send(c) \/ SendErr(c) \/ CtxReturn(c))

FairSpec == Spec /\ Fairness
-----------------------------------------------------------------------------
(* Properties                                                              *)

CallTypes ==
  /\ pc \in [Callers -> {"idle", "queued", "sending", "waiting"}]
  /\ kind \in [Callers -> {"single", "stream"}]
  /\ expired \in [Callers -> BOOLEAN]

QueueTypes ==
  /\ sendMu \in Callers \union {NoCaller}
  /\ last \in 0..MaxRequests
  /\ waiter \in 0..MaxRequests
  /\ overflow \in [Requests -> BOOLEAN]
  /\ box \in [Requests -> Seq(Frame)]
  /\ \A r \in Requests : Len(box[r]) <= StreamBuffer

ReadTypes ==
  /\ reader \in {"reading", "lookup", "push", "ended"}
  /\ held \in Seq(Frame)
  /\ heldW \in 0..MaxRequests
  /\ link \in {"up", "closed"}

RadioTypes ==
  /\ cmds \in Seq([req: Requests, kind: {"single", "stream"}])
  /\ sent \in [Requests -> 0..(MaxItems + 1)]
  /\ wire \in Seq(Frame)

HistoryTypes ==
  /\ got \in [Requests -> Seq(Frame)]
  /\ outcome \in [Requests -> Outcomes]
  /\ garbled \subseteq Requests

\* Types of the variables, and every waiter's buffer within its capacity.
TypeOK == CallTypes /\ QueueTypes /\ ReadTypes /\ RadioTypes /\ HistoryTypes

\* queue.go "allows a single active request": whoever is between sendMu.Lock
\* and its deferred unlock is alone there, the registered waiter is that
\* request's own and no waiter outlives its request.
SingleActiveRequest ==
  /\ \A c \in Callers : pc[c] \in {"sending", "waiting"} <=> sendMu = c
  /\ waiter = IF sendMu = NoCaller THEN NoWaiter ELSE last
  /\ waiter # NoWaiter => outcome[waiter] = "none"

\* The entries of s (frames or commands) belong to requests 1..m.
BelongUpTo(s, m) == \A i \in 1..Len(s) : s[i].req \in 1..m

\* A request is never completed with an answer to a command sent after it,
\* although Deliver pushes to a waiter it looked up earlier.
NoFutureResponse ==
  \A r \in Requests : BelongUpTo(got[r], r) /\ BelongUpTo(box[r], r)

\* Every earlier request consumed the whole answer to its command.
NothingAbandonedBefore(r) == \A q \in Requests : q < r => outcome[q] = "done"

\* As long as no earlier request was abandoned (timeout, cancel, overflow or
\* write error), request sees only frames that answer its own command.
MatchedUnlessAbandoned ==
  \A r \in Requests :
    NothingAbandonedBefore(r) =>
      \A i \in DOMAIN got[r] : got[r][i].req = r

\* Under the same condition a completed request has seen every frame the
\* radio sent for it, once and in order: none is lost between the read loop
\* and collect ("Protocol frames must not be silently dropped", errors.go).
CompleteUnlessAbandoned ==
  \A r \in Requests :
    /\ NothingAbandonedBefore(r)
    /\ outcome[r] = "done"
    /\ r \notin garbled
    => /\ Len(got[r]) = sent[r]
       /\ \A i \in DOMAIN got[r] : got[r][i].n = i

\* Both: until a request is abandoned, each one gets its own answer and gets
\* all of it, whatever timeouts, pushes and undecodable packets there are.
AnswersAreOwn == MatchedUnlessAbandoned /\ CompleteUnlessAbandoned

\* client.go: "request sends a command and waits for the matching response".
MatchingResponse ==
  \A r \in Requests :
    outcome[r] = "done" => \A i \in DOMAIN got[r] : got[r][i].req = r

\* Every call returns, whatever the radio and the read loop do (a call still
\* queued when MaxRequests is used up is cut off by the bound).
CallReturns ==
  \A c \in Callers :
    []<>(pc[c] = "idle" \/ (pc[c] = "queued" /\ last = MaxRequests))
=============================================================================
