--------------------------------- MODULE Ipc ---------------------------------
(***************************************************************************)
(* IPC requests of local clients to one device session.  A request has a    *)
(* connection and a handler of its own.  Most methods take the radio for    *)
(* themselves, some are answered from the store or a cache without waiting  *)
(* for it, and the watch methods stream what the radio's client emits until *)
(* that client is closed or the watcher is found to be gone.  The handler   *)
(* does not notice a caller that leaves, and no request has a deadline of   *)
(* its own: what ends a radio operation is the radio client's timeout.      *)
(***************************************************************************)
EXTENDS Naturals, FiniteSets

CONSTANTS
  Handlers,  \* connections that may be open at a time
  MaxGen     \* bound: radio clients a session has one after the other

Now == {"status", "contact"}  \* answered from a snapshot or the store; contact
                              \* stands for contacts, channel(s) and messages
Cached == {"device_info"}     \* cache first, then the radio; stats likewise
Radio == {"send_text"}        \* methods that hold the radio
Streams == {"watch", "discover"}
Methods == Now \union Cached \union Radio \union Streams

VARIABLES
  client,   \* generation of the session's radio client; 0: none, not ready
  last,     \* generations so far
  infoOK,   \* the device information is cached
  pc,       \* handler: free | route | serve | answer | lock | got | locked |
            \* run | ask | unlock | release | reply | stream
  method,   \* handler: the method it serves
  gone,     \* handler: its caller has left
  gen,      \* handler: generation of the client it uses
  lock,     \* holder of the radio, or "none"
  active,   \* method the radio status shows, or "none"
  waiters,  \* pending radio operations the status shows
  clients   \* IPC clients the status shows

session == <<client, last>>
counters == <<active, waiters, clients>>
vars == <<session, infoOK, pc, method, gone, gen, lock, counters>>

Init == /\ client = 1 /\ last = 1 /\ infoOK \in BOOLEAN
        /\ pc = [h \in Handlers |-> "free"]
        /\ method = [h \in Handlers |-> "status"]
        /\ gone = [h \in Handlers |-> FALSE]
        /\ gen = [h \in Handlers |-> 0]
        /\ lock = "none" /\ active = "none" /\ waiters = 0 /\ clients = 0

healthy == client # 0

\* What status and device_list tell of the load.
status == [clients |-> clients, pending |-> waiters, active |-> active]

-----------------------------------------------------------------------------
(* The caller: Client.call and stream.  A call that waits for its answer    *)
(* ends with the process only; cancelling a stream closes its connection.   *)
Request(h, m) == /\ pc[h] = "free"
                 /\ pc' = [pc EXCEPT ![h] = "route"]
                 /\ method' = [method EXCEPT ![h] = m]
                 /\ UNCHANGED <<session, infoOK, gone, gen, lock, counters>>

Leave(h) == /\ pc[h] # "free" /\ ~gone[h]
            /\ gone' = [gone EXCEPT ![h] = TRUE]
            /\ UNCHANGED <<session, infoOK, pc, method, gen, lock, counters>>

(* The session's radio client: lost, lent to a bridge, replaced.            *)
Degrade == /\ client # 0
           /\ client' = 0
           /\ UNCHANGED <<last, infoOK, pc, method, gone, gen, lock, counters>>

Reconnect == /\ client = 0 /\ last < MaxGen
             /\ last' = last + 1 /\ client' = last'
             /\ UNCHANGED <<infoOK, pc, method, gone, gen, lock, counters>>

-----------------------------------------------------------------------------
(* Daemon.handle and DeviceSession.serve.                                   *)
Step(h, from, to) == pc[h] = from /\ pc' = [pc EXCEPT ![h] = to]

Use(h) == gen' = [gen EXCEPT ![h] = client]

\* The handler returns and its connection is closed.
Close(h, from) == /\ pc[h] = from
                  /\ pc' = [pc EXCEPT ![h] = "free"]
                  /\ method' = [method EXCEPT ![h] = "status"]
                  /\ gone' = [gone EXCEPT ![h] = FALSE]
                  /\ gen' = [gen EXCEPT ![h] = 0]
                  /\ clients' = IF from = "route" THEN clients ELSE clients - 1
                  /\ UNCHANGED <<session, infoOK, lock, active, waiters>>

\* The daemon finds the session; or it knows no such session, or answers
\* itself.
Route(h) == \/ /\ Step(h, "route", "serve")
               /\ clients' = clients + 1
               /\ UNCHANGED <<session, infoOK, method, gone, gen, lock, active, waiters>>
            \/ Close(h, "route")

ServeNow(h) == /\ method[h] \in Now
               /\ Step(h, "serve", "reply")
               /\ UNCHANGED <<gen, waiters>>

\* A cached method that misses asks the radio without taking it.
ServeCached(h) == /\ method[h] \in Cached
                  /\ IF healthy /\ ~infoOK THEN Step(h, "serve", "ask") /\ Use(h)
                     ELSE Step(h, "serve", "reply") /\ UNCHANGED gen
                  /\ UNCHANGED waiters

ServeRadio(h) == /\ \/ method[h] \in Radio
                    \/ method[h] = "discover" /\ healthy
                 /\ Step(h, "serve", "lock")
                 /\ waiters' = waiters + 1
                 /\ UNCHANGED gen

\* watch and discover are refused while the session is not ready.
ServeStream(h) == /\ \/ method[h] = "watch"
                     \/ method[h] = "discover" /\ ~healthy
                  /\ Step(h, "serve", IF healthy THEN "answer" ELSE "reply")
                  /\ UNCHANGED <<gen, waiters>>

Serve(h) == /\ ServeNow(h) \/ ServeCached(h) \/ ServeRadio(h) \/ ServeStream(h)
            /\ UNCHANGED <<session, infoOK, method, gone, lock, active, clients>>

\* RadioExecutor.Lock: the mutex; the holder still counts as waiting.
Lock(h) == /\ lock = "none"
           /\ Step(h, "lock", "got")
           /\ lock' = h
           /\ UNCHANGED <<session, infoOK, method, gone, gen, counters>>

\* Faulty variant: a waiter that got the lock is still counted.
NoLongerWaits_Kept(h) ==
  /\ Step(h, "got", "locked")
  /\ UNCHANGED <<session, infoOK, method, gone, gen, lock, counters>>

\* trackWaiter(-1), then start.
NoLongerWaits(h) ==
  /\ Step(h, "got", "locked")
  /\ waiters' = waiters - 1
  /\ UNCHANGED <<session, infoOK, method, gone, gen, lock, active, clients>>

StartActivity(h) == /\ Step(h, "locked", "run")
                    /\ active' = method[h]
                    /\ UNCHANGED <<session, infoOK, method, gone, gen, lock, waiters, clients>>

\* dispatch looks at the session again, now that it has the radio; discover
\* at its client, once its answer is written.
Run(h) == /\ IF healthy /\ ~(method[h] = "discover" /\ gone[h])
             THEN Step(h, "run", "ask") /\ Use(h)
             ELSE Step(h, "run", "unlock") /\ UNCHANGED gen
          /\ UNCHANGED <<session, infoOK, method, gone, lock, counters>>

\* The radio's answer, an error, a timeout, or the end of its client.
AskEnds(h) == /\ Step(h, "ask", IF lock = h THEN "unlock" ELSE "reply")
              /\ infoOK' \in {infoOK, infoOK \/ (method[h] \in Cached /\ gen[h] = client)}
              /\ UNCHANGED <<session, method, gone, gen, lock, counters>>

\* finish, then Unlock.
FinishActivity(h) == /\ Step(h, "unlock", "release")
                     /\ active' = "none"
                     /\ UNCHANGED <<session, infoOK, method, gone, gen, lock, waiters, clients>>

\* Faulty variant: the lock of a client that left is kept.
Unlock_IfThere(h) == /\ Step(h, "release", "reply")
                     /\ lock' = IF gone[h] THEN lock ELSE "none"
                     /\ UNCHANGED <<session, infoOK, method, gone, gen, counters>>

Unlock(h) == /\ Step(h, "release", "reply")
             /\ lock' = "none"
             /\ UNCHANGED <<session, infoOK, method, gone, gen, counters>>

\* The answer is written whether or not somebody still reads it.
Reply(h) == Close(h, "reply")

-----------------------------------------------------------------------------
(* serveSessionStream: the answer first, then the client to subscribe to.   *)
Subscribe(h) == \/ /\ ~gone[h] /\ client # 0
                   /\ Step(h, "answer", "stream")
                   /\ Use(h)
                   /\ UNCHANGED <<session, infoOK, method, gone, lock, counters>>
                \/ (gone[h] \/ client = 0) /\ Close(h, "answer")

\* An item for a watcher that has left cannot be written.
StreamItem(h) == /\ gen[h] = client
                 /\ gone[h] /\ Close(h, "stream")

\* A closed client closes its subscriptions.
StreamEnds(h) == /\ gen[h] # client
                 /\ Close(h, "stream")

Handle(h) == \/ Route(h) \/ Serve(h) \/ NoLongerWaits(h) \/ StartActivity(h)
             \/ Run(h) \/ FinishActivity(h) \/ Unlock(h) \/ Reply(h)
             \/ Subscribe(h) \/ StreamEnds(h)

Next == \/ Degrade \/ Reconnect
        \/ \E h \in Handlers : \/ \E m \in Methods : Request(h, m)
                               \/ Leave(h)
                               \/ Handle(h) \/ Lock(h) \/ AskEnds(h) \/ StreamItem(h)

\* Handlers run, and a waiting mutex is not passed over for ever.  Nothing is
\* assumed of the radio.
Fairness == \A h \in Handlers : WF_vars(Handle(h)) /\ SF_vars(Lock(h))

Spec == Init /\ [][Next]_vars /\ Fairness

-----------------------------------------------------------------------------
(* A status, and what the store holds, is "served without blocking on       *)
(* active radio operations": such a request is answered even if the radio   *)
(* never answers again and another request holds it for ever.               *)
PromptAnswers ==
  \A h \in Handlers : []<>(pc[h] = "free" \/ method[h] \notin Now)

(* If every radio operation ends in the end, every request does: whoever    *)
(* holds the radio gives it up, also when the caller has left, the session  *)
(* is degraded meanwhile or its client replaced, and the streams of a       *)
(* closed client end.                                                       *)
RequestsEnd ==
  (\A h \in Handlers : WF_vars(AskEnds(h))) =>
     \A h \in Handlers :
       []<>(pc[h] = "free" \/ (pc[h] = "stream" /\ gen[h] = client))

(* What status tells of the load is true: the clients being served, the     *)
(* operations waiting for the radio, one that has just got it included, and *)
(* an operation shown as active really holds it.                            *)
StatusIsTrue ==
  /\ status.clients = Cardinality({h \in Handlers : pc[h] \notin {"free", "route"}})
  /\ status.pending = Cardinality({h \in Handlers : pc[h] \in {"lock", "got"}})
  /\ status.active # "none" => lock # "none" /\ method[lock] = status.active

(* Both: no request waits for ever, and one that does not need the radio    *)
(* does not wait for it.                                                    *)
RequestsReturn == PromptAnswers /\ RequestsEnd
=============================================================================
