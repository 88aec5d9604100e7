--------------------------- MODULE DeviceSession ---------------------------
(***************************************************************************)
(* The lifecycle of a backend device session: its state (ready, degraded,  *)
(* bridge), the client it owns, the radio lock of its users (stats poll,   *)
(* inbox drain, requests), those who use the radio without the lock (the   *)
(* refresh of a reconnect that follows a bridge, a question to an empty    *)
(* cache), the bridges that take the radio away, and stop.                 *)
(*                                                                         *)
(* state and client change under s.mu, so a critical section of s.mu is    *)
(* one step; what happens between two of them is not protected.  Clients   *)
(* are numbered in the order in which they were dialled.                   *)
(***************************************************************************)
EXTENDS Naturals

CONSTANTS
  Bridges,      \* bridge endpoints; each serves one host at a time
  PtyBridges,   \* those of type pty, whose loop ends with the session
  Workers,      \* goroutines that serve a request
  MaxBridging,  \* bound: bridge connections of a behaviour
  MaxWork,      \* bound: requests of a behaviour
  MaxFailures,  \* bound: dials and stats requests that fail on the radio
  MaxMail       \* bound: messages that reach the radio

ASSUME DeviceSessionAssumption ==
  /\ PtyBridges \subseteq Bridges
  /\ {MaxBridging, MaxWork, MaxFailures, MaxMail} \subseteq Nat
  /\ {"none", "poll", "drain"} \intersect Workers = {}

NoClient == 0

\* leaveBridge number k starts reconnect goroutine k; 0 is the stats poll.
Poll == 0
Reconnectors == 0..MaxBridging

VARIABLES
  state,     \* s.state
  client,    \* s.client
  open,      \* clients whose transport is open
  dials,     \* number of clients dialled so far
  radio,     \* holder of the RadioExecutor: none, poll, drain, or a worker
  robbed,    \* history: a bridge, or a reconnect that followed one, has closed
             \* the client of the radio's holder
  ppc,       \* pollStats: idle | trylock | check | snapshot | stats | mark |
             \* failed | degraded | reconnect | exited
  pcur,      \* client the poll uses, or the one it is about to close
  rpc,       \* tryReconnect of each reconnector: idle | start | dial |
             \* install | close | refresh
  rcur,      \* client the reconnector dialled, or the one it must close
  bpc,       \* bridges: idle | dial | pump
  bridgings, \* bridge connections so far
  leaves,    \* bridge connections that have ended
  dpc,       \* drainLoop: idle | begin | lock | snapshot | check | drain |
             \* exited
  dcur,      \* client the drain uses
  drainReq,  \* the drainReq channel (capacity 1) is full
  mail,      \* messages that have reached the radio so far
  wpc,       \* workers: idle | lock | check | snapshot | use
  wcur,      \* client each worker uses that holds the radio
  unlocked,  \* workers whose request does not take the lock
  work,      \* requests so far
  failures,  \* radio failures so far
  stopping   \* stop: no | signalled (stopped is closed) | done

lifeVars   == <<state, client>>
lockVars   == <<radio, robbed>>
pollVars   == <<ppc, pcur>>
reconVars  == <<rpc, rcur>>
bridgeVars == <<bpc, bridgings, leaves>>
drainVars  == <<dpc, dcur>>
mailVars   == <<drainReq, mail>>
workVars   == <<wpc, wcur, unlocked, work>>
vars == <<lifeVars, open, dials, lockVars, pollVars, reconVars, bridgeVars,
          drainVars, mailVars, workVars, failures, stopping>>

\* newSession has connected; start has launched the goroutines, and the drain
\* loop begins with a drain.
Init ==
  /\ state = "ready"
  /\ client = 1
  /\ open = {1}
  /\ dials = 1
  /\ radio = "none"
  /\ robbed = FALSE
  /\ ppc = "trylock"
  /\ pcur = NoClient
  /\ rpc = [r \in Reconnectors |-> "idle"]
  /\ rcur = [r \in Reconnectors |-> NoClient]
  /\ bpc = [b \in Bridges |-> "idle"]
  /\ bridgings = 0
  /\ leaves = 0
  /\ dpc = "begin"
  /\ dcur = NoClient
  /\ drainReq = FALSE
  /\ mail = 0
  /\ wpc = [w \in Workers |-> "idle"]
  /\ wcur = [w \in Workers |-> NoClient]
  /\ unlocked = {}
  /\ work = 0
  /\ failures = 0
  /\ stopping = "no"

Stopped == stopping # "no"

\* A radio operation or a dial that fails although its client is open.
RadioFails ==
  /\ failures < MaxFailures
  /\ failures' = failures + 1

\* An operation on client c fails: c has been closed, or the radio fails.
OperationFails(c) == IF c \in open THEN RadioFails ELSE UNCHANGED failures

\* The client that the holder of the radio uses.
Held == CASE radio = "none" -> NoClient
          [] radio = "poll" -> pcur
          [] radio = "drain" -> dcur
          [] OTHER -> wcur[radio]

Unlock == radio' = "none" /\ robbed' = FALSE

\* Somebody who does not hold the radio closes client c.
CloseWithoutLock(c) ==
  /\ open' = open \ {c}
  /\ robbed' = (robbed \/ (c # NoClient /\ c = Held))
-----------------------------------------------------------------------------
(* pollStats and runStatsPoll                                              *)

\* A tick; in the bridge state the poll returns at once (no step).  The
\* select may still pick a tick after stopped is closed.
PollTick ==
  /\ ppc = "idle"
  /\ state # "bridge"
  /\ ppc' = "trylock"
  /\ UNCHANGED <<lifeVars, open, dials, lockVars, pcur, reconVars, bridgeVars,
                 drainVars, mailVars, workVars, failures, stopping>>

PollExit ==
  /\ ppc = "idle"
  /\ Stopped
  /\ ppc' = "exited"
  /\ UNCHANGED <<lifeVars, open, dials, lockVars, pcur, reconVars, bridgeVars,
                 drainVars, mailVars, workVars, failures, stopping>>

\* tryLockRadio: a busy radio skips this poll.
PollTryLock ==
  /\ ppc = "trylock"
  /\ \/ radio = "none" /\ radio' = "poll" /\ UNCHANGED robbed /\ ppc' = "check"
     \/ radio # "none" /\ UNCHANGED lockVars /\ ppc' = "idle"
  /\ UNCHANGED <<lifeVars, open, dials, pcur, reconVars, bridgeVars,
                 drainVars, mailVars, workVars, failures, stopping>>

\* healthy(): an unhealthy session reconnects with the radio locked.
PollCheck ==
  /\ ppc = "check"
  /\ \/ state = "ready" /\ ppc' = "snapshot" /\ UNCHANGED rpc
     \/ /\ state # "ready"
        /\ ppc' = "reconnect"
        /\ rpc' = [rpc EXCEPT ![Poll] = "start"]
  /\ UNCHANGED <<lifeVars, open, dials, lockVars, pcur, rcur, bridgeVars,
                 drainVars, mailVars, workVars, failures, stopping>>

\* Faulty variant: a missing client only skips this poll.
PollSnapshot_SkipsMissing ==
  /\ ppc = "snapshot"
  /\ ppc' = IF client = NoClient THEN "idle" ELSE "stats"
  /\ pcur' = client
  /\ IF client = NoClient THEN Unlock ELSE UNCHANGED lockVars
  /\ UNCHANGED <<lifeVars, open, dials, reconVars, bridgeVars, drainVars,
                 mailVars, workVars, failures, stopping>>

\* clientSnapshot, taken after healthy() has released s.mu.
PollSnapshot ==
  /\ ppc = "snapshot"
  /\ ppc' = IF client = NoClient THEN "failed" ELSE "stats"
  /\ pcur' = client
  /\ UNCHANGED <<lifeVars, open, dials, lockVars, reconVars, bridgeVars,
                 drainVars, mailVars, workVars, failures, stopping>>

PollStatsOk ==
  /\ ppc = "stats"
  /\ pcur \in open
  /\ ppc' = "mark"
  /\ pcur' = NoClient
  /\ UNCHANGED <<lifeVars, open, dials, lockVars, reconVars, bridgeVars,
                 drainVars, mailVars, workVars, failures, stopping>>

PollStatsErr ==
  /\ ppc = "stats"
  /\ OperationFails(pcur)
  /\ ppc' = "failed"
  /\ pcur' = NoClient
  /\ UNCHANGED <<lifeVars, open, dials, lockVars, reconVars, bridgeVars,
                 drainVars, mailVars, workVars, stopping>>

\* markDegraded: the client of the moment is taken out under s.mu and closed
\* afterwards.
PollMarkDegraded ==
  /\ ppc = "failed"
  /\ state' = "degraded"
  /\ pcur' = client
  /\ client' = NoClient
  /\ ppc' = "degraded"
  /\ UNCHANGED <<open, dials, lockVars, reconVars, bridgeVars, drainVars,
                 mailVars, workVars, failures, stopping>>

\* markReady does not look at the state it replaces.
PollMarkReady ==
  /\ ppc = "mark"
  /\ state' = "ready"
  /\ ppc' = "idle"
  /\ Unlock
  /\ UNCHANGED <<pcur, client, open, dials, reconVars, bridgeVars, drainVars,
                 mailVars, workVars, failures, stopping>>

\* old.Close() at the end of markDegraded, then the unlock.
PollCloseOld ==
  /\ ppc = "degraded"
  /\ open' = open \ {pcur}
  /\ ppc' = "idle"
  /\ pcur' = NoClient
  /\ Unlock
  /\ UNCHANGED <<lifeVars, dials, reconVars, bridgeVars, drainVars, mailVars,
                 workVars, failures, stopping>>
-----------------------------------------------------------------------------
(* tryReconnect: called by the poll, which holds the radio, and started as *)
(* a goroutine by leaveBridge, which does not.                             *)

\* Faulty variant: the poll's early return forgets to unlock the radio.
ReconnectReturn_KeepsRadio(r) ==
  /\ rpc' = [rpc EXCEPT ![r] = "idle"]
  /\ ppc' = IF r = Poll THEN "idle" ELSE ppc
  /\ UNCHANGED lockVars

ReconnectReturn(r) ==
  /\ rpc' = [rpc EXCEPT ![r] = "idle"]
  /\ IF r = Poll
     THEN ppc' = "idle" /\ Unlock
     ELSE UNCHANGED <<ppc, lockVars>>

ReconnectCheck(r) ==
  /\ rpc[r] = "start"
  /\ \/ state = "bridge" /\ ReconnectReturn(r)
     \/ /\ state # "bridge"
        /\ rpc' = [rpc EXCEPT ![r] = "dial"]
        /\ UNCHANGED <<ppc, lockVars>>
  /\ UNCHANGED <<lifeVars, open, dials, pcur, rcur, bridgeVars, drainVars,
                 mailVars, workVars, failures, stopping>>

\* dialClient returns a connected client.
ReconnectDial(r) ==
  /\ rpc[r] = "dial"
  /\ dials' = dials + 1
  /\ open' = open \union {dials'}
  /\ rcur' = [rcur EXCEPT ![r] = dials']
  /\ rpc' = [rpc EXCEPT ![r] = "install"]
  /\ UNCHANGED <<lifeVars, lockVars, pollVars, bridgeVars, drainVars, mailVars,
                 workVars, failures, stopping>>

\* markReconnectFailed, whatever the state is by then.
ReconnectFail(r) ==
  /\ rpc[r] = "dial"
  /\ RadioFails
  /\ state' = "degraded"
  /\ ReconnectReturn(r)
  /\ UNCHANGED <<client, open, dials, pcur, rcur, bridgeVars, drainVars,
                 mailVars, workVars, stopping>>

\* Faulty variant: the client that is replaced is forgotten.
ReconnectInstall_ForgetsOld(r) ==
  /\ rpc[r] = "install"
  /\ client' = rcur[r]
  /\ state' = "ready"
  /\ rcur' = [rcur EXCEPT ![r] = NoClient]
  /\ rpc' = [rpc EXCEPT ![r] = "close"]
  /\ UNCHANGED <<open, dials, lockVars, pollVars, bridgeVars, drainVars,
                 mailVars, workVars, failures, stopping>>

\* The new client replaces whatever client and state there are.
ReconnectInstall(r) ==
  /\ rpc[r] = "install"
  /\ client' = rcur[r]
  /\ state' = "ready"
  /\ rcur' = [rcur EXCEPT ![r] = client]
  /\ rpc' = [rpc EXCEPT ![r] = "close"]
  /\ UNCHANGED <<open, dials, lockVars, pollVars, bridgeVars, drainVars,
                 mailVars, workVars, failures, stopping>>

ReconnectCloseOld(r) ==
  /\ rpc[r] = "close"
  /\ IF r = Poll THEN open' = open \ {rcur[r]} /\ UNCHANGED robbed
     ELSE CloseWithoutLock(rcur[r])
  /\ rcur' = [rcur EXCEPT ![r] = NoClient]
  /\ rpc' = [rpc EXCEPT ![r] = "refresh"]
  /\ UNCHANGED <<lifeVars, dials, radio, pollVars, bridgeVars, drainVars,
                 mailVars, workVars, failures, stopping>>

\* refreshStartupCaches, which a reconnect after a bridge runs without the
\* lock, ignores every error.
ReconnectRefresh(r) ==
  /\ rpc[r] = "refresh"
  /\ ReconnectReturn(r)
  /\ UNCHANGED <<lifeVars, open, dials, pcur, rcur, bridgeVars, drainVars,
                 mailVars, workVars, failures, stopping>>
-----------------------------------------------------------------------------
(* Bridges: runBridgeConnWithReader                                        *)

\* enterBridge; in the bridge state the host is refused (no step).
BridgeEnter(b) ==
  /\ bpc[b] = "idle"
  /\ b \in PtyBridges => ~Stopped
  /\ bridgings < MaxBridging
  /\ state # "bridge"
  /\ CloseWithoutLock(client)
  /\ client' = NoClient
  /\ state' = "bridge"
  /\ bpc' = [bpc EXCEPT ![b] = "dial"]
  /\ bridgings' = bridgings + 1
  /\ UNCHANGED <<leaves, dials, radio, pollVars, reconVars, drainVars,
                 mailVars, workVars, failures, stopping>>

\* The bridge opens a connection of its own and pumps frames both ways.
BridgePump(b) ==
  /\ bpc[b] = "dial"
  /\ bpc' = [bpc EXCEPT ![b] = "pump"]
  /\ UNCHANGED <<lifeVars, open, dials, lockVars, pollVars, reconVars,
                 bridgings, leaves, drainVars, mailVars, workVars, failures,
                 stopping>>

\* leaveBridge, after a failed dial or when either direction ends.
BridgeLeave(b) ==
  /\ bpc[b] \in {"dial", "pump"}
  /\ bpc' = [bpc EXCEPT ![b] = "idle"]
  /\ state' = IF state = "bridge" THEN "degraded" ELSE state
  /\ leaves' = leaves + 1
  /\ rpc' = [rpc EXCEPT ![leaves'] = "start"]
  /\ UNCHANGED <<client, open, dials, lockVars, pollVars, rcur, bridgings,
                 drainVars, mailVars, workVars, failures, stopping>>
-----------------------------------------------------------------------------
(* drainLoop and runDrain                                                  *)

DrainWake ==
  /\ dpc = "idle"
  /\ drainReq
  /\ drainReq' = FALSE
  /\ dpc' = "begin"
  /\ UNCHANGED <<lifeVars, open, dials, lockVars, pollVars, reconVars,
                 bridgeVars, dcur, mail, workVars, failures, stopping>>

DrainExit ==
  /\ dpc = "idle"
  /\ Stopped
  /\ dpc' = "exited"
  /\ UNCHANGED <<lifeVars, open, dials, lockVars, pollVars, reconVars,
                 bridgeVars, dcur, mailVars, workVars, failures, stopping>>

\* In the bridge state the request is given up.
DrainBegin ==
  /\ dpc = "begin"
  /\ dpc' = IF state = "bridge" THEN "idle" ELSE "lock"
  /\ UNCHANGED <<lifeVars, open, dials, lockVars, pollVars, reconVars,
                 bridgeVars, dcur, mailVars, workVars, failures, stopping>>

DrainLock ==
  /\ dpc = "lock"
  /\ radio = "none"
  /\ radio' = "drain" /\ UNCHANGED robbed
  /\ dpc' = "snapshot"
  /\ UNCHANGED <<lifeVars, open, dials, pollVars, reconVars, bridgeVars,
                 dcur, mailVars, workVars, failures, stopping>>

DrainReturn ==
  /\ dpc' = "idle"
  /\ dcur' = NoClient
  /\ Unlock
  /\ UNCHANGED <<lifeVars, open, dials, pollVars, reconVars, bridgeVars,
                 mailVars, workVars, failures, stopping>>

\* clientSnapshot, then healthy(): without a healthy client the request is
\* given up.
DrainSnapshot ==
  /\ dpc = "snapshot"
  /\ \/ client = NoClient /\ DrainReturn
     \/ /\ client # NoClient
        /\ dcur' = client
        /\ dpc' = "check"
        /\ UNCHANGED <<lifeVars, open, dials, lockVars, pollVars, reconVars,
                       bridgeVars, mailVars, workVars, failures, stopping>>

DrainCheck ==
  /\ dpc = "check"
  /\ \/ state # "ready" /\ DrainReturn
     \/ /\ state = "ready"
        /\ dpc' = "drain"
        /\ UNCHANGED <<lifeVars, open, dials, lockVars, pollVars, reconVars,
                       bridgeVars, dcur, mailVars, workVars, failures,
                       stopping>>

\* DrainMessages (Inbox) returns, with or without an error, which is logged.
DrainDone ==
  /\ dpc = "drain"
  /\ DrainReturn
-----------------------------------------------------------------------------
(* Requests: serve, methodUsesRadio and dispatch.  A sync takes the lock   *)
(* and the client the way the drain does.                                  *)

\* The request waits for the lock, or is one for which the lock is not taken
\* (device_info and stats, whose cache is empty).
WorkStart(w) ==
  /\ wpc[w] = "idle"
  /\ work < MaxWork
  /\ work' = work + 1
  /\ \/ wpc' = [wpc EXCEPT ![w] = "lock"] /\ UNCHANGED unlocked
     \/ wpc' = [wpc EXCEPT ![w] = "check"] /\ unlocked' = unlocked \union {w}
  /\ UNCHANGED <<lifeVars, open, dials, lockVars, pollVars, reconVars,
                 bridgeVars, drainVars, mailVars, wcur, failures, stopping>>

\* RadioExecutor.Do
WorkLock(w) ==
  /\ wpc[w] = "lock"
  /\ radio = "none"
  /\ radio' = w /\ UNCHANGED robbed
  /\ wpc' = [wpc EXCEPT ![w] = "check"]
  /\ UNCHANGED <<lifeVars, open, dials, pollVars, reconVars, bridgeVars,
                 drainVars, mailVars, wcur, unlocked, work, failures,
                 stopping>>

\* The request ends, with a result or an error, and Do unlocks.
WorkReturn(w) ==
  /\ wpc' = [wpc EXCEPT ![w] = "idle"]
  /\ wcur' = [wcur EXCEPT ![w] = NoClient]
  /\ unlocked' = unlocked \ {w}
  /\ IF w \in unlocked THEN UNCHANGED lockVars ELSE Unlock

\* healthy(), then clientSnapshot.
WorkCheck(w) ==
  /\ wpc[w] = "check"
  /\ \/ state # "ready" /\ WorkReturn(w)
     \/ /\ state = "ready"
        /\ wpc' = [wpc EXCEPT ![w] = "snapshot"]
        /\ UNCHANGED <<lockVars, wcur, unlocked>>
  /\ UNCHANGED <<lifeVars, open, dials, pollVars, reconVars, bridgeVars,
                 drainVars, mailVars, work, failures, stopping>>

WorkSnapshot(w) ==
  /\ wpc[w] = "snapshot"
  /\ \/ client = NoClient /\ WorkReturn(w)
     \/ /\ client # NoClient
        /\ wpc' = [wpc EXCEPT ![w] = "use"]
        /\ wcur' = IF w \in unlocked THEN wcur ELSE [wcur EXCEPT ![w] = client]
        /\ UNCHANGED <<lockVars, unlocked>>
  /\ UNCHANGED <<lifeVars, open, dials, pollVars, reconVars, bridgeVars,
                 drainVars, mailVars, work, failures, stopping>>

WorkDone(w) ==
  /\ wpc[w] = "use"
  /\ WorkReturn(w)
  /\ UNCHANGED <<lifeVars, open, dials, pollVars, reconVars, bridgeVars,
                 drainVars, mailVars, work, failures, stopping>>
-----------------------------------------------------------------------------
\* The radio (external) receives a message and signals MSG_WAITING to the
\* clients connected to it; observeEvent requests a drain, coalesced.
MailArrives ==
  /\ mail < MaxMail
  /\ mail' = mail + 1
  /\ drainReq' = (drainReq \/ open # {})
  /\ UNCHANGED <<lifeVars, open, dials, lockVars, pollVars, reconVars,
                 bridgeVars, drainVars, workVars, failures, stopping>>

StopSignal ==
  /\ stopping = "no"
  /\ stopping' = "signalled"
  /\ UNCHANGED <<lifeVars, open, dials, lockVars, pollVars, reconVars,
                 bridgeVars, drainVars, mailVars, workVars, failures>>

\* The client of the moment is closed but stays s.client; then the store.
StopClose ==
  /\ stopping = "signalled"
  /\ stopping' = "done"
  /\ open' = open \ {client}
  /\ UNCHANGED <<lifeVars, dials, lockVars, pollVars, reconVars, bridgeVars,
                 drainVars, mailVars, workVars, failures>>
-----------------------------------------------------------------------------
PollStep ==
  \/ PollTick \/ PollExit \/ PollTryLock \/ PollCheck \/ PollSnapshot
  \/ PollStatsOk \/ PollStatsErr \/ PollMarkReady \/ PollMarkDegraded
  \/ PollCloseOld

ReconnectStep(r) ==
  \/ ReconnectCheck(r) \/ ReconnectDial(r) \/ ReconnectFail(r)
  \/ ReconnectInstall(r) \/ ReconnectCloseOld(r) \/ ReconnectRefresh(r)

BridgeStep(b) == BridgeEnter(b) \/ BridgePump(b) \/ BridgeLeave(b)

DrainStep ==
  \/ DrainWake \/ DrainExit \/ DrainBegin \/ DrainLock \/ DrainSnapshot
  \/ DrainCheck \/ DrainDone

WorkStep(w) == WorkLock(w) \/ WorkCheck(w) \/ WorkSnapshot(w) \/ WorkDone(w)

Next ==
  \/ PollStep
  \/ \E r \in Reconnectors : ReconnectStep(r)
  \/ \E b \in Bridges : BridgeStep(b)
  \/ DrainStep
  \/ \E w \in Workers : WorkStart(w) \/ WorkStep(w)
  \/ MailArrives
  \/ StopSignal
  \/ StopClose

Spec == Init /\ [][Next]_vars

(***************************************************************************)
(* Every goroutine of the session keeps running: the ticker fires, a stats *)
(* request, a dial and a drain have deadlines, a request ends, and Mutex   *)
(* is not taken by the poll's TryLock every time while others wait.        *)
(* Nothing is assumed of hosts (a bridge may stay connected for ever), of  *)
(* users or of the radio.                                                  *)
(***************************************************************************)
Fairness ==
  /\ WF_vars(PollStep \/ ReconnectStep(Poll))
  /\ \A r \in Reconnectors \ {Poll} : WF_vars(ReconnectStep(r))
  /\ SF_vars(DrainStep \/ \E w \in Workers : WorkStep(w))

FairSpec == Spec /\ Fairness
-----------------------------------------------------------------------------
(* Properties                                                              *)

Clients == 1..dials

\* Types of the variables; clients are numbered 1..dials.
TypeOK ==
  /\ state \in {"ready", "degraded", "bridge"}
  /\ dials \in Nat
  /\ client \in Clients \union {NoClient}
  /\ open \subseteq Clients
  /\ radio \in {"none", "poll", "drain"} \union Workers
  /\ robbed \in BOOLEAN
  /\ ppc \in {"idle", "trylock", "check", "snapshot", "stats", "mark",
              "failed", "degraded", "reconnect", "exited"}
  /\ pcur \in Clients \union {NoClient}
  /\ rpc \in [Reconnectors -> {"idle", "start", "dial", "install", "close",
                               "refresh"}]
  /\ rcur \in [Reconnectors -> Clients \union {NoClient}]
  /\ bpc \in [Bridges -> {"idle", "dial", "pump"}]
  /\ bridgings \in 0..MaxBridging
  /\ leaves \in 0..bridgings
  /\ dpc \in {"idle", "begin", "lock", "snapshot", "check", "drain", "exited"}
  /\ dcur \in Clients \union {NoClient}
  /\ drainReq \in BOOLEAN
  /\ mail \in 0..MaxMail
  /\ wpc \in [Workers -> {"idle", "lock", "check", "snapshot", "use"}]
  /\ wcur \in [Workers -> Clients \union {NoClient}]
  /\ unlocked \subseteq Workers
  /\ work \in 0..MaxWork
  /\ failures \in 0..MaxFailures
  /\ stopping \in {"no", "signalled", "done"}

\* radio_activity.go "serialises live radio I/O", as far as it does: poll, drain
\* and the requests that take the lock exclude each other, on all their return
\* paths.  Beside the holder the radio is used only by a reconnect that follows
\* a bridge and by a request that found its cache empty.
RadioHolder ==
  /\ radio = "poll" <=> ppc \in {"check", "snapshot", "stats", "mark", "failed",
                                 "degraded", "reconnect"}
  /\ ppc = "reconnect" <=> rpc[Poll] # "idle"
  /\ radio = "drain" <=> dpc \in {"snapshot", "check", "drain"}
  /\ \A w \in Workers :
       radio = w <=> w \notin unlocked /\ wpc[w] \in {"check", "snapshot", "use"}
  /\ \A w \in unlocked : wpc[w] \in {"check", "snapshot", "use"}

\* Clients somebody is still going to install or to close.
InHand ==
  {pcur : p \in {q \in {ppc} : q = "degraded"}} \union
  {rcur[r] : r \in {q \in Reconnectors : rpc[q] \in {"install", "close"}}}

\* Concurrent reconnects, bridges, degradation and stop leak no client: each
\* open client is the session's, or is in the hands of a goroutine that will
\* install or close it.
NoClientLeaked == open \subseteq {client} \union InHand

\* Until stop closes it, the session's client is open, however poll, reconnects
\* and bridges have replaced it; and the lock protects an operation from the
\* poll, its markDegraded and its reconnect: the client of whoever holds the
\* radio is open, unless a bridge or a reconnect that followed one has closed it
\* meanwhile, which wait for nobody.
InUseStaysOpen ==
  stopping # "done" =>
    /\ client # NoClient => client \in open
    /\ ppc = "stats" => pcur \in open \/ robbed
    /\ dpc = "drain" => dcur \in open \/ robbed
    /\ \A w \in Workers \ unlocked :
         wpc[w] = "use" => wcur[w] \in open \/ robbed

\* All three, over well-typed states: those who take the lock use the radio one
\* at a time, its connection is never lost track of, and the poll closes it
\* under nobody who holds the lock.
RadioIsOwned == TypeOK /\ RadioHolder /\ NoClientLeaked /\ InUseStaysOpen

\* server.go: a request for the radio gets its turn and returns, whatever
\* polls, reconnects, drains and bridges do.
RequestReturns == \A w \in Workers : []<>(wpc[w] = "idle")

\* Once no bridge is connected, a session that is not stopped returns to
\* ready with an open client and stays there, in whatever order poll,
\* reconnects and bridge goroutines have left it.
Recovers ==
  <>[](~Stopped /\ \A b \in Bridges : bpc[b] = "idle") =>
    <>[](state = "ready" /\ client \in open)

\* bridge.go: "another bridge is already active".
OneActiveBridge ==
  \A a, b \in Bridges : bpc[a] # "idle" /\ bpc[b] # "idle" => a = b
=============================================================================
