------------------------------- MODULE Daemon -------------------------------
(***************************************************************************)
(* The backend daemon as supervisor of device sessions: concurrent         *)
(* device_start, device_stop and device_restart requests, autostart, and   *)
(* Stop, which unwinds Serve.  The session map is protected by d.mu, dials *)
(* of one device by its start lock; a session is closed after it has left  *)
(* the map.  Sessions are numbered in the order in which they were dialled.*)
(***************************************************************************)
EXTENDS Naturals

CONSTANTS
  Devices,      \* ids of the registered profiles
  Unknown,      \* an id no profile is registered for
  Handlers,     \* goroutines: IPC requests and autostart
  NoHandler,    \* a start lock is free
  MaxSessions   \* bound: sessions dialled in a behaviour

ASSUME DaemonAssumption ==
  /\ Unknown \notin Devices
  /\ NoHandler \notin Handlers
  /\ MaxSessions \in Nat

NoSession == 0
Ids == 1..MaxSessions

VARIABLES
  sessions,   \* d.sessions: device -> session, or NoSession
  startLock,  \* d.startLocks: device -> holder
  live,       \* sessions whose radio connection and store are open
  started,    \* sessions whose background goroutines were launched
  device,     \* device of each session
  count,      \* sessions dialled so far
  pc,         \* handlers: idle | fast | lock | recheck | dial | install |
              \* launch | take | close
  op,         \* start | stop | restart
  target,     \* device the request is about
  mine,       \* session the handler has dialled or taken out of the map
  serve,      \* Serve: up | closing (listener closed) | taken | stopped
  doomed      \* sessions stopAllSessions still has to stop

handlerVars == <<pc, op, target, mine>>
serveVars   == <<serve, doomed>>
vars == <<sessions, startLock, live, started, device, count, handlerVars,
          serveVars>>

Init ==
  /\ sessions = [d \in Devices |-> NoSession]
  /\ startLock = [d \in Devices |-> NoHandler]
  /\ live = {}
  /\ started = {}
  /\ device = [s \in Ids |-> Unknown]
  /\ count = 0
  /\ pc = [h \in Handlers |-> "idle"]
  /\ op = [h \in Handlers |-> "start"]
  /\ target = [h \in Handlers |-> Unknown]
  /\ mine = [h \in Handlers |-> NoSession]
  /\ serve = "up"
  /\ doomed = {}

Goto(h, where) == pc' = [pc EXCEPT ![h] = where]
-----------------------------------------------------------------------------
\* handle: a device_* request for a registered id; autostart is a start.  A
\* stop of an unknown id fails without effect (no step).
Request(h, o, d) ==
  /\ pc[h] = "idle"
  /\ serve = "up"
  /\ op' = [op EXCEPT ![h] = o]
  /\ target' = [target EXCEPT ![h] = d]
  /\ Goto(h, IF o = "start" THEN "fast" ELSE "take")
  /\ UNCHANGED <<sessions, startLock, live, started, device, count, mine,
                 serveVars>>

\* startSession, fast path.
StartFast(h) ==
  /\ pc[h] = "fast"
  /\ Goto(h, IF sessions[target[h]] # NoSession THEN "idle" ELSE "lock")
  /\ UNCHANGED <<sessions, startLock, live, started, device, count, op,
                 target, mine, serveVars>>

StartAcquire(h) ==
  /\ pc[h] = "lock"
  /\ startLock[target[h]] = NoHandler
  /\ startLock' = [startLock EXCEPT ![target[h]] = h]
  /\ Goto(h, "recheck")
  /\ UNCHANGED <<sessions, live, started, device, count, op, target, mine,
                 serveVars>>

\* Faulty variant: the session found missing before the lock is not looked
\* for again.
StartRecheck_Trusts(h) ==
  /\ pc[h] = "recheck"
  /\ Goto(h, "dial")
  /\ UNCHANGED <<sessions, startLock, live, started, device, count, op,
                 target, mine, serveVars>>

\* Another caller may have finished while this one waited for the lock.
StartRecheck(h) ==
  /\ pc[h] = "recheck"
  /\ \/ /\ sessions[target[h]] # NoSession
        /\ Goto(h, "idle")
        /\ startLock' = [startLock EXCEPT ![target[h]] = NoHandler]
     \/ /\ sessions[target[h]] = NoSession
        /\ Goto(h, "dial")
        /\ UNCHANGED startLock
  /\ UNCHANGED <<sessions, live, started, device, count, op, target, mine,
                 serveVars>>

\* newSession connects to the radio and opens the device's store.
StartDial(h) ==
  /\ pc[h] = "dial"
  /\ count < MaxSessions
  /\ count' = count + 1
  /\ live' = live \union {count'}
  /\ device' = [device EXCEPT ![count'] = target[h]]
  /\ mine' = [mine EXCEPT ![h] = count']
  /\ Goto(h, "install")
  /\ UNCHANGED <<sessions, startLock, started, op, target, serveVars>>

\* newSession fails and cleans up after itself.
StartFail(h) ==
  /\ pc[h] = "dial"
  /\ startLock' = [startLock EXCEPT ![target[h]] = NoHandler]
  /\ Goto(h, "idle")
  /\ UNCHANGED <<sessions, live, started, device, count, op, target, mine,
                 serveVars>>

StartInstall(h) ==
  /\ pc[h] = "install"
  /\ sessions' = [sessions EXCEPT ![target[h]] = mine[h]]
  /\ Goto(h, "launch")
  /\ UNCHANGED <<startLock, live, started, device, count, op, target, mine,
                 serveVars>>

\* s.start(), then the dial lock is released; the session may have been
\* stopped since it was installed.
StartLaunch(h) ==
  /\ pc[h] = "launch"
  /\ started' = started \union {mine[h]}
  /\ mine' = [mine EXCEPT ![h] = NoSession]
  /\ startLock' = [startLock EXCEPT ![target[h]] = NoHandler]
  /\ Goto(h, "idle")
  /\ UNCHANGED <<sessions, live, device, count, op, target, serveVars>>
-----------------------------------------------------------------------------
\* A restart goes on with startSession.
AfterStop(h) == IF op[h] = "restart" THEN "fast" ELSE "idle"

\* stopSession, under d.mu.
StopTake(h) ==
  LET s == sessions[target[h]]
  IN  /\ pc[h] = "take"
      /\ sessions' = [sessions EXCEPT ![target[h]] = NoSession]
      /\ mine' = [mine EXCEPT ![h] = s]
      /\ Goto(h, IF s = NoSession THEN AfterStop(h) ELSE "close")
      /\ UNCHANGED <<startLock, live, started, device, count, op, target,
                     serveVars>>

\* s.stop()
StopClose(h) ==
  /\ pc[h] = "close"
  /\ live' = live \ {mine[h]}
  /\ mine' = [mine EXCEPT ![h] = NoSession]
  /\ Goto(h, AfterStop(h))
  /\ UNCHANGED <<sessions, startLock, started, device, count, op, target,
                 serveVars>>
-----------------------------------------------------------------------------
\* Stop (or a failing Accept) closes the listener; handlers keep running.
Stop ==
  /\ serve = "up"
  /\ serve' = "closing"
  /\ UNCHANGED <<sessions, startLock, live, started, device, count,
                 handlerVars, doomed>>

\* stopAllSessions empties the map under d.mu ...
StopAllTake ==
  /\ serve = "closing"
  /\ serve' = "taken"
  /\ doomed' = {sessions[d] : d \in Devices} \ {NoSession}
  /\ sessions' = [d \in Devices |-> NoSession]
  /\ UNCHANGED <<startLock, live, started, device, count, handlerVars>>

\* ... and stops the sessions one after the other.
StopAllClose(s) ==
  /\ serve = "taken"
  /\ s \in doomed
  /\ live' = live \ {s}
  /\ doomed' = doomed \ {s}
  /\ UNCHANGED <<sessions, startLock, started, device, count, handlerVars,
                 serve>>

ServeReturns ==
  /\ serve = "taken"
  /\ doomed = {}
  /\ serve' = "stopped"
  /\ UNCHANGED <<sessions, startLock, live, started, device, count,
                 handlerVars, doomed>>
-----------------------------------------------------------------------------
HandlerStep(h) ==
  \/ StartFast(h) \/ StartRecheck(h) \/ StartDial(h) \/ StartFail(h)
  \/ StartInstall(h) \/ StartLaunch(h) \/ StopTake(h) \/ StopClose(h)

ServeStep == StopAllTake \/ (\E s \in Ids : StopAllClose(s)) \/ ServeReturns

Next ==
  \/ \E h \in Handlers :
       \/ \E d \in Devices, o \in {"start", "stop", "restart"} :
            Request(h, o, d)
       \/ StartAcquire(h)
       \/ HandlerStep(h)
  \/ Stop
  \/ ServeStep

Spec == Init /\ [][Next]_vars

(***************************************************************************)
(* Handlers and Serve keep running (a dial returns), and Mutex does not    *)
(* starve its waiters; no request ever has to come.                        *)
(***************************************************************************)
Fairness ==
  /\ \A h \in Handlers : WF_vars(HandlerStep(h)) /\ SF_vars(StartAcquire(h))
  /\ WF_vars(ServeStep)

FairSpec == Spec /\ Fairness
-----------------------------------------------------------------------------
(* Properties                                                              *)

\* Types of the variables; a dial lock is held by a handler of that device
\* that is between its lock and its unlock.
TypeOK ==
  /\ sessions \in [Devices -> 0..MaxSessions]
  /\ startLock \in [Devices -> Handlers \union {NoHandler}]
  /\ live \subseteq 1..count
  /\ started \subseteq 1..count
  /\ device \in [Ids -> Devices \union {Unknown}]
  /\ count \in 0..MaxSessions
  /\ pc \in [Handlers -> {"idle", "fast", "lock", "recheck", "dial",
                          "install", "launch", "take", "close"}]
  /\ op \in [Handlers -> {"start", "stop", "restart"}]
  /\ target \in [Handlers -> Devices \union {Unknown}]
  /\ mine \in [Handlers -> 0..MaxSessions]
  /\ serve \in {"up", "closing", "taken", "stopped"}
  /\ doomed \subseteq Ids
  /\ \A h \in Handlers :
       pc[h] \in {"recheck", "dial", "install", "launch"} <=>
         \E d \in Devices : startLock[d] = h /\ target[h] = d

\* Sessions a stop has taken out of the map and not yet closed.
Stopping == doomed \union {mine[h] : h \in {g \in Handlers : pc[g] = "close"}}

\* Sessions dialled by a start that has not yet put them into the map.
Starting == {mine[h] : h \in {g \in Handlers : pc[g] = "install"}}

\* "do not open two connections to the same radio": two open sessions of one
\* device exist only while one of them is already being stopped.
OneSessionPerDevice ==
  \A s, t \in live \ Stopping : device[s] = device[t] => s = t

\* No session is lost: every open one is in the map under its device, about to
\* be installed, or about to be closed by the stop that took it.
NoOrphan ==
  live \subseteq Starting \union Stopping \union {sessions[d] : d \in Devices}

\* The map never hands out a session that has been stopped, and none under the
\* wrong device.
MapHoldsLive ==
  \A d \in Devices :
    sessions[d] # NoSession =>
      sessions[d] \in live \ Stopping /\ device[sessions[d]] = d

\* All three, over well-typed states: map and sessions agree however starts,
\* stops, restarts and the shutdown interleave.
SessionsAreTracked == TypeOK /\ OneSessionPerDevice /\ NoOrphan /\ MapHoldsLive

\* daemon.go: "Stop closes the listener, which unwinds Serve and stops every
\* session".
StopStopsSessions == serve = "stopped" ~> live = {}
=============================================================================
