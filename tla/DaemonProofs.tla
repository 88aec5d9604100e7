---------------------------- MODULE DaemonProofs ----------------------------
(***************************************************************************)
(* Theorems about Daemon, for any set of devices, any number of concurrent *)
(* requests and any number of sessions.                                    *)
(***************************************************************************)
EXTENDS Daemon, TLAPS

\* Between lock and unlock of a device's dial lock.
Locked == {"recheck", "dial", "install", "launch"}

\* A dial lock has one holder, which is dialling that very device; whoever has
\* a request has a device.
LockInv ==
  /\ \A d \in Devices, h \in Handlers :
       startLock[d] = h <=> target[h] = d /\ pc[h] \in Locked
  /\ \A h \in Handlers : pc[h] # "idle" => target[h] \in Devices

\* Sessions named by a handler or by Serve have been dialled; Serve has none
\* to stop before it has emptied the map.
DialledInv ==
  /\ doomed \subseteq 1..count
  /\ serve \in {"up", "closing"} => doomed = {}
  /\ \A h \in Handlers :
       pc[h] \in {"install", "launch", "close"} => mine[h] \in 1..count

\* A stop is about to close session s.
Closing(s) ==
  s \in doomed \/ \E h \in Handlers : pc[h] = "close" /\ mine[h] = s

\* From its second look to the installation nothing is in the map for the
\* device a start is dialling, and the session it has dialled is its own.
StartInv ==
  \A h \in Handlers :
    /\ pc[h] \in {"dial", "install"} => sessions[target[h]] = NoSession
    /\ pc[h] = "install" =>
         mine[h] \in live /\ ~Closing(mine[h]) /\ device[mine[h]] = target[h]

\* NoOrphan, with its sets spelt out.
OwnerInv ==
  \A s \in live :
    \/ Closing(s)
    \/ \E h \in Handlers : pc[h] = "install" /\ mine[h] = s
    \/ \E d \in Devices : sessions[d] = s

\* MapHoldsLive, with its sets spelt out.
MapInv ==
  \A d \in Devices :
    sessions[d] # NoSession =>
      sessions[d] \in live /\ ~Closing(sessions[d]) /\ device[sessions[d]] = d

\* The types of TypeOK without its statement on locks, which LockInv implies.
Types ==
  /\ sessions \in [Devices -> 0..MaxSessions]
  /\ startLock \in [Devices -> Handlers \union {NoHandler}]
  /\ live \subseteq 1..count
  /\ started \subseteq 1..count
  /\ device \in [Ids -> Devices \union {Unknown}]
  /\ count \in 0..MaxSessions
  /\ pc \in [Handlers -> {"idle", "fast", "lock", "recheck", "dial",
                          "install", "launch", "take", "close"}]
  /\ op \in [Handlers -> {"start", "stop", "restart"}]
  /\ target \in [Handlers -> Devices \union {Unknown}]
  /\ mine \in [Handlers -> 0..MaxSessions]
  /\ serve \in {"up", "closing", "taken", "stopped"}
  /\ doomed \subseteq Ids

\* The inductive invariant.
IInv == Types /\ LockInv /\ DialledInv /\ StartInv /\ OwnerInv /\ MapInv

\* The daemon starts without sessions.
LEMMA InitIInv == Init => IInv
  <1> SUFFICES ASSUME Init PROVE IInv
    OBVIOUS
  <1> USE DaemonAssumption DEF Init
  <1>1. Types
    BY DEF Types, NoSession, Ids
  <1>2. LockInv /\ DialledInv /\ StartInv
    BY DEF LockInv, DialledInv, StartInv, Locked
  <1>3. OwnerInv /\ MapInv
    BY DEF OwnerInv, MapInv
  <1> QED
    BY <1>1, <1>2, <1>3 DEF IInv

\* Every step preserves the inductive invariant.
LEMMA StepIInv == IInv /\ [Next]_vars => IInv'
  <1> SUFFICES ASSUME IInv, [Next]_vars PROVE IInv'
    OBVIOUS
  <1> USE DaemonAssumption DEF IInv, handlerVars, serveVars, Goto, NoSession, Ids
  <1>1. ASSUME NEW h \in Handlers, NEW d \in Devices,
               NEW o \in {"start", "stop", "restart"}, Request(h, o, d)
        PROVE  IInv'
    <2>1. Types' /\ LockInv' /\ DialledInv'
      BY <1>1 DEF Request, Types, LockInv, Locked, DialledInv
    <2>2. StartInv' /\ MapInv'
      BY <1>1 DEF Request, Types, LockInv, Locked, DialledInv, StartInv,
         MapInv, Closing
    <2>3. OwnerInv'
      BY <1>1 DEF Request, Types, DialledInv, StartInv, OwnerInv, Closing
    <2> QED
      BY <2>1, <2>2, <2>3
  <1>2. ASSUME NEW h \in Handlers, StartFast(h)
        PROVE  IInv'
    <2>1. Types' /\ LockInv' /\ DialledInv'
      BY <1>2 DEF StartFast, Types, LockInv, Locked, DialledInv
    <2>2. StartInv' /\ MapInv'
      BY <1>2 DEF StartFast, Types, LockInv, Locked, DialledInv, StartInv,
         MapInv, Closing
    <2>3. OwnerInv'
      BY <1>2 DEF StartFast, Types, DialledInv, StartInv, OwnerInv, Closing
    <2> QED
      BY <2>1, <2>2, <2>3
  <1>3. ASSUME NEW h \in Handlers, StartAcquire(h)
        PROVE  IInv'
    <2>1. Types'
      BY <1>3 DEF StartAcquire, Types
    <2>2. LockInv' /\ DialledInv' /\ StartInv' /\ OwnerInv' /\ MapInv'
      BY <1>3, SMTT(30) DEF StartAcquire, Types, LockInv, Locked, DialledInv, StartInv,
         MapInv, Closing, OwnerInv
    <2> QED
      BY <2>1, <2>2
  <1>4. ASSUME NEW h \in Handlers, StartRecheck(h)
        PROVE  IInv'
    <2>1. Types' /\ DialledInv'
      BY <1>4 DEF StartRecheck, Types, DialledInv
    <2>2. LockInv'
      <3>1. CASE sessions[target[h]] # NoSession
        BY <1>4, <3>1 DEF StartRecheck, Types, LockInv, Locked
      <3>2. CASE sessions[target[h]] = NoSession
        BY <1>4, <3>2 DEF StartRecheck, Types, LockInv, Locked
      <3> QED
        BY <3>1, <3>2
    <2>3. StartInv' /\ MapInv'
      BY <1>4 DEF StartRecheck, Types, LockInv, Locked, DialledInv, StartInv,
         MapInv, Closing
    <2>4. OwnerInv'
      BY <1>4, ZenonT(30) DEF StartRecheck, Types, DialledInv, StartInv, OwnerInv, Closing
    <2> QED
      BY <2>1, <2>2, <2>3, <2>4
  <1>5. ASSUME NEW h \in Handlers, StartDial(h)
        PROVE  IInv'
    <2>1. Types' /\ LockInv' /\ DialledInv'
      BY <1>5 DEF StartDial, Types, LockInv, Locked, DialledInv
    <2>2. StartInv' /\ MapInv'
      BY <1>5 DEF StartDial, Types, LockInv, Locked, DialledInv, StartInv,
         MapInv, Closing
    <2>3. OwnerInv'
      BY <1>5 DEF StartDial, Types, DialledInv, StartInv, OwnerInv, Closing
    <2> QED
      BY <2>1, <2>2, <2>3
  <1>6. ASSUME NEW h \in Handlers, StartFail(h)
        PROVE  IInv'
    <2>1. Types' /\ LockInv' /\ DialledInv'
      BY <1>6 DEF StartFail, Types, LockInv, Locked, DialledInv
    <2>2. StartInv' /\ MapInv'
      BY <1>6 DEF StartFail, Types, LockInv, Locked, DialledInv, StartInv,
         MapInv, Closing
    <2>3. OwnerInv'
      BY <1>6 DEF StartFail, Types, DialledInv, StartInv, OwnerInv, Closing
    <2> QED
      BY <2>1, <2>2, <2>3
  <1>7. ASSUME NEW h \in Handlers, StartInstall(h)
        PROVE  IInv'
    <2>1. Types' /\ LockInv' /\ DialledInv' /\ StartInv' /\ MapInv'
      BY <1>7 DEF StartInstall, Types, LockInv, Locked, DialledInv, StartInv,
         MapInv, Closing
    <2>2. OwnerInv'
      <3> SUFFICES ASSUME NEW s \in live
                   PROVE  \/ Closing(s)'
                          \/ \E g \in Handlers : pc'[g] = "install" /\ mine'[g] = s
                          \/ \E d \in Devices : sessions'[d] = s
        BY <1>7 DEF StartInstall, OwnerInv
      <3>1. target[h] \in Devices /\ sessions[target[h]] # s
        BY <1>7 DEF StartInstall, LockInv, StartInv, Types
      <3>2. CASE Closing(s)
        BY <1>7, <3>2 DEF StartInstall, Closing, Types
      <3>3. CASE \E g \in Handlers : pc[g] = "install" /\ mine[g] = s
        BY <1>7, <3>1, <3>3 DEF StartInstall, Types
      <3>4. CASE \E d \in Devices : sessions[d] = s
        BY <1>7, <3>1, <3>4 DEF StartInstall, Types
      <3> QED
        BY <3>2, <3>3, <3>4 DEF OwnerInv
    <2> QED
      BY <2>1, <2>2
  <1>8. ASSUME NEW h \in Handlers, StartLaunch(h)
        PROVE  IInv'
    <2>1. Types'
      <3>1. started' \subseteq 1..count
        BY <1>8 DEF StartLaunch, Types, DialledInv
      <3>2. mine' \in [Handlers -> 0..MaxSessions]
        <4>1. 0 \in 0..MaxSessions
          OBVIOUS
        <4> QED
          BY <1>8, <4>1 DEF StartLaunch, Types
      <3>3. startLock' \in [Devices -> Handlers \union {NoHandler}]
        BY <1>8 DEF StartLaunch, Types
      <3>4. pc' \in [Handlers -> {"idle", "fast", "lock", "recheck", "dial",
                                 "install", "launch", "take", "close"}]
        BY <1>8 DEF StartLaunch, Types
      <3> QED
        BY <1>8, <3>1, <3>2, <3>3, <3>4 DEF StartLaunch, Types
    <2>2. LockInv' /\ DialledInv'
      BY <1>8 DEF StartLaunch, Types, LockInv, Locked, DialledInv
    <2>3. StartInv' /\ OwnerInv' /\ MapInv'
      BY <1>8, SMTT(30) DEF StartLaunch, Types, LockInv, Locked, DialledInv, StartInv,
         MapInv, Closing, OwnerInv
    <2> QED
      BY <2>1, <2>2, <2>3
  <1>9. ASSUME NEW h \in Handlers, StopTake(h)
        PROVE  IInv'
    <2>1. Types' /\ LockInv' /\ DialledInv'
      BY <1>9 DEF StopTake, AfterStop, Types, LockInv, Locked, DialledInv,
         MapInv
    <2>2. StartInv' /\ MapInv'
      BY <1>9 DEF StopTake, AfterStop, Types, LockInv, Locked, DialledInv,
         StartInv, MapInv, Closing
    <2>3. OwnerInv'
      BY <1>9, SMTT(30) DEF StopTake, AfterStop, Types, LockInv, OwnerInv, Closing
    <2> QED
      BY <2>1, <2>2, <2>3
  <1>10. ASSUME NEW h \in Handlers, StopClose(h)
        PROVE  IInv'
    <2>1. Types'
      <3>1. live' \subseteq live /\ mine' \in [Handlers -> 0..MaxSessions]
        BY <1>10 DEF StopClose, Types
      <3> QED
        BY <1>10, <3>1 DEF StopClose, AfterStop, Types
    <2>2. LockInv' /\ DialledInv'
      BY <1>10 DEF StopClose, AfterStop, Types, LockInv, Locked, DialledInv
    <2>3. StartInv' /\ MapInv'
      BY <1>10 DEF StopClose, AfterStop, Types, LockInv, Locked, DialledInv,
         StartInv, MapInv, Closing
    <2>4. OwnerInv'
      BY <1>10 DEF StopClose, AfterStop, Types, DialledInv, StartInv, OwnerInv,
         Closing
    <2> QED
      BY <2>1, <2>2, <2>3, <2>4
  <1>11. CASE Stop
    BY <1>11 DEF Stop, Types, LockInv, Locked, DialledInv, StartInv, MapInv,
       Closing, OwnerInv
  <1>12. CASE StopAllTake
    <2>1. Types' /\ LockInv' /\ DialledInv' /\ StartInv' /\ MapInv'
      BY <1>12 DEF StopAllTake, Types, LockInv, Locked, DialledInv, MapInv,
         StartInv, Closing
    <2>2. OwnerInv'
      <3> SUFFICES ASSUME NEW s \in live
                   PROVE  \/ Closing(s)'
                          \/ \E h \in Handlers : pc[h] = "install" /\ mine[h] = s
        BY <1>12 DEF StopAllTake, OwnerInv
      <3>1. CASE \E d \in Devices : sessions[d] = s
        <4>1. s # 0
          BY DEF Types
        <4>2. s \in doomed'
          BY <1>12, <3>1, <4>1 DEF StopAllTake
        <4> QED
          BY <4>2 DEF Closing
      <3>2. CASE \E h \in Handlers : pc[h] = "close" /\ mine[h] = s
        BY <1>12, <3>2 DEF StopAllTake, Closing
      <3>3. doomed = {}
        BY <1>12 DEF StopAllTake, DialledInv
      <3> QED
        BY <1>12, <3>1, <3>2, <3>3 DEF StopAllTake, OwnerInv, Closing
    <2> QED
      BY <2>1, <2>2
  <1>13. ASSUME NEW s \in Ids, StopAllClose(s)
        PROVE  IInv'
    BY <1>13 DEF StopAllClose, Types, LockInv, Locked, DialledInv, StartInv,
       MapInv, Closing, OwnerInv
  <1>14. CASE ServeReturns
    BY <1>14 DEF ServeReturns, Types, LockInv, Locked, DialledInv, StartInv,
       MapInv, Closing, OwnerInv
  <1>15. CASE UNCHANGED vars
    BY <1>15 DEF vars, Types, LockInv, Locked, DialledInv, StartInv, MapInv,
       Closing, OwnerInv
  <1> HIDE DEF IInv
  <1> QED
    BY <1>1, <1>2, <1>3, <1>4, <1>5, <1>6, <1>7, <1>8, <1>9, <1>10, <1>11,
       <1>12, <1>13, <1>14, <1>15
    DEF Next, HandlerStep, ServeStep

\* The parts of SessionsAreTracked follow from the inductive invariant.
LEMMA Tracked == IInv => SessionsAreTracked
  <1> SUFFICES ASSUME IInv PROVE SessionsAreTracked
    OBVIOUS
  <1> USE DaemonAssumption DEF IInv
  <1>1. TypeOK
    BY DEF Types, LockInv, Locked, TypeOK
  <1>2. \A s : s \in Stopping <=> Closing(s)
    BY DEF Stopping, Closing
  <1>3. NoOrphan
    BY <1>2 DEF NoOrphan, Starting, OwnerInv
  <1>4. MapHoldsLive
    BY <1>2 DEF MapHoldsLive, MapInv
  <1>5. OneSessionPerDevice
    <2> SUFFICES ASSUME NEW s \in live, NEW t \in live, ~Closing(s), ~Closing(t),
                        device[s] = device[t]
                 PROVE  s = t
      BY <1>2 DEF OneSessionPerDevice
    <2>1. s # NoSession /\ t # NoSession
      BY DEF Types, NoSession
    <2> DEFINE InMap(x) == sessions[device[x]] = x /\ device[x] \in Devices
               InHand(x) == \E h \in Handlers :
                              /\ pc[h] = "install" /\ mine[h] = x
                              /\ target[h] = device[x] /\ device[x] \in Devices
                              /\ startLock[device[x]] = h
                              /\ sessions[device[x]] = NoSession
    <2>2. \A x \in live : ~Closing(x) /\ x # NoSession => InMap(x) \/ InHand(x)
      BY DEF OwnerInv, MapInv, StartInv, LockInv, Locked
    <2> QED
      BY <2>1, <2>2
  <1> QED
    BY <1>1, <1>3, <1>4, <1>5 DEF SessionsAreTracked

\* However starts, stops, restarts and the shutdown interleave, a device has at
\* most one session that is not being stopped, no open session is lost, and the
\* map hands out open sessions only (startSession, stopSession, stopAllSessions).
THEOREM SessionsTracked == Spec => []SessionsAreTracked
  BY InitIInv, StepIInv, Tracked, PTL DEF Spec
=============================================================================
