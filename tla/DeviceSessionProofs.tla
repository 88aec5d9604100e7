------------------------ MODULE DeviceSessionProofs ------------------------
(***************************************************************************)
(* Theorems about DeviceSession, for any set of bridges and workers, and   *)
(* any number of connections, requests and failures; and about Ipc, for    *)
(* any finite set of handlers and any number of radio clients.             *)
(***************************************************************************)
EXTENDS MCSession, FiniteSetTheorems, TLAPS

Connected == {b \in Bridges : bpc[b] # "idle"}

\* Every connection that has begun has ended or is under way, so leaveBridge
\* number k exists for each connection k.
CountInv ==
  /\ IsFiniteSet(Connected)
  /\ bridgings = leaves + Cardinality(Connected)

\* Reconnect goroutine k is not running before leaveBridge number k.
SpareInv == \A r \in Reconnectors : r > leaves => rpc[r] = "idle"

\* NoClientLeaked, with its sets spelt out.
LeakInv ==
  \A c \in open :
    \/ c = client
    \/ ppc = "degraded" /\ pcur = c
    \/ \E r \in Reconnectors : rpc[r] \in {"install", "close"} /\ rcur[r] = c

\* A client that is about to be installed is open and nobody else's; one that
\* is about to be closed is no longer the session's.
FreshInv ==
  /\ \A r \in Reconnectors :
       rpc[r] = "install" =>
         /\ rcur[r] \in open
         /\ rcur[r] # client
         /\ ppc = "degraded" => pcur # rcur[r]
         /\ \A q \in Reconnectors \ {r} :
              rpc[q] \in {"install", "close"} => rcur[q] # rcur[r]
  /\ \A r \in Reconnectors :
       rpc[r] = "close" => rcur[r] = NoClient \/ rcur[r] # client
  /\ ppc = "degraded" => pcur = NoClient \/ pcur # client

\* The drain has its client before it looks at the state.
CheckInv ==
  stopping # "done" /\ dpc = "check" => dcur \in open \/ robbed

\* The inductive invariant.
IInv == TypeOK /\ CountInv /\ SpareInv /\ RadioHolder /\ LeakInv /\ FreshInv
        /\ CheckInv /\ InUseStaysOpen

\* newSession leaves one open client.
LEMMA InitIInv == Init => IInv
  <1> SUFFICES ASSUME Init PROVE IInv
    OBVIOUS
  <1> USE DeviceSessionAssumption DEF Init, Reconnectors, Poll, NoClient
  <1>1. TypeOK
    <2>1. 0 \in 0..MaxBridging /\ 0 \in 0..MaxMail /\ 0 \in 0..MaxWork
          /\ 0 \in 0..MaxFailures
      OBVIOUS
    <2>2. drainReq \in BOOLEAN /\ robbed \in BOOLEAN
      OBVIOUS
    <2>3. /\ client \in Clients \union {NoClient} /\ open \subseteq Clients
          /\ dials \in Nat
      BY DEF Clients
    <2>4. /\ rcur \in [Reconnectors -> Clients \union {NoClient}]
          /\ wcur \in [Workers -> Clients \union {NoClient}]
      OBVIOUS
    <2> QED
      BY <2>1, <2>2, <2>3, <2>4 DEF TypeOK
  <1>2. CountInv
    <2>1. Connected = {}
      BY DEF Connected
    <2> QED
      BY <2>1, FS_EmptySet DEF CountInv
  <1>3. RadioHolder
    BY DEF RadioHolder
  <1>4. SpareInv /\ LeakInv /\ FreshInv /\ CheckInv /\ InUseStaysOpen
    BY DEF SpareInv, LeakInv, FreshInv, CheckInv, InUseStaysOpen
  <1> QED
    BY <1>1, <1>2, <1>3, <1>4 DEF IInv

\* A holder whose client is closed by another has been robbed.
LEMMA HolderIsRobbed ==
  ASSUME TypeOK, RadioHolder, CheckInv, InUseStaysOpen, NEW c,
         CloseWithoutLock(c),
         client' = NoClient \/ (client' = client /\ (c = NoClient \/ c # client)),
         UNCHANGED <<radio, pollVars, drainVars, workVars, stopping>>
  PROVE  CheckInv' /\ InUseStaysOpen'
  <1> USE DeviceSessionAssumption
      DEF pollVars, drainVars, workVars
  <1>1. NoClient \notin open
    BY DEF TypeOK, Clients, NoClient
  <1>2. robbed => robbed'
    BY DEF CloseWithoutLock
  <1>3. \A d \in open : d = Held => d \in open' \/ robbed'
    <2> TAKE d \in open
    <2> HAVE d = Held
    <2>1. CASE d = c
      BY <1>1, <2>1 DEF CloseWithoutLock
    <2>2. CASE d # c
      BY <2>2 DEF CloseWithoutLock
    <2> QED
      BY <2>1, <2>2
  <1>4. ppc = "stats" => Held = pcur
    BY DEF RadioHolder, Held
  <1>5. dpc \in {"check", "drain"} => Held = dcur
    BY DEF RadioHolder, Held
  <1>6. \A w \in Workers \ unlocked : wpc[w] = "use" => Held = wcur[w]
    BY DEF RadioHolder, Held
  <1>7. client' # NoClient => client' = client /\ (client \in open => client \in open')
    BY <1>1 DEF CloseWithoutLock
  <1>8. CheckInv'
    BY <1>2, <1>3, <1>5 DEF CheckInv
  <1>9. InUseStaysOpen'
    <2> SUFFICES ASSUME stopping # "done" PROVE InUseStaysOpen'
      BY DEF InUseStaysOpen
    <2>1. ppc = "stats" => pcur \in open' \/ robbed'
      BY <1>2, <1>3, <1>4 DEF InUseStaysOpen
    <2>2. dpc = "drain" => dcur \in open' \/ robbed'
      BY <1>2, <1>3, <1>5 DEF InUseStaysOpen
    <2>3. \A w \in Workers \ unlocked :
            wpc[w] = "use" => wcur[w] \in open' \/ robbed'
      BY <1>2, <1>3, <1>6 DEF InUseStaysOpen
    <2>4. client' # NoClient => client' \in open'
      BY <1>7 DEF InUseStaysOpen
    <2> QED
      BY <2>1, <2>2, <2>3, <2>4 DEF InUseStaysOpen
  <1> QED
    BY <1>8, <1>9

\* Every step preserves the inductive invariant.
LEMMA StepIInv == IInv /\ [Next]_vars => IInv'
  <1> SUFFICES ASSUME IInv, [Next]_vars PROVE IInv'
    OBVIOUS
  <1> USE DeviceSessionAssumption
      DEF IInv, lifeVars, lockVars, pollVars, reconVars, bridgeVars, drainVars, mailVars,
          workVars, Reconnectors, Poll, Stopped, Unlock
  <1>1. CASE PollTick
    BY <1>1 DEF PollTick, TypeOK, Clients, NoClient, CountInv, Connected,
       SpareInv, RadioHolder, LeakInv, FreshInv, CheckInv, InUseStaysOpen
  <1>2. CASE PollExit
    BY <1>2 DEF PollExit, TypeOK, Clients, NoClient, CountInv, Connected,
       SpareInv, RadioHolder, LeakInv, FreshInv, CheckInv, InUseStaysOpen
  <1>3. CASE PollTryLock
    BY <1>3 DEF PollTryLock, TypeOK, Clients, NoClient, CountInv, Connected,
       SpareInv, RadioHolder, LeakInv, FreshInv, CheckInv, InUseStaysOpen
  <1>4. CASE PollCheck
    <2>1. TypeOK'
      BY <1>4, SMTT(30) DEF PollCheck, TypeOK, Clients, NoClient
    <2>2. CountInv'
      BY <1>4 DEF PollCheck, CountInv, Connected
    <2>3. SpareInv' /\ RadioHolder' /\ CheckInv' /\ InUseStaysOpen'
      BY <1>4 DEF PollCheck, TypeOK, SpareInv, RadioHolder, CheckInv,
         InUseStaysOpen
    <2>4. LeakInv' /\ FreshInv'
      <3>1. \A r \in Reconnectors :
              /\ rpc'[r] \in {"install", "close"} => rpc'[r] = rpc[r]
              /\ rpc[r] \in {"install", "close"} => rpc'[r] = rpc[r]
        BY <1>4 DEF PollCheck, TypeOK, RadioHolder
      <3>2. ppc # "degraded" /\ ppc' # "degraded"
        BY <1>4 DEF PollCheck
      <3> QED
        BY <1>4, <3>1, <3>2 DEF PollCheck, LeakInv, FreshInv
    <2> QED
      BY <2>1, <2>2, <2>3, <2>4
  <1>5. CASE PollSnapshot
    BY <1>5, SMTT(30) DEF PollSnapshot, TypeOK, Clients, NoClient,
       CountInv, Connected, SpareInv, RadioHolder, LeakInv, FreshInv, CheckInv,
       InUseStaysOpen
  <1>6. CASE PollStatsOk
    BY <1>6 DEF PollStatsOk, TypeOK, Clients, NoClient, CountInv, Connected,
       SpareInv, RadioHolder, LeakInv, FreshInv, CheckInv, InUseStaysOpen
  <1>7. CASE PollStatsErr
    BY <1>7, SMTT(30) DEF PollStatsErr, OperationFails, RadioFails, TypeOK,
       Clients, NoClient, CountInv, Connected, SpareInv, RadioHolder, LeakInv,
       FreshInv, CheckInv, InUseStaysOpen
  <1>8. CASE PollMarkReady
    <2>1. robbed' \in BOOLEAN
      BY <1>8 DEF PollMarkReady
    <2>2. TypeOK'
      BY <1>8, <2>1 DEF PollMarkReady, TypeOK, Clients, NoClient
    <2>3. CountInv' /\ SpareInv' /\ RadioHolder' /\ LeakInv' /\ FreshInv'
      BY <1>8 DEF PollMarkReady, CountInv, Connected, SpareInv, RadioHolder,
         LeakInv, FreshInv
    \* The poll holds the radio, so nobody else is robbed.
    <2>4. CheckInv' /\ InUseStaysOpen'
      <3>1. /\ dpc \notin {"check", "drain"}
            /\ \A w \in Workers \ unlocked : wpc[w] # "use"
        BY <1>8 DEF PollMarkReady, TypeOK, RadioHolder
      <3> QED
        BY <1>8, <3>1 DEF PollMarkReady, CheckInv, InUseStaysOpen
    <2> QED
      BY <2>2, <2>3, <2>4
  <1>9. CASE PollCloseOld
    \* The poll holds the radio, so nobody else with the lock uses a client.
    <2>1. /\ dpc \notin {"check", "drain"}
          /\ \A w \in Workers \ unlocked : wpc[w] # "use"
      BY <1>9 DEF PollCloseOld, TypeOK, RadioHolder
    <2>2. CheckInv' /\ InUseStaysOpen'
      BY <1>9, <2>1 DEF PollCloseOld, FreshInv, CheckInv, InUseStaysOpen
    <2>3. robbed' \in BOOLEAN
      BY <1>9 DEF PollCloseOld
    <2>4. TypeOK'
      BY <1>9, <2>3 DEF PollCloseOld, TypeOK, Clients, NoClient
    <2>5. CountInv' /\ SpareInv' /\ RadioHolder'
      BY <1>9 DEF PollCloseOld, CountInv, Connected, SpareInv, RadioHolder
    <2>6. LeakInv' /\ FreshInv'
      BY <1>9 DEF PollCloseOld, TypeOK, Clients, NoClient, LeakInv, FreshInv
    <2> QED
      BY <2>2, <2>4, <2>5, <2>6
  <1>10. ASSUME NEW r \in Reconnectors, ReconnectCheck(r)
        PROVE  IInv'
    <2>1. TypeOK'
      <3>1. robbed' \in BOOLEAN
        BY <1>10 DEF ReconnectCheck, ReconnectReturn, TypeOK
      <3> QED
        BY <1>10, <3>1 DEF ReconnectCheck, ReconnectReturn, TypeOK, Clients,
           NoClient
    <2>2. CountInv' /\ SpareInv'
      BY <1>10 DEF ReconnectCheck, ReconnectReturn, CountInv, Connected,
         TypeOK, SpareInv
    <2>3. RadioHolder'
      BY <1>10 DEF ReconnectCheck, ReconnectReturn, TypeOK, RadioHolder
    <2>4. LeakInv'
      <3>1. \A q \in Reconnectors :
              rpc[q] \in {"install", "close"} => rpc'[q] = rpc[q]
        BY <1>10 DEF ReconnectCheck, ReconnectReturn, TypeOK
      <3>2. ppc = "degraded" => ppc' = "degraded"
        BY <1>10 DEF ReconnectCheck, ReconnectReturn, RadioHolder
      <3> QED
        BY <1>10, <3>1, <3>2 DEF ReconnectCheck, LeakInv
    <2>5. FreshInv' /\ CheckInv' /\ InUseStaysOpen'
      BY <1>10 DEF ReconnectCheck, ReconnectReturn, TypeOK, Clients, NoClient,
         RadioHolder, SpareInv, FreshInv, CheckInv, InUseStaysOpen
    <2> QED
      BY <2>1, <2>2, <2>3, <2>4, <2>5
  <1>11. ASSUME NEW r \in Reconnectors, ReconnectDial(r)
        PROVE  IInv'
    <2>1. /\ TypeOK' /\ CountInv' /\ SpareInv'
          /\ RadioHolder' /\ CheckInv' /\ InUseStaysOpen'
      BY <1>11, SMTT(30) DEF ReconnectDial, TypeOK, Clients, NoClient, CountInv,
         Connected, SpareInv, RadioHolder, CheckInv, InUseStaysOpen
    <2>2. LeakInv' /\ FreshInv'
      <3>1. rcur'[r] = dials' /\ rpc'[r] = "install"
        BY <1>11 DEF ReconnectDial, TypeOK
      <3>2. \A q \in Reconnectors : q # r => rcur'[q] = rcur[q] /\ rpc'[q] = rpc[q]
        BY <1>11 DEF ReconnectDial, TypeOK
      <3> QED
        <4>1. LeakInv'
          BY <1>11, <3>1, <3>2 DEF ReconnectDial, LeakInv
        <4>2. dials' \notin Clients /\ dials' # NoClient
          BY <1>11 DEF ReconnectDial, TypeOK, Clients, NoClient
        <4>3. /\ dials' # client /\ dials' # pcur
              /\ \A q \in Reconnectors : rcur[q] # dials'
          BY <4>2 DEF TypeOK
        <4> QED
          BY <1>11, <3>1, <3>2, <4>1, <4>3 DEF ReconnectDial, FreshInv
    <2> QED
      BY <2>1, <2>2
  <1>12. ASSUME NEW r \in Reconnectors, ReconnectFail(r)
        PROVE  IInv'
    <2>1. TypeOK'
      <3>1. robbed' \in BOOLEAN
        BY <1>12 DEF ReconnectFail, ReconnectReturn, TypeOK
      <3> QED
        BY <1>12, <3>1, SMTT(30) DEF ReconnectFail, ReconnectReturn, RadioFails,
           TypeOK, Clients, NoClient
    <2>2. CountInv' /\ SpareInv'
      BY <1>12 DEF ReconnectFail, ReconnectReturn, RadioFails, CountInv,
         Connected, TypeOK, SpareInv
    <2>3. RadioHolder'
      BY <1>12 DEF ReconnectFail, ReconnectReturn, RadioFails, TypeOK,
         RadioHolder
    <2>4. LeakInv' /\ FreshInv' /\ CheckInv' /\ InUseStaysOpen'
      BY <1>12, SMTT(30) DEF ReconnectFail, ReconnectReturn, RadioFails, TypeOK,
         RadioHolder, SpareInv, LeakInv, Clients, NoClient, FreshInv, CheckInv,
         InUseStaysOpen
    <2> QED
      BY <2>1, <2>2, <2>3, <2>4
  <1>13. ASSUME NEW r \in Reconnectors, ReconnectInstall(r)
        PROVE  IInv'
    BY <1>13, SMTT(30) DEF ReconnectInstall, TypeOK, Clients, NoClient, CountInv,
       Connected, SpareInv, RadioHolder, LeakInv, FreshInv, CheckInv, InUseStaysOpen
  <1>14. ASSUME NEW r \in Reconnectors, ReconnectCloseOld(r)
        PROVE  IInv'
    <2>1. robbed' \in BOOLEAN /\ (robbed => robbed')
      BY <1>14 DEF ReconnectCloseOld, CloseWithoutLock, TypeOK
    <2>2. open' = open \ {rcur[r]}
      BY <1>14 DEF ReconnectCloseOld, CloseWithoutLock
    <2>3. TypeOK'
      <3>1. open' \subseteq Clients /\ rcur' \in [Reconnectors -> Clients \union {NoClient}]
        BY <1>14, <2>2 DEF ReconnectCloseOld, TypeOK, NoClient
      <3>2. rpc' \in [Reconnectors -> {"idle", "start", "dial", "install",
                                       "close", "refresh"}]
        BY <1>14 DEF ReconnectCloseOld, TypeOK
      <3> QED
        BY <1>14, <2>1, <3>1, <3>2 DEF ReconnectCloseOld, TypeOK, Clients
    <2>4. CountInv' /\ SpareInv' /\ RadioHolder'
      <3>1. CountInv' /\ SpareInv'
        BY <1>14 DEF ReconnectCloseOld, CountInv, Connected, TypeOK, SpareInv
      <3>2. rpc'[Poll] # "idle" <=> rpc[Poll] # "idle"
        BY <1>14 DEF ReconnectCloseOld, TypeOK
      <3> QED
        BY <1>14, <3>1, <3>2 DEF ReconnectCloseOld, RadioHolder
    <2>5. LeakInv' /\ FreshInv'
      BY <1>14, <2>2 DEF ReconnectCloseOld, TypeOK, LeakInv, FreshInv, NoClient
    \* The poll holds the radio; another reconnect marks whom it robs.
    <2>6. CASE r = Poll
      <3>1. radio = "poll" /\ ppc # "stats"
        BY <1>14, <2>6 DEF ReconnectCloseOld, RadioHolder
      <3> QED
        BY <1>14, <2>2, <2>3, <2>4, <2>5, <3>1
        DEF ReconnectCloseOld, TypeOK, FreshInv, RadioHolder, CheckInv,
            InUseStaysOpen
    <2>7. CASE r # Poll
      <3>1. CloseWithoutLock(rcur[r])
        BY <1>14, <2>7 DEF ReconnectCloseOld
      <3> QED
        BY <1>14, <2>3, <2>4, <2>5, <3>1, HolderIsRobbed
        DEF ReconnectCloseOld, FreshInv
    <2> QED
      BY <2>6, <2>7
  <1>15. ASSUME NEW r \in Reconnectors, ReconnectRefresh(r)
        PROVE  IInv'
    <2>1. TypeOK'
      <3>1. robbed' \in BOOLEAN
        BY <1>15 DEF ReconnectRefresh, ReconnectReturn, TypeOK
      <3> QED
        BY <1>15, <3>1, SMTT(30) DEF ReconnectRefresh, ReconnectReturn, TypeOK,
           Clients, NoClient
    <2>2. CountInv' /\ SpareInv' /\ RadioHolder'
      BY <1>15 DEF ReconnectRefresh, ReconnectReturn, CountInv, Connected,
         TypeOK, SpareInv, RadioHolder
    <2>3. LeakInv' /\ FreshInv'
      BY <1>15 DEF ReconnectRefresh, ReconnectReturn, TypeOK, RadioHolder,
         LeakInv, FreshInv
    <2>4. CheckInv' /\ InUseStaysOpen'
      BY <1>15 DEF ReconnectRefresh, ReconnectReturn, TypeOK, RadioHolder,
         CheckInv, InUseStaysOpen
    <2> QED
      BY <2>1, <2>2, <2>3, <2>4
  <1>16. ASSUME NEW b \in Bridges, BridgeEnter(b)
        PROVE  IInv'
    <2>1. TypeOK' /\ SpareInv' /\ RadioHolder' /\ LeakInv' /\ FreshInv'
      <3>1. robbed' \in BOOLEAN
        BY <1>16 DEF BridgeEnter, CloseWithoutLock
      <3>2. open' = open \ {client}
        BY <1>16 DEF BridgeEnter, CloseWithoutLock
      <3>3. TypeOK'
        BY <1>16, <3>1, <3>2 DEF BridgeEnter, TypeOK, Clients, NoClient
      <3> QED
        BY <1>16, <3>2, <3>3 DEF BridgeEnter, TypeOK, Clients, NoClient,
           SpareInv, RadioHolder, LeakInv, FreshInv
    <2>3. CheckInv' /\ InUseStaysOpen'
      BY <1>16, HolderIsRobbed DEF BridgeEnter
    <2>2. CountInv'
      <3>1. b \notin Connected /\ Connected' = Connected \union {b}
        BY <1>16 DEF BridgeEnter, Connected, TypeOK
      <3>2. /\ IsFiniteSet(Connected')
            /\ Cardinality(Connected') = Cardinality(Connected) + 1
        BY <3>1, FS_AddElement DEF CountInv
      <3>3. Cardinality(Connected) \in Nat
        BY FS_CardinalityType DEF CountInv
      <3> QED
        BY <1>16, <3>2, <3>3 DEF BridgeEnter, CountInv, TypeOK
    <2> QED
      BY <2>1, <2>2, <2>3
  <1>17. ASSUME NEW b \in Bridges, BridgePump(b)
        PROVE  IInv'
    <2>1. TypeOK'
      BY <1>17 DEF BridgePump, TypeOK, Clients, NoClient
    <2>2. CountInv'
      BY <1>17 DEF BridgePump, CountInv, Connected
    <2>3. SpareInv' /\ RadioHolder' /\ LeakInv' /\ FreshInv' /\ CheckInv' /\ InUseStaysOpen'
      BY <1>17 DEF BridgePump, TypeOK, SpareInv, RadioHolder, LeakInv, Clients,
         NoClient, FreshInv, CheckInv, InUseStaysOpen
    <2> QED
      BY <2>1, <2>2, <2>3
  <1>18. ASSUME NEW b \in Bridges, BridgeLeave(b)
        PROVE  IInv'
    <2>1. /\ IsFiniteSet(Connected')
          /\ Cardinality(Connected') = Cardinality(Connected) - 1
          /\ Cardinality(Connected) \in Nat \ {0}
      <3>1. b \in Connected /\ Connected' = Connected \ {b}
        BY <1>18 DEF BridgeLeave, Connected, TypeOK
      <3>2. /\ IsFiniteSet(Connected')
            /\ Cardinality(Connected') = Cardinality(Connected) - 1
        BY <3>1, FS_RemoveElement DEF CountInv
      <3>3. Cardinality(Connected) \in Nat /\ Cardinality(Connected) # 0
        BY <3>1, FS_CardinalityType, FS_EmptySet DEF CountInv
      <3> QED
        BY <3>2, <3>3
    <2>2. leaves' = leaves + 1 /\ leaves' \in 0..bridgings /\ leaves' \in Reconnectors
      BY <1>18, <2>1 DEF BridgeLeave, CountInv, TypeOK
    <2>3. CountInv'
      BY <1>18, <2>1, <2>2 DEF BridgeLeave, CountInv, TypeOK
    <2> QED
      BY <1>18, <2>2, <2>3, SMTT(60) DEF BridgeLeave, TypeOK, Clients, NoClient, SpareInv,
         RadioHolder, LeakInv, FreshInv, CheckInv, InUseStaysOpen
  <1>19. CASE DrainWake
    <2>1. TypeOK'
      <3>1. drainReq' \in BOOLEAN
        BY <1>19 DEF DrainWake
      <3> QED
        BY <1>19, <3>1 DEF DrainWake, TypeOK, Clients
    <2>2. /\ CountInv' /\ SpareInv' /\ RadioHolder'
          /\ LeakInv' /\ FreshInv' /\ CheckInv' /\ InUseStaysOpen'
      BY <1>19 DEF DrainWake, CountInv, Connected, TypeOK, SpareInv,
         RadioHolder, LeakInv, Clients, NoClient, FreshInv, CheckInv, InUseStaysOpen
    <2> QED
      BY <2>1, <2>2
  <1>20. CASE DrainExit
    BY <1>20 DEF DrainExit, TypeOK, Clients, NoClient, CountInv, Connected,
       SpareInv, RadioHolder, LeakInv, FreshInv, CheckInv, InUseStaysOpen
  <1>21. CASE DrainBegin
    BY <1>21 DEF DrainBegin, TypeOK, Clients, NoClient, CountInv, Connected,
       SpareInv, RadioHolder, LeakInv, FreshInv, CheckInv, InUseStaysOpen
  <1>22. CASE DrainLock
    BY <1>22, SMTT(30) DEF DrainLock, TypeOK, Clients, NoClient, CountInv, Connected,
       SpareInv, RadioHolder, LeakInv, FreshInv, CheckInv, InUseStaysOpen
  <1>23. CASE DrainSnapshot
    <2>1. robbed' \in BOOLEAN
      BY <1>23 DEF DrainSnapshot, DrainReturn, TypeOK
    <2>2. TypeOK'
      <3>1. /\ dcur' \in Clients \union {NoClient}
            /\ radio' \in {"none", "poll", "drain"} \union Workers
        BY <1>23 DEF DrainSnapshot, DrainReturn, TypeOK
      <3>2. UNCHANGED <<lifeVars, open, dials, pollVars, reconVars, bridgeVars,
                        mailVars, workVars, failures, stopping>>
        BY <1>23 DEF DrainSnapshot, DrainReturn
      <3>3. dpc' \in {"idle", "check", "drain"}
        BY <1>23 DEF DrainSnapshot, DrainReturn
      <3> QED
        BY <2>1, <3>1, <3>2, <3>3 DEF TypeOK, Clients
    <2>3. CountInv' /\ SpareInv' /\ RadioHolder' /\ LeakInv' /\ FreshInv'
      <3>1. CountInv' /\ SpareInv' /\ LeakInv' /\ FreshInv'
        <4>1. UNCHANGED <<client, open, pollVars, reconVars, bridgeVars>>
          BY <1>23 DEF DrainSnapshot, DrainReturn
        <4> QED
          BY <4>1 DEF CountInv, Connected, SpareInv, LeakInv, FreshInv
      <3>2. CASE DrainReturn
        BY <1>23, <3>1, <3>2 DEF DrainSnapshot, DrainReturn, TypeOK, RadioHolder
      <3>3. CASE ~DrainReturn
        <4>1. /\ dpc \in {"snapshot", "check"} /\ dpc' \in {"check", "drain"}
              /\ UNCHANGED <<radio, pollVars, reconVars, workVars>>
          BY <1>23, <3>3 DEF DrainSnapshot
        <4> QED
          BY <3>1, <4>1 DEF RadioHolder
      <3> QED
        BY <3>2, <3>3
    <2>4. CheckInv' /\ InUseStaysOpen'
      BY <1>23 DEF DrainSnapshot, DrainReturn, RadioHolder, CheckInv,
         InUseStaysOpen
    <2> QED
      BY <2>2, <2>3, <2>4
  <1>24. CASE DrainCheck
    <2>1. robbed' \in BOOLEAN
      BY <1>24 DEF DrainCheck, DrainReturn, TypeOK
    <2>2. TypeOK'
      <3>1. /\ dcur' \in Clients \union {NoClient}
            /\ radio' \in {"none", "poll", "drain"} \union Workers
        BY <1>24 DEF DrainCheck, DrainReturn, TypeOK
      <3>2. UNCHANGED <<lifeVars, open, dials, pollVars, reconVars, bridgeVars,
                        mailVars, workVars, failures, stopping>>
        BY <1>24 DEF DrainCheck, DrainReturn
      <3>3. dpc' \in {"idle", "check", "drain"}
        BY <1>24 DEF DrainCheck, DrainReturn
      <3> QED
        BY <2>1, <3>1, <3>2, <3>3 DEF TypeOK, Clients
    <2>3. CountInv' /\ SpareInv' /\ RadioHolder' /\ LeakInv' /\ FreshInv'
      <3>1. CountInv' /\ SpareInv' /\ LeakInv' /\ FreshInv'
        <4>1. UNCHANGED <<client, open, pollVars, reconVars, bridgeVars>>
          BY <1>24 DEF DrainCheck, DrainReturn
        <4> QED
          BY <4>1 DEF CountInv, Connected, SpareInv, LeakInv, FreshInv
      <3>2. CASE DrainReturn
        BY <1>24, <3>1, <3>2 DEF DrainCheck, DrainReturn, TypeOK, RadioHolder
      <3>3. CASE ~DrainReturn
        <4>1. /\ dpc \in {"snapshot", "check"} /\ dpc' \in {"check", "drain"}
              /\ UNCHANGED <<radio, pollVars, reconVars, workVars>>
          BY <1>24, <3>3 DEF DrainCheck
        <4> QED
          BY <3>1, <4>1 DEF RadioHolder
      <3> QED
        BY <3>2, <3>3
    <2>4. CheckInv' /\ InUseStaysOpen'
      BY <1>24 DEF DrainCheck, DrainReturn, RadioHolder, CheckInv,
         InUseStaysOpen
    <2> QED
      BY <2>2, <2>3, <2>4
  <1>25. CASE DrainDone
    <2>1. TypeOK'
      <3>1. /\ radio' = "none" /\ robbed' = FALSE
            /\ dpc' = "idle" /\ dcur' = NoClient
            /\ UNCHANGED <<lifeVars, open, dials, pollVars, reconVars, bridgeVars,
                           drainReq, mail, workVars, failures, stopping>>
        BY <1>25 DEF DrainDone, DrainReturn
      <3> QED
        BY <3>1 DEF TypeOK, Clients, NoClient
    <2>2. CountInv' /\ SpareInv' /\ RadioHolder' /\ LeakInv' /\ FreshInv'
      BY <1>25 DEF DrainDone, DrainReturn, CountInv, Connected, SpareInv,
         RadioHolder, LeakInv, FreshInv
    <2>3. CheckInv' /\ InUseStaysOpen'
      BY <1>25 DEF DrainDone, DrainReturn, RadioHolder, CheckInv, InUseStaysOpen
    <2> QED
      BY <2>1, <2>2, <2>3
  <1>26. ASSUME NEW w \in Workers, WorkStart(w)
        PROVE  IInv'
    <2>1. TypeOK'
      <3>1. wpc' \in [Workers -> {"idle", "lock", "check", "snapshot", "use"}]
        BY <1>26 DEF WorkStart, TypeOK
      <3>2. unlocked' \subseteq Workers
        BY <1>26 DEF WorkStart, TypeOK
      <3>3. work' \in 0..MaxWork
        BY <1>26, DeviceSessionAssumption DEF WorkStart, TypeOK
      <3> QED
        BY <1>26, <3>1, <3>2, <3>3 DEF WorkStart, TypeOK, Clients
    <2>2. CountInv' /\ SpareInv' /\ LeakInv' /\ FreshInv' /\ CheckInv'
      BY <1>26 DEF WorkStart, CountInv, Connected, SpareInv, LeakInv, FreshInv,
         CheckInv
    <2>3. RadioHolder'
      BY <1>26, SMTT(30) DEF WorkStart, TypeOK, RadioHolder
    <2>4. InUseStaysOpen'
      BY <1>26, SMTT(30) DEF WorkStart, TypeOK, InUseStaysOpen
    <2> QED
      BY <2>1, <2>2, <2>3, <2>4
  <1>27. ASSUME NEW w \in Workers, WorkLock(w)
        PROVE  IInv'
    <2>1. TypeOK'
      BY <1>27 DEF WorkLock, TypeOK, Clients, NoClient
    <2>2. CountInv' /\ SpareInv' /\ LeakInv' /\ FreshInv' /\ CheckInv'
      BY <1>27 DEF WorkLock, CountInv, Connected, SpareInv, LeakInv, FreshInv,
         CheckInv
    <2>3. RadioHolder'
      BY <1>27, SMTT(30) DEF WorkLock, TypeOK, RadioHolder
    <2>4. InUseStaysOpen'
      BY <1>27 DEF WorkLock, TypeOK, InUseStaysOpen
    <2> QED
      BY <2>1, <2>2, <2>3, <2>4
  \* The three ends of a request.
  <1>33. ASSUME NEW w \in Workers, wpc[w] \in {"check", "snapshot", "use"},
                WorkReturn(w),
                UNCHANGED <<lifeVars, open, dials, pollVars, reconVars,
                            bridgeVars, drainVars, mailVars, work, failures,
                            stopping>>
        PROVE  IInv'
    <2>1. radio' \in {"none", "poll", "drain"} \union Workers
          /\ robbed' \in BOOLEAN
      BY <1>33 DEF WorkReturn, TypeOK
    <2>2. TypeOK'
      BY <1>33, <2>1 DEF WorkReturn, TypeOK, Clients, NoClient
    <2>3. CountInv' /\ SpareInv' /\ LeakInv' /\ FreshInv'
      BY <1>33 DEF CountInv, Connected, SpareInv, LeakInv, FreshInv
    <2>4. RadioHolder'
      BY <1>33 DEF WorkReturn, TypeOK, RadioHolder
    <2>5. CheckInv' /\ InUseStaysOpen'
      BY <1>33 DEF WorkReturn, TypeOK, RadioHolder, CheckInv, InUseStaysOpen
    <2> QED
      BY <2>2, <2>3, <2>4, <2>5
  <1>28. ASSUME NEW w \in Workers, WorkDone(w)
        PROVE  IInv'
    BY <1>28, <1>33 DEF WorkDone
  <1>34. ASSUME NEW w \in Workers, WorkCheck(w)
        PROVE  IInv'
    <2>1. CASE WorkReturn(w)
      BY <1>34, <2>1, <1>33 DEF WorkCheck
    <2>2. CASE /\ wpc' = [wpc EXCEPT ![w] = "snapshot"]
               /\ UNCHANGED <<lockVars, wcur, unlocked>>
      <3>1. TypeOK'
        BY <1>34, <2>2 DEF WorkCheck, TypeOK, Clients, NoClient
      <3>2. CountInv' /\ SpareInv' /\ LeakInv' /\ FreshInv' /\ CheckInv'
        BY <1>34, <2>2 DEF WorkCheck, CountInv, Connected, SpareInv, LeakInv,
           FreshInv, CheckInv
      <3>3. RadioHolder' /\ InUseStaysOpen'
        BY <1>34, <2>2 DEF WorkCheck, TypeOK, RadioHolder, InUseStaysOpen
      <3> QED
        BY <3>1, <3>2, <3>3
    <2> QED
      BY <1>34, <2>1, <2>2 DEF WorkCheck
  <1>35. ASSUME NEW w \in Workers, WorkSnapshot(w)
        PROVE  IInv'
    <2>1. CASE WorkReturn(w)
      BY <1>35, <2>1, <1>33 DEF WorkSnapshot
    <2>2. CASE /\ client # NoClient
               /\ wpc' = [wpc EXCEPT ![w] = "use"]
               /\ wcur' = IF w \in unlocked THEN wcur
                          ELSE [wcur EXCEPT ![w] = client]
               /\ UNCHANGED <<lockVars, unlocked>>
      <3>1. TypeOK'
        BY <1>35, <2>2 DEF WorkSnapshot, TypeOK, Clients, NoClient
      <3>2. CountInv' /\ SpareInv' /\ LeakInv' /\ FreshInv' /\ CheckInv'
        BY <1>35, <2>2 DEF WorkSnapshot, CountInv, Connected, SpareInv, LeakInv,
           FreshInv, CheckInv
      <3>3. RadioHolder' /\ InUseStaysOpen'
        BY <1>35, <2>2 DEF WorkSnapshot, TypeOK, RadioHolder, InUseStaysOpen
      <3> QED
        BY <3>1, <3>2, <3>3
    <2> QED
      BY <1>35, <2>1, <2>2 DEF WorkSnapshot
  <1>36. CASE PollMarkDegraded
    <2>1. TypeOK'
      BY <1>36 DEF PollMarkDegraded, TypeOK, Clients, NoClient
    <2>2. CountInv' /\ SpareInv' /\ RadioHolder'
      BY <1>36 DEF PollMarkDegraded, CountInv, Connected, SpareInv, RadioHolder
    <2>3. LeakInv' /\ FreshInv'
      BY <1>36 DEF PollMarkDegraded, TypeOK, Clients, NoClient, LeakInv,
         FreshInv
    <2>4. CheckInv' /\ InUseStaysOpen'
      BY <1>36 DEF PollMarkDegraded, CheckInv, InUseStaysOpen
    <2> QED
      BY <2>1, <2>2, <2>3, <2>4
  <1>29. CASE MailArrives
    BY <1>29 DEF MailArrives, TypeOK, Clients, NoClient, CountInv, Connected,
       SpareInv, RadioHolder, LeakInv, FreshInv, CheckInv, InUseStaysOpen
  <1>30. CASE StopSignal
    BY <1>30 DEF StopSignal, TypeOK, Clients, NoClient, CountInv, Connected,
       SpareInv, RadioHolder, LeakInv, FreshInv, CheckInv, InUseStaysOpen
  <1>31. CASE StopClose
    BY <1>31 DEF StopClose, TypeOK, Clients, NoClient, CountInv, Connected,
       SpareInv, RadioHolder, LeakInv, FreshInv, CheckInv, InUseStaysOpen
  <1>32. CASE UNCHANGED vars
    BY <1>32 DEF vars, TypeOK, Clients, NoClient, CountInv, Connected,
       SpareInv, RadioHolder, LeakInv, FreshInv, CheckInv, InUseStaysOpen
  <1> HIDE DEF IInv
  <1> QED
    BY <1>1, <1>2, <1>3, <1>4, <1>5, <1>6, <1>7, <1>8, <1>9, <1>10, <1>11,
       <1>12, <1>13, <1>14, <1>15, <1>16, <1>17, <1>18, <1>19, <1>20, <1>21,
       <1>22, <1>23, <1>24, <1>25, <1>26, <1>27, <1>28, <1>29, <1>30, <1>31,
       <1>32, <1>34, <1>35, <1>36
    DEF Next, PollStep, ReconnectStep, BridgeStep, DrainStep, WorkStep

\* Those who take the radio's lock use it one at a time and release it on every
\* path, no client is leaked, the session's client is open until stop, and the
\* poll closes no client under a holder of the lock, whatever polls, reconnects,
\* bridges, drains, requests with and without the lock and stop do
\* (runStatsPoll, tryReconnect, enterBridge, runDrain, RadioExecutor).
THEOREM RadioOwned == Spec => []RadioIsOwned
  <1>1. IInv => RadioIsOwned
    <2> SUFFICES ASSUME IInv PROVE NoClientLeaked
      BY DEF IInv, RadioIsOwned
    <2> QED
      BY DEF IInv, LeakInv, NoClientLeaked, InHand
  <1> QED
    BY <1>1, InitIInv, StepIInv, PTL DEF Spec
-----------------------------------------------------------------------------
(* The requests of IPC clients (Ipc).                                      *)

PCs == {"free", "route", "serve", "answer", "lock", "got", "locked", "run",
        "ask", "unlock", "release", "reply", "stream"}

RequestTypes ==
  /\ pc \in [Handlers -> PCs]
  /\ method \in [Handlers -> Requests!Methods]
  /\ lock \in Handlers \union {"none"}
  /\ active \in Requests!Methods \union {"none"}
  /\ waiters \in Nat
  /\ clients \in Nat

Served == {h \in Handlers : pc[h] \notin {"free", "route"}}
Pending == {h \in Handlers : pc[h] \in {"lock", "got"}}

\* The two counters of the status.
LoadInv == clients = Cardinality(Served) /\ waiters = Cardinality(Pending)

\* Who is between Lock and Unlock has the radio, and who has it is there.
HolderInv ==
  /\ \A h \in Handlers :
       pc[h] \in {"got", "locked", "run", "unlock", "release"} => lock = h
  /\ lock # "none" =>
       pc[lock] \in {"got", "locked", "run", "ask", "unlock", "release"}

\* What is shown as active is what the holder does, from start to finish.
ActiveInv ==
  active # "none" =>
    /\ lock # "none"
    /\ pc[lock] \in {"run", "ask", "unlock"}
    /\ method[lock] = active

\* The inductive invariant.
RequestInv == RequestTypes /\ LoadInv /\ HolderInv /\ ActiveInv

\* A handler that enters or leaves a set of handlers is counted.
LEMMA Counting ==
  ASSUME NEW A \in SUBSET Handlers, NEW h \in Handlers
  PROVE  /\ IsFiniteSet(A) /\ Cardinality(A) \in Nat
         /\ h \notin A => Cardinality(A \union {h}) = Cardinality(A) + 1
         /\ h \in A => Cardinality(A \ {h}) = Cardinality(A) - 1
  <1>1. IsFiniteSet(A)
    BY MCSessionAssumption, FS_Subset
  <1> QED
    BY <1>1, FS_CardinalityType, FS_AddElement, FS_RemoveElement

\* What a handler's move does to the two sets.
LEMMA Moves ==
  ASSUME RequestTypes, NEW h \in Handlers, NEW to \in PCs,
         pc' = [pc EXCEPT ![h] = to]
  PROVE  LET out == {"free", "route"}
             wait == {"lock", "got"}
         IN
         /\ pc' \in [Handlers -> PCs]
         /\ Cardinality(Served) \in Nat /\ Cardinality(Pending) \in Nat
         /\ pc[h] \in out /\ to \in out => Served' = Served
         /\ pc[h] \notin out /\ to \notin out => Served' = Served
         /\ pc[h] \in out /\ to \notin out =>
              Cardinality(Served)' = Cardinality(Served) + 1
         /\ pc[h] \notin out /\ to \in out =>
              Cardinality(Served)' = Cardinality(Served) - 1
         /\ pc[h] \notin wait /\ to \notin wait => Pending' = Pending
         /\ pc[h] \notin wait /\ to \in wait =>
              Cardinality(Pending)' = Cardinality(Pending) + 1
         /\ pc[h] \in wait /\ to \notin wait =>
              Cardinality(Pending)' = Cardinality(Pending) - 1
  <1> DEFINE out == {"free", "route"}
             wait == {"lock", "got"}
  <1>1. /\ pc' \in [Handlers -> PCs]
        /\ pc'[h] = to
        /\ \A g \in Handlers \ {h} : pc'[g] = pc[g]
    BY DEF RequestTypes
  <1>2. /\ Served \in SUBSET Handlers /\ Pending \in SUBSET Handlers
        /\ Served' = IF to \in out THEN Served \ {h} ELSE Served \union {h}
        /\ Pending' = IF to \in wait THEN Pending \union {h}
                      ELSE Pending \ {h}
        /\ h \in Served <=> pc[h] \notin out
        /\ h \in Pending <=> pc[h] \in wait
    BY <1>1 DEF Served, Pending
  <1>3. /\ Cardinality(Served) \in Nat
        /\ h \notin Served =>
             Cardinality(Served \union {h}) = Cardinality(Served) + 1
        /\ h \in Served =>
             Cardinality(Served \ {h}) = Cardinality(Served) - 1
    BY <1>2, Counting
  <1>4. /\ Cardinality(Pending) \in Nat
        /\ h \notin Pending =>
             Cardinality(Pending \union {h}) = Cardinality(Pending) + 1
        /\ h \in Pending =>
             Cardinality(Pending \ {h}) = Cardinality(Pending) - 1
    BY <1>2, Counting
  <1> HIDE DEF Served, Pending
  <1>5. /\ pc[h] \in out /\ to \in out => Served' = Served
        /\ pc[h] \notin out /\ to \notin out => Served' = Served
        /\ pc[h] \notin wait /\ to \notin wait => Pending' = Pending
    BY <1>2
  <1>6. /\ pc[h] \in out /\ to \notin out =>
             Cardinality(Served)' = Cardinality(Served) + 1
        /\ pc[h] \notin out /\ to \in out =>
             Cardinality(Served)' = Cardinality(Served) - 1
    BY <1>2, <1>3
  <1>7. /\ pc[h] \notin wait /\ to \in wait =>
             Cardinality(Pending)' = Cardinality(Pending) + 1
        /\ pc[h] \in wait /\ to \notin wait =>
             Cardinality(Pending)' = Cardinality(Pending) - 1
    BY <1>2, <1>4
  <1> QED
    BY <1>1, <1>3, <1>4, <1>5, <1>6, <1>7

\* Every step of a handler, a caller or the session preserves RequestInv.
LEMMA StepRequestInv ==
  RequestInv /\ [Requests!Next]_(Requests!vars) => RequestInv'
  <1> SUFFICES ASSUME RequestInv, [Requests!Next]_(Requests!vars)
               PROVE  RequestInv'
    OBVIOUS
  <1> USE MCSessionAssumption
      DEF RequestInv, Requests!session, Requests!counters
  <1>1. ASSUME NEW h \in Handlers, NEW from \in {"reply", "answer", "stream"},
               Requests!Close(h, from)
        PROVE  RequestInv'
    <2>1. /\ pc[h] = from /\ pc' = [pc EXCEPT ![h] = "free"]
          /\ "free" \in PCs
          /\ clients' = clients - 1
          /\ method' = [method EXCEPT ![h] = "status"]
          /\ UNCHANGED <<lock, active, waiters>>
      BY <1>1 DEF Requests!Close, PCs
    <2>2. /\ pc' \in [Handlers -> PCs]
          /\ Cardinality(Served)' = Cardinality(Served) - 1
          /\ Cardinality(Served)' \in Nat
          /\ Pending' = Pending
      <3>1. pc[h] \notin {"free", "route"} /\ pc[h] \notin {"lock", "got"}
        BY <2>1
      <3>2. h \in Served /\ Served' = Served \ {h}
        BY <2>1, <3>1 DEF Served, RequestTypes
      <3>3. Served \ {h} \in SUBSET Handlers
        BY DEF Served
      <3>4. Cardinality(Served \ {h}) \in Nat
        BY <3>3, Counting
      <3> QED
        BY <2>1, <3>1, <3>2, <3>4, Moves
    <2>3. RequestTypes' /\ LoadInv'
      <3>1. clients' \in Nat /\ waiters' \in Nat
        BY <2>1, <2>2 DEF LoadInv, RequestTypes
      <3>2. method' \in [Handlers -> Requests!Methods]
        BY <2>1 DEF RequestTypes, Requests!Methods, Requests!Now
      <3> QED
        BY <2>1, <2>2, <3>1, <3>2 DEF LoadInv, RequestTypes
    <2>4. HolderInv' /\ ActiveInv'
      BY <2>1 DEF HolderInv, ActiveInv, RequestTypes
    <2> QED
      BY <2>3, <2>4
  <1>2. ASSUME NEW h \in Handlers, Requests!Close(h, "route")
        PROVE  RequestInv'
    <2>1. /\ pc[h] = "route" /\ pc' = [pc EXCEPT ![h] = "free"]
          /\ "free" \in PCs
          /\ method' = [method EXCEPT ![h] = "status"]
          /\ UNCHANGED <<lock, active, waiters, clients>>
      BY <1>2 DEF Requests!Close, PCs
    <2>2. pc' \in [Handlers -> PCs] /\ Served' = Served /\ Pending' = Pending
      BY <2>1, Moves
    <2>3. method' \in [Handlers -> Requests!Methods]
      BY <2>1 DEF RequestTypes, Requests!Methods, Requests!Now
    <2>4. RequestTypes' /\ LoadInv'
      BY <2>1, <2>2, <2>3 DEF LoadInv, RequestTypes
    <2>5. HolderInv' /\ ActiveInv'
      BY <2>1 DEF HolderInv, ActiveInv, RequestTypes
    <2> QED
      BY <2>4, <2>5
  <1>3. ASSUME NEW h \in Handlers, NEW m \in Requests!Methods,
               Requests!Request(h, m)
        PROVE  RequestInv'
    <2>1. /\ pc[h] = "free" /\ pc' = [pc EXCEPT ![h] = "route"]
          /\ "route" \in PCs
          /\ method' = [method EXCEPT ![h] = m]
          /\ UNCHANGED <<lock, active, waiters, clients>>
      BY <1>3 DEF Requests!Request, PCs
    <2>2. pc' \in [Handlers -> PCs] /\ Served' = Served /\ Pending' = Pending
      BY <2>1, Moves
    <2>3. RequestTypes' /\ LoadInv'
      BY <2>1, <2>2 DEF LoadInv, RequestTypes
    <2>4. HolderInv' /\ ActiveInv'
      BY <2>1 DEF HolderInv, ActiveInv, RequestTypes
    <2> QED
      BY <2>3, <2>4
  <1>4. ASSUME UNCHANGED <<pc, method, lock, active, waiters, clients>>
        PROVE  RequestInv'
    BY <1>4 DEF RequestTypes, LoadInv, HolderInv, ActiveInv, Served, Pending
  <1>5. ASSUME NEW h \in Handlers, pc[h] = "route",
               pc' = [pc EXCEPT ![h] = "serve"], clients' = clients + 1,
               UNCHANGED <<method, lock, active, waiters>>
        PROVE  RequestInv'
    <2>1. "serve" \in PCs
      BY DEF PCs
    <2>2. /\ pc' \in [Handlers -> PCs] /\ Pending' = Pending
          /\ Cardinality(Served)' = Cardinality(Served) + 1
      BY <1>5, <2>1, Moves
    <2>3. RequestTypes' /\ LoadInv'
      BY <1>5, <2>2 DEF LoadInv, RequestTypes
    <2>4. HolderInv' /\ ActiveInv'
      BY <1>5 DEF HolderInv, ActiveInv, RequestTypes
    <2> QED
      BY <2>3, <2>4
  <1>6. ASSUME NEW h \in Handlers, pc[h] = "serve",
               NEW to \in {"reply", "ask", "answer"},
               pc' = [pc EXCEPT ![h] = to],
               UNCHANGED <<method, lock, active, waiters, clients>>
        PROVE  RequestInv'
    <2>1. to \in PCs
      BY DEF PCs
    <2>2. pc' \in [Handlers -> PCs] /\ Served' = Served /\ Pending' = Pending
      BY <1>6, <2>1, Moves
    <2>3. RequestTypes' /\ LoadInv'
      BY <1>6, <2>2 DEF LoadInv, RequestTypes
    <2>4. HolderInv' /\ ActiveInv'
      BY <1>6 DEF HolderInv, ActiveInv, RequestTypes
    <2> QED
      BY <2>3, <2>4
  <1>7. ASSUME NEW h \in Handlers, pc[h] = "serve",
               pc' = [pc EXCEPT ![h] = "lock"], waiters' = waiters + 1,
               UNCHANGED <<method, lock, active, clients>>
        PROVE  RequestInv'
    <2>1. "lock" \in PCs
      BY DEF PCs
    <2>2. /\ pc' \in [Handlers -> PCs] /\ Served' = Served
          /\ Cardinality(Pending)' = Cardinality(Pending) + 1
      BY <1>7, <2>1, Moves
    <2>3. RequestTypes' /\ LoadInv'
      BY <1>7, <2>2 DEF LoadInv, RequestTypes
    <2>4. HolderInv' /\ ActiveInv'
      BY <1>7 DEF HolderInv, ActiveInv, RequestTypes
    <2> QED
      BY <2>3, <2>4
  <1>8. ASSUME NEW h \in Handlers, Requests!Serve(h)
        PROVE  RequestInv'
    BY <1>6, <1>7, <1>8
    DEF Requests!Serve, Requests!ServeNow, Requests!ServeCached,
        Requests!ServeRadio, Requests!ServeStream, Requests!Step
  <1>9. ASSUME NEW h \in Handlers, Requests!Lock(h)
        PROVE  RequestInv'
    <2>1. /\ pc[h] = "lock" /\ pc' = [pc EXCEPT ![h] = "got"]
          /\ "got" \in PCs
          /\ lock = "none" /\ lock' = h
          /\ UNCHANGED <<method, active, waiters, clients>>
      BY <1>9 DEF Requests!Lock, Requests!Step, PCs
    <2>2. /\ pc' \in [Handlers -> PCs] /\ Served' = Served
          /\ Pending' = Pending
      <3>1. pc' \in [Handlers -> PCs] /\ Served' = Served
        BY <2>1, Moves
      <3>2. Pending' = Pending
        BY <2>1 DEF Pending, RequestTypes
      <3> QED
        BY <3>1, <3>2
    <2>3. RequestTypes' /\ LoadInv'
      BY <2>1, <2>2 DEF LoadInv, RequestTypes
    <2>4. HolderInv' /\ ActiveInv'
      BY <2>1 DEF HolderInv, ActiveInv, RequestTypes
    <2> QED
      BY <2>3, <2>4
  <1>20. ASSUME NEW h \in Handlers, Requests!NoLongerWaits(h)
        PROVE  RequestInv'
    <2>1. /\ pc[h] = "got" /\ pc' = [pc EXCEPT ![h] = "locked"]
          /\ "locked" \in PCs
          /\ waiters' = waiters - 1
          /\ UNCHANGED <<method, lock, active, clients>>
      BY <1>20 DEF Requests!NoLongerWaits, Requests!Step, PCs
    <2>2. /\ pc' \in [Handlers -> PCs] /\ Served' = Served
          /\ Cardinality(Pending)' = Cardinality(Pending) - 1
      BY <2>1, Moves
    <2>3. Cardinality(Pending)' \in Nat
      <3>1. Pending' \in SUBSET Handlers
        BY DEF Pending
      <3>2. \A A \in SUBSET Handlers : Cardinality(A) \in Nat
        BY Counting
      <3> QED
        BY <3>1, <3>2
    <2>4. RequestTypes' /\ LoadInv'
      BY <2>1, <2>2, <2>3 DEF LoadInv, RequestTypes
    <2>5. HolderInv' /\ ActiveInv'
      BY <2>1 DEF HolderInv, ActiveInv, RequestTypes
    <2> QED
      BY <2>4, <2>5
  <1>10. ASSUME NEW h \in Handlers, NEW to \in PCs,
                pc[h] \in {"locked", "run", "ask", "unlock", "release",
                           "answer"},
                to \in {"run", "ask", "unlock", "release", "reply", "stream"},
                pc' = [pc EXCEPT ![h] = to],
                active' \in Requests!Methods \union {"none"},
                UNCHANGED <<method, waiters, clients>>,
                lock' \in Handlers \union {"none"},
                HolderInv', ActiveInv'
         PROVE  RequestInv'
    <2>1. pc' \in [Handlers -> PCs] /\ Served' = Served /\ Pending' = Pending
      <3>1. /\ pc[h] \notin {"free", "route"} /\ to \notin {"free", "route"}
            /\ pc[h] \notin {"lock", "got"} /\ to \notin {"lock", "got"}
        BY <1>10
      <3> QED
        BY <1>10, <3>1, Moves
    <2> QED
      BY <1>10, <2>1 DEF LoadInv, RequestTypes
  <1>11. ASSUME NEW h \in Handlers, Requests!StartActivity(h)
         PROVE  RequestInv'
    <2>1. /\ pc[h] = "locked" /\ pc' = [pc EXCEPT ![h] = "run"]
          /\ "run" \in PCs /\ active' = method[h]
          /\ active' \in Requests!Methods \union {"none"}
          /\ UNCHANGED <<method, lock, waiters, clients>>
      BY <1>11 DEF Requests!StartActivity, Requests!Step, PCs, RequestTypes
    <2>2. HolderInv' /\ ActiveInv'
      BY <2>1 DEF HolderInv, ActiveInv, RequestTypes
    <2> QED
      BY <1>10, <2>1, <2>2 DEF RequestTypes
  <1>12. ASSUME NEW h \in Handlers, Requests!Run(h)
         PROVE  RequestInv'
    <2>1. PICK to \in {"ask", "unlock"} :
            /\ pc[h] = "run" /\ pc' = [pc EXCEPT ![h] = to]
            /\ UNCHANGED <<method, lock, active, waiters, clients>>
      BY <1>12 DEF Requests!Run, Requests!Step
    <2>2. HolderInv' /\ ActiveInv' /\ to \in PCs
      BY <2>1 DEF HolderInv, ActiveInv, RequestTypes, PCs
    <2> QED
      BY <1>10, <2>1, <2>2 DEF RequestTypes
  <1>13. ASSUME NEW h \in Handlers, Requests!AskEnds(h)
         PROVE  RequestInv'
    <2> DEFINE to == IF lock = h THEN "unlock" ELSE "reply"
    <2>1. /\ pc[h] = "ask" /\ pc' = [pc EXCEPT ![h] = to]
          /\ UNCHANGED <<method, lock, active, waiters, clients>>
      BY <1>13 DEF Requests!AskEnds, Requests!Step
    <2>2. HolderInv' /\ ActiveInv' /\ to \in PCs
      BY <2>1 DEF HolderInv, ActiveInv, RequestTypes, PCs
    <2> QED
      BY <1>10, <2>1, <2>2 DEF RequestTypes
  <1>14. ASSUME NEW h \in Handlers, Requests!FinishActivity(h)
         PROVE  RequestInv'
    <2>1. /\ pc[h] = "unlock" /\ pc' = [pc EXCEPT ![h] = "release"]
          /\ "release" \in PCs /\ active' = "none"
          /\ UNCHANGED <<method, lock, waiters, clients>>
      BY <1>14 DEF Requests!FinishActivity, Requests!Step, PCs
    <2>2. HolderInv' /\ ActiveInv'
      BY <2>1 DEF HolderInv, ActiveInv, RequestTypes
    <2> QED
      BY <1>10, <2>1, <2>2 DEF RequestTypes
  <1>15. ASSUME NEW h \in Handlers, Requests!Unlock(h)
         PROVE  RequestInv'
    <2>1. /\ pc[h] = "release" /\ pc' = [pc EXCEPT ![h] = "reply"]
          /\ "reply" \in PCs /\ lock' = "none"
          /\ UNCHANGED <<method, active, waiters, clients>>
      BY <1>15 DEF Requests!Unlock, Requests!Step, PCs
    <2>2. HolderInv' /\ ActiveInv'
      BY <2>1 DEF HolderInv, ActiveInv, RequestTypes
    <2> QED
      BY <1>10, <2>1, <2>2 DEF RequestTypes
  <1>16. ASSUME NEW h \in Handlers, Requests!Subscribe(h)
         PROVE  RequestInv'
    <2>1. CASE Requests!Close(h, "answer")
      BY <1>1, <2>1
    <2>2. CASE ~Requests!Close(h, "answer")
      <3>1. /\ pc[h] = "answer" /\ pc' = [pc EXCEPT ![h] = "stream"]
            /\ "stream" \in PCs
            /\ UNCHANGED <<method, lock, active, waiters, clients>>
        BY <1>16, <2>2 DEF Requests!Subscribe, Requests!Step, PCs
      <3>2. HolderInv' /\ ActiveInv'
        BY <3>1 DEF HolderInv, ActiveInv, RequestTypes
      <3> QED
        BY <1>10, <3>1, <3>2 DEF RequestTypes
    <2> QED
      BY <2>1, <2>2
  <1>17. ASSUME NEW h \in Handlers, Requests!Route(h)
         PROVE  RequestInv'
    BY <1>2, <1>5, <1>17 DEF Requests!Route, Requests!Step
  <1>18. ASSUME NEW h \in Handlers,
                \/ Requests!Reply(h) \/ Requests!StreamEnds(h)
                \/ Requests!StreamItem(h)
         PROVE  RequestInv'
    BY <1>1, <1>18 DEF Requests!Reply, Requests!StreamEnds, Requests!StreamItem
  <1>19. ASSUME \/ Requests!Degrade \/ Requests!Reconnect
                \/ \E h \in Handlers : Requests!Leave(h)
                \/ UNCHANGED Requests!vars
         PROVE  RequestInv'
    BY <1>4, <1>19 DEF Requests!Degrade, Requests!Reconnect, Requests!Leave,
                       Requests!vars
  <1> HIDE DEF RequestInv
  <1> QED
    BY <1>3, <1>8, <1>9, <1>11, <1>12, <1>13, <1>14, <1>15, <1>16, <1>17,
       <1>18, <1>19, <1>20
    DEF Requests!Next, Requests!Handle

\* The load that status and device_list show is the real one, however requests,
\* callers that leave, and reconnects interleave (serve, RadioExecutor).
THEOREM StatusTrue == MCSpec => []StatusIsTrue
  <1>1. MCInit => RequestInv
    <2> SUFFICES ASSUME Requests!Init PROVE RequestInv
      BY DEF MCInit
    <2>1. Served = {} /\ Pending = {}
      BY DEF Requests!Init, Served, Pending
    <2>2. LoadInv
      BY <2>1, FS_EmptySet DEF Requests!Init, LoadInv
    <2>3. RequestTypes
      BY DEF Requests!Init, RequestTypes, PCs, Requests!Methods, Requests!Now
    <2>4. HolderInv /\ ActiveInv
      BY DEF Requests!Init, HolderInv, ActiveInv
    <2> QED
      BY <2>2, <2>3, <2>4 DEF RequestInv
  <1>2. RequestInv /\ [MCNext]_mcVars => RequestInv'
    <2> SUFFICES ASSUME RequestInv, [MCNext]_mcVars PROVE RequestInv'
      OBVIOUS
    <2>1. [Requests!Next]_(Requests!vars)
      BY DEF MCNext, mcVars, ipcVars, Requests!vars, Requests!session,
             Requests!counters
    <2> QED
      BY <2>1, StepRequestInv
  <1>3. RequestInv => StatusIsTrue
    <2> SUFFICES ASSUME RequestInv PROVE Requests!StatusIsTrue
      BY DEF StatusIsTrue
    <2>1. /\ Requests!status.clients = clients
          /\ Requests!status.pending = waiters
          /\ Requests!status.active = active
      BY DEF Requests!status
    <2>2. /\ clients = Cardinality({h \in Handlers :
                                     pc[h] \notin {"free", "route"}})
          /\ waiters = Cardinality({h \in Handlers : pc[h] \in {"lock", "got"}})
      BY DEF RequestInv, LoadInv, Served, Pending
    <2>3. active # "none" => lock # "none" /\ method[lock] = active
      BY DEF RequestInv, ActiveInv
    <2>4. /\ Requests!status.clients
               = Cardinality({h \in Handlers : pc[h] \notin {"free", "route"}})
          /\ Requests!status.pending
               = Cardinality({h \in Handlers : pc[h] \in {"lock", "got"}})
      BY <2>1, <2>2
    <2>5. Requests!status.active # "none" =>
            lock # "none" /\ method[lock] = Requests!status.active
      BY <2>1, <2>3
    <2>6. \A S : Requests!Cardinality(S) = Cardinality(S)
      BY DEF Requests!Cardinality, Cardinality
    <2> QED
      BY <2>4, <2>5, <2>6 DEF Requests!StatusIsTrue
  <1> QED
    BY <1>1, <1>2, <1>3, PTL DEF MCSpec
=============================================================================
