-------------------------- MODULE ContactsProofs --------------------------
(***************************************************************************)
(* Proofs about what the host knows of contacts and channels, for any      *)
(* number of jobs, adverts, contacts, paths, attempts, slots and           *)
(* operations.  ContactSync: who holds what (CancelIsHolders,              *)
(* SyncingIsHolders), and that the watermark covers the replica            *)
(* (WatermarkCovers, RefreshBringsAll).  TracePath: plans follow the route *)
(* and answers are the attempt's own.  Channels: the replica and the       *)
(* message rows name the radio's slots, and an operation changes only the  *)
(* slot that was asked for.  ContactBook: listings and names do not depend *)
(* on the order of the radio's list.                                       *)
(***************************************************************************)
EXTENDS MCContacts, Integers, Sequences, FiniteSetTheorems,
        WellFoundedInduction, TLAPS

\* Stages in which a job holds the radio, contactSyncMu, or may be registered.
Holding == {"register", "begin", "since", "fetch", "upsert", "mark", "finish",
            "clear", "unlock", "work"}
Syncing == {"since", "fetch", "upsert", "mark", "finish"}
Cancellable == Syncing \cup {"begin", "clear"}

LockInv ==
    /\ \A j \in Jobs : pc[j] \in Holding <=> radio = j
    /\ \A j \in Jobs : pc[j] \in Syncing <=> contactSyncMu = j
    /\ contactSyncing = (contactSyncMu # NoJob)
    /\ \A j \in Jobs : pc[j] = "register" => kind[j] = "background"
    /\ refreshCancel # NoJob => /\ pc[refreshCancel] \in Cancellable
                                /\ kind[refreshCancel] = "background"

\* No marker in the system is newer than the radio's clock.
ClockInv ==
    /\ mark <= clock /\ since <= clock /\ result.LastMod <= clock
    /\ \A c \in Contacts : /\ list[c] <= clock
                           /\ stored[c] <= clock
                           /\ result.contacts[c] <= clock
    /\ \A a \in Adverts : obs[a].lastMod <= clock /\ obs[a].existing <= clock

\* No copy of a contact is newer than the radio's, while the radio has it.
AgeInv ==
    /\ \A c \in Contacts : list[c] # 0 => /\ stored[c] <= list[c]
                                          /\ result.contacts[c] <= list[c]
    /\ \A a \in Adverts : obs[a].stage \in {"read", "write", "mark", "set"} =>
         /\ obs[a].contact \in Contacts
         /\ list[obs[a].contact] # 0 => /\ obs[a].lastMod <= list[obs[a].contact]
                                        /\ obs[a].existing <= list[obs[a].contact]

\* What a running sync knows of the table, of the radio and of the watermark.
Own(j) == IF full[j] THEN "rebuilding" ELSE "yes"

SinceInv(j) ==
    pc[j] \in {"fetch", "upsert", "mark"} =>
        /\ full[j] => since = 0 /\ trust # "yes"
        /\ ~full[j] /\ trust = "yes" => since = mark

ResultInv(j) ==
    /\ pc[j] = "upsert" =>
         \A c \in Contacts :
            /\ result.contacts[c] # 0 => result.contacts[c] > since
            /\ list[c] # 0 /\ list[c] <= result.LastMod =>
                 result.contacts[c] = list[c] \/ list[c] <= since
    /\ pc[j] = "mark" /\ trust = Own(j) =>
         \A c \in Contacts :
            list[c] # 0 /\ list[c] <= result.LastMod => stored[c] = list[c]
    /\ pc[j] \in {"upsert", "mark"} /\ fresh =>
         \A c \in Contacts :
            list[c] # 0 => list[c] <= result.LastMod \/ list[c] <= since

CoverInv ==
    /\ WatermarkCovers
    /\ \A j \in Jobs : SinceInv(j) /\ ResultInv(j)

IInv == TypeOK /\ LockInv /\ ClockInv /\ AgeInv /\ CoverInv

\* Initially the table and the radio's list are empty.
LEMMA InitIInv == Init => IInv
  <1> SUFFICES ASSUME Init PROVE IInv
    OBVIOUS
  <1> USE ContactSyncAssumption DEF Init, Mods, Records, Empty, NotHeard, NoResult
  <1>1. TypeOK
    <2>1. contactSyncing \in BOOLEAN /\ fresh \in BOOLEAN /\ initialDone \in BOOLEAN
      OBVIOUS
    <2>2. full \in [Jobs -> BOOLEAN]
      BY Zenon
    <2>3. /\ 0 \in 0 .. MaxMod
          /\ 0 \in 0 .. MaxFailures
      OBVIOUS
    <2> QED
      BY <2>1, <2>2, <2>3 DEF TypeOK, Kinds, Stages
  <1>2. LockInv
    BY DEF LockInv, Holding, Syncing, Cancellable
  <1>3. ClockInv /\ AgeInv
    BY DEF ClockInv, AgeInv
  <1>4. CoverInv
    BY DEF CoverInv, WatermarkCovers, SinceInv, ResultInv
  <1> QED
    BY <1>1, <1>2, <1>3, <1>4 DEF IInv

\* Every step preserves the inductive invariant.
LEMMA StepIInv == IInv /\ [Next]_vars => IInv'
  <1> SUFFICES ASSUME IInv, [Next]_vars PROVE IInv'
    OBVIOUS
  <1> USE ContactSyncAssumption DEF IInv, radioVars, jobVars, lockVars, syncVars
  <1>1. ASSUME NEW c \in Contacts, RadioChange(c)
        PROVE  IInv'
    <2>1. TypeOK'
      <3>1. contactSyncing' \in BOOLEAN /\ fresh' \in BOOLEAN /\ initialDone' \in BOOLEAN
        BY <1>1 DEF RadioChange, TypeOK
      <3> QED
        BY <1>1, <3>1 DEF RadioChange, TypeOK, Mods, Records, Kinds, Stages
    <2>2. LockInv'
      BY <1>1 DEF RadioChange, LockInv
    <2>3. ClockInv' /\ AgeInv'
      BY <1>1 DEF RadioChange, TypeOK, Mods, Records, ClockInv, AgeInv
    <2>4. CoverInv'
      BY <1>1 DEF RadioChange, TypeOK, Mods, Records, ClockInv, CoverInv,
         WatermarkCovers, SinceInv, ResultInv, Own
    <2> QED
      BY <2>1, <2>2, <2>3, <2>4
  <1>2. ASSUME NEW c \in Contacts, RadioRemove(c)
        PROVE  IInv'
    <2>1. TypeOK'
      <3>1. contactSyncing' \in BOOLEAN /\ fresh' \in BOOLEAN /\ initialDone' \in BOOLEAN
        BY <1>2 DEF RadioRemove, TypeOK
      <3> QED
        BY <1>2, <3>1 DEF RadioRemove, TypeOK, Mods, Records, Kinds, Stages
    <2>2. LockInv'
      BY <1>2 DEF RadioRemove, LockInv
    <2>3. ClockInv' /\ AgeInv'
      BY <1>2 DEF RadioRemove, TypeOK, Mods, Records, ClockInv, AgeInv
    <2>4. CoverInv'
      BY <1>2 DEF RadioRemove, TypeOK, Mods, Records, ClockInv, CoverInv,
         WatermarkCovers, SinceInv, ResultInv, Own
    <2> QED
      BY <2>1, <2>2, <2>3, <2>4
  <1>3. ASSUME NEW j \in Jobs, scheduleInitialContactSync(j)
        PROVE  IInv'
    <2>1. TypeOK'
      BY <1>3 DEF scheduleInitialContactSync, TypeOK, Stages, Kinds
    <2>2. LockInv'
      BY <1>3 DEF scheduleInitialContactSync, TypeOK, LockInv, Holding,
         Syncing, Cancellable
    <2>3. ClockInv' /\ AgeInv'
      BY <1>3 DEF scheduleInitialContactSync, ClockInv, AgeInv
    <2>4. CoverInv'
      BY <1>3 DEF scheduleInitialContactSync, TypeOK, CoverInv,
         WatermarkCovers, SinceInv, ResultInv, Own
    <2> QED
      BY <2>1, <2>2, <2>3, <2>4
  <1>4. ASSUME NEW j \in Jobs, NEW f \in BOOLEAN, RefreshRequest(j, f)
        PROVE  IInv'
    <2>1. TypeOK'
      BY <1>4 DEF RefreshRequest, TypeOK, Stages, Kinds
    <2>2. LockInv'
      BY <1>4 DEF RefreshRequest, TypeOK, LockInv, Holding, Syncing,
         Cancellable
    <2>3. ClockInv' /\ AgeInv'
      BY <1>4 DEF RefreshRequest, ClockInv, AgeInv
    <2>4. CoverInv'
      BY <1>4 DEF RefreshRequest, TypeOK, CoverInv, WatermarkCovers,
         SinceInv, ResultInv, Own
    <2> QED
      BY <2>1, <2>2, <2>3, <2>4
  <1>5. ASSUME NEW j \in Jobs, NEW k \in {"wait", "interactive"}, NEW f \in BOOLEAN, RadioRequest(j, k, f)
        PROVE  IInv'
    <2>1. TypeOK'
      BY <1>5 DEF RadioRequest, interruptContactRefresh, TypeOK, Stages,
         Kinds
    <2>2. LockInv'
      BY <1>5 DEF RadioRequest, interruptContactRefresh, TypeOK, LockInv,
         Holding, Syncing, Cancellable
    <2>3. ClockInv' /\ AgeInv'
      BY <1>5 DEF RadioRequest, interruptContactRefresh, ClockInv, AgeInv
    <2>4. CoverInv'
      BY <1>5 DEF RadioRequest, interruptContactRefresh, TypeOK, CoverInv,
         WatermarkCovers, SinceInv, ResultInv, Own
    <2> QED
      BY <2>1, <2>2, <2>3, <2>4
  <1>6. ASSUME NEW j \in Jobs, startContactRefresh(j)
        PROVE  IInv'
    <2>1. TypeOK'
      BY <1>6 DEF startContactRefresh, TypeOK, Stages, Kinds
    <2>2. LockInv'
      BY <1>6 DEF startContactRefresh, TypeOK, LockInv, Holding, Syncing,
         Cancellable
    <2>3. ClockInv' /\ AgeInv'
      BY <1>6 DEF startContactRefresh, ClockInv, AgeInv
    <2>4. CoverInv'
      BY <1>6 DEF startContactRefresh, TypeOK, CoverInv, WatermarkCovers,
         SinceInv, ResultInv, Own
    <2> QED
      BY <2>1, <2>2, <2>3, <2>4
  <1>7. ASSUME NEW j \in Jobs, lockRadio(j)
        PROVE  IInv'
    <2>1. TypeOK'
      BY <1>7 DEF lockRadio, TypeOK, Stages, Kinds
    <2>2. LockInv'
      BY <1>7 DEF lockRadio, TypeOK, LockInv, Holding, Syncing,
         Cancellable
    <2>3. ClockInv' /\ AgeInv'
      BY <1>7 DEF lockRadio, ClockInv, AgeInv
    <2>4. CoverInv'
      BY <1>7 DEF lockRadio, TypeOK, CoverInv, WatermarkCovers, SinceInv,
         ResultInv, Own
    <2> QED
      BY <2>1, <2>2, <2>3, <2>4
  <1>8. ASSUME NEW j \in Jobs, NEW ok \in BOOLEAN, InteractiveDone(j, ok)
        PROVE  IInv'
    <2>1. TypeOK'
      BY <1>8 DEF InteractiveDone, TypeOK, Stages, Kinds
    <2>2. LockInv'
      BY <1>8 DEF InteractiveDone, TypeOK, LockInv, Holding, Syncing,
         Cancellable
    <2>3. ClockInv' /\ AgeInv'
      BY <1>8 DEF InteractiveDone, ClockInv, AgeInv
    <2>4. CoverInv'
      BY <1>8 DEF InteractiveDone, TypeOK, CoverInv, WatermarkCovers,
         SinceInv, ResultInv, Own
    <2> QED
      BY <2>1, <2>2, <2>3, <2>4
  <1>9. ASSUME NEW j \in Jobs, scheduleContactRefreshAfterInteractive(j)
        PROVE  IInv'
    <2>1. TypeOK'
      BY <1>9 DEF scheduleContactRefreshAfterInteractive, TypeOK, Stages,
         Kinds
    <2>2. LockInv'
      BY <1>9 DEF scheduleContactRefreshAfterInteractive, TypeOK, LockInv,
         Holding, Syncing, Cancellable
    <2>3. ClockInv' /\ AgeInv'
      BY <1>9 DEF scheduleContactRefreshAfterInteractive, ClockInv, AgeInv
    <2>4. CoverInv'
      BY <1>9 DEF scheduleContactRefreshAfterInteractive, TypeOK,
         CoverInv, WatermarkCovers, SinceInv, ResultInv, Own
    <2> QED
      BY <2>1, <2>2, <2>3, <2>4
  <1>10. ASSUME NEW j \in Jobs, setContactRefreshCancel(j)
        PROVE  IInv'
    <2>1. TypeOK'
      BY <1>10 DEF setContactRefreshCancel, TypeOK, Stages, Kinds
    <2>2. LockInv'
      BY <1>10 DEF setContactRefreshCancel, TypeOK, LockInv, Holding,
         Syncing, Cancellable
    <2>3. ClockInv' /\ AgeInv'
      BY <1>10 DEF setContactRefreshCancel, ClockInv, AgeInv
    <2>4. CoverInv'
      BY <1>10 DEF setContactRefreshCancel, TypeOK, CoverInv,
         WatermarkCovers, SinceInv, ResultInv, Own
    <2> QED
      BY <2>1, <2>2, <2>3, <2>4
  <1>11. ASSUME NEW j \in Jobs, clearContactRefreshCancel(j)
        PROVE  IInv'
    <2>1. TypeOK'
      BY <1>11 DEF clearContactRefreshCancel, TypeOK, Stages, Kinds
    <2>2. LockInv'
      BY <1>11 DEF clearContactRefreshCancel, TypeOK, LockInv, Holding,
         Syncing, Cancellable
    <2>3. ClockInv' /\ AgeInv'
      BY <1>11 DEF clearContactRefreshCancel, ClockInv, AgeInv
    <2>4. CoverInv'
      BY <1>11 DEF clearContactRefreshCancel, TypeOK, CoverInv,
         WatermarkCovers, SinceInv, ResultInv, Own
    <2> QED
      BY <2>1, <2>2, <2>3, <2>4
  <1>12. ASSUME NEW j \in Jobs, unlockRadio(j)
        PROVE  IInv'
    <2>1. TypeOK'
      BY <1>12 DEF unlockRadio, TypeOK, Stages, Kinds
    <2>2. LockInv'
      BY <1>12 DEF unlockRadio, TypeOK, LockInv, Holding, Syncing,
         Cancellable
    <2>3. ClockInv' /\ AgeInv'
      BY <1>12 DEF unlockRadio, ClockInv, AgeInv
    <2>4. CoverInv'
      BY <1>12 DEF unlockRadio, TypeOK, CoverInv, WatermarkCovers,
         SinceInv, ResultInv, Own
    <2> QED
      BY <2>1, <2>2, <2>3, <2>4
  <1>13. ASSUME NEW j \in Jobs, RadioUnavailable(j)
        PROVE  IInv'
    <2>1. TypeOK'
      BY <1>13 DEF RadioUnavailable, Fails, AfterSync, TypeOK, Stages,
         Kinds
    <2>2. LockInv'
      BY <1>13 DEF RadioUnavailable, Fails, AfterSync, TypeOK, LockInv,
         Holding, Syncing, Cancellable
    <2>3. ClockInv' /\ AgeInv'
      BY <1>13 DEF RadioUnavailable, Fails, AfterSync, ClockInv, AgeInv
    <2>4. CoverInv'
      BY <1>13 DEF RadioUnavailable, Fails, AfterSync, TypeOK, CoverInv,
         WatermarkCovers, SinceInv, ResultInv, Own
    <2> QED
      BY <2>1, <2>2, <2>3, <2>4
  <1>14. ASSUME NEW j \in Jobs, BeginSync(j)
        PROVE  IInv'
    <2>1. TypeOK'
      BY <1>14 DEF BeginSync, TypeOK, Stages, Kinds
    <2>2. LockInv'
      BY <1>14 DEF BeginSync, TypeOK, LockInv, Holding, Syncing,
         Cancellable
    <2>3. ClockInv' /\ AgeInv'
      BY <1>14 DEF BeginSync, ClockInv, AgeInv
    <2>4. CoverInv'
      BY <1>14 DEF BeginSync, TypeOK, CoverInv, WatermarkCovers, SinceInv,
         ResultInv, Own
    <2> QED
      BY <2>1, <2>2, <2>3, <2>4
  <1>15. ASSUME NEW j \in Jobs, SyncFails(j)
        PROVE  IInv'
    <2>1. TypeOK'
      BY <1>15 DEF SyncFails, Fails, TypeOK, Stages, Kinds
    <2>2. LockInv'
      BY <1>15 DEF SyncFails, Fails, TypeOK, LockInv, Holding, Syncing,
         Cancellable
    <2>3. ClockInv' /\ AgeInv'
      BY <1>15 DEF SyncFails, Fails, ClockInv, AgeInv
    <2>4. CoverInv'
      BY <1>15 DEF SyncFails, Fails, TypeOK, CoverInv, WatermarkCovers,
         SinceInv, ResultInv, Own
    <2> QED
      BY <2>1, <2>2, <2>3, <2>4
  <1>16. ASSUME NEW j \in Jobs, ContactLastMod(j)
        PROVE  IInv'
    <2>1. TypeOK'
      BY <1>16 DEF ContactLastMod, TypeOK, Mods, Records, Stages
    <2>2. LockInv'
      BY <1>16 DEF ContactLastMod, TypeOK, LockInv, Holding, Syncing,
         Cancellable
    <2>3. ClockInv' /\ AgeInv'
      BY <1>16 DEF ContactLastMod, TypeOK, Mods, Records, ClockInv, AgeInv
    <2>4. CoverInv'
      BY <1>16 DEF ContactLastMod, TypeOK, Mods, Records, LockInv,
         Syncing, ClockInv, AgeInv, CoverInv, WatermarkCovers, SinceInv,
         ResultInv, Own
    <2> QED
      BY <2>1, <2>2, <2>3, <2>4
  <1>17. ASSUME NEW j \in Jobs, ClearContacts(j)
        PROVE  IInv'
    <2>1. TypeOK'
      BY <1>17 DEF ClearContacts, Empty, TypeOK, Mods, Records, Stages
    <2>2. LockInv'
      BY <1>17 DEF ClearContacts, Empty, TypeOK, LockInv, Holding,
         Syncing, Cancellable
    <2>3. ClockInv' /\ AgeInv'
      BY <1>17 DEF ClearContacts, Empty, TypeOK, Mods, Records, ClockInv,
         AgeInv
    <2>4. CoverInv'
      BY <1>17 DEF ClearContacts, Empty, TypeOK, Mods, Records, LockInv,
         Syncing, ClockInv, AgeInv, CoverInv, WatermarkCovers, SinceInv,
         ResultInv, Own
    <2> QED
      BY <2>1, <2>2, <2>3, <2>4
  <1>18. ASSUME NEW j \in Jobs, ContactsSince(j)
        PROVE  IInv'
    <2>1. TypeOK'
      BY <1>18 DEF ContactsSince, Newer, Newest, TypeOK, Mods, Records,
         Stages
    <2>2. LockInv'
      BY <1>18 DEF ContactsSince, Newer, Newest, TypeOK, LockInv, Holding,
         Syncing, Cancellable
    <2>3. ClockInv' /\ AgeInv'
      BY <1>18 DEF ContactsSince, Newer, Newest, TypeOK, Mods, Records,
         ClockInv, AgeInv
    <2>4. CoverInv'
      BY <1>18 DEF ContactsSince, Newer, Newest, TypeOK, Mods, Records,
         LockInv, Syncing, ClockInv, AgeInv, CoverInv, WatermarkCovers,
         SinceInv, ResultInv, Own
    <2> QED
      BY <2>1, <2>2, <2>3, <2>4
  <1>19. ASSUME NEW j \in Jobs, UpsertContacts(j)
        PROVE  IInv'
    <2>1. TypeOK'
      BY <1>19 DEF UpsertContacts, Merged, TypeOK, Mods, Records, Stages
    <2>2. LockInv'
      BY <1>19 DEF UpsertContacts, Merged, TypeOK, LockInv, Holding,
         Syncing, Cancellable
    <2>3. ClockInv' /\ AgeInv'
      BY <1>19 DEF UpsertContacts, Merged, TypeOK, Mods, Records,
         ClockInv, AgeInv
    <2>4. CoverInv'
      BY <1>19 DEF UpsertContacts, Merged, TypeOK, Mods, Records, LockInv,
         Syncing, ClockInv, AgeInv, CoverInv, WatermarkCovers, SinceInv,
         ResultInv, Own
    <2> QED
      BY <2>1, <2>2, <2>3, <2>4
  <1>20. ASSUME NEW j \in Jobs, SetContactLastMod(j)
        PROVE  IInv'
    <2>1. TypeOK'
      BY <1>20 DEF SetContactLastMod, TypeOK, Mods, Records, Stages
    <2>2. LockInv'
      BY <1>20 DEF SetContactLastMod, TypeOK, LockInv, Holding, Syncing,
         Cancellable
    <2>3. ClockInv' /\ AgeInv'
      BY <1>20 DEF SetContactLastMod, TypeOK, Mods, Records, ClockInv,
         AgeInv
    <2>4. CoverInv'
      BY <1>20 DEF SetContactLastMod, TypeOK, Mods, Records, LockInv,
         Syncing, ClockInv, AgeInv, CoverInv, WatermarkCovers, SinceInv,
         ResultInv, Own
    <2> QED
      BY <2>1, <2>2, <2>3, <2>4
  <1>21. ASSUME NEW j \in Jobs, finishContactSync(j)
        PROVE  IInv'
    <2>1. TypeOK'
      <3>1. contactSyncing' \in BOOLEAN /\ fresh' \in BOOLEAN /\ initialDone' \in BOOLEAN
        BY <1>21 DEF finishContactSync, TypeOK
      <3> QED
        BY <1>21, <3>1
        DEF finishContactSync, AfterSync, NoResult, Empty, TypeOK, Mods,
            Records, Kinds, Stages
    <2>2. LockInv'
      BY <1>21 DEF finishContactSync, AfterSync, NoResult, Empty, TypeOK,
         LockInv, Holding, Syncing, Cancellable
    <2>3. ClockInv' /\ AgeInv'
      BY <1>21 DEF finishContactSync, AfterSync, NoResult, Empty, TypeOK,
         Mods, Records, ClockInv, AgeInv
    <2>4. CoverInv'
      BY <1>21 DEF finishContactSync, AfterSync, NoResult, Empty, TypeOK,
         Mods, Records, LockInv, Syncing, ClockInv, AgeInv, CoverInv,
         WatermarkCovers, SinceInv, ResultInv, Own
    <2> QED
      BY <2>1, <2>2, <2>3, <2>4
  <1>22. ASSUME NEW a \in Adverts, NEW c \in Contacts, NEW record \in BOOLEAN, AdvertHeard(a, c, record)
        PROVE  IInv'
    <2>1. TypeOK'
      BY <1>22 DEF AdvertHeard, TypeOK, Mods, Records
    <2>2. LockInv'
      BY <1>22 DEF AdvertHeard, LockInv
    <2>3. ClockInv' /\ AgeInv'
      BY <1>22 DEF AdvertHeard, TypeOK, Mods, Records, ClockInv, AgeInv
    <2>4. CoverInv'
      BY <1>22 DEF AdvertHeard, CoverInv, WatermarkCovers, SinceInv,
         ResultInv, Own
    <2> QED
      BY <2>1, <2>2, <2>3, <2>4
  <1>23. ASSUME NEW a \in Adverts, ObservedRead(a)
        PROVE  IInv'
    <2>1. TypeOK'
      <3>1. obs[a] \in [stage : {"new", "read", "write", "mark", "set", "done"},
                     contact : Contacts \cup {NoContact}, lastMod : Mods, existing : Mods]
        BY DEF TypeOK
      <3>2. obs[a].contact \in Contacts
        BY <1>23 DEF ObservedRead, AgeInv
      <3>3. stored[obs[a].contact] \in Mods
        BY <3>2 DEF TypeOK, Records
      <3>4. [obs[a] EXCEPT !.stage = "write", !.existing = stored[obs[a].contact]]
               \in [stage : {"new", "read", "write", "mark", "set", "done"},
                    contact : Contacts \cup {NoContact}, lastMod : Mods, existing : Mods]
        BY <3>1, <3>3
      <3> QED
        BY <1>23, <3>1, <3>4 DEF ObservedRead, Over, NotHeard, TypeOK, Mods
    <2>2. LockInv'
      BY <1>23 DEF ObservedRead, Over, NotHeard, LockInv
    <2>3. ClockInv' /\ AgeInv'
      BY <1>23 DEF ObservedRead, Over, NotHeard, TypeOK, Mods, Records,
         ClockInv, AgeInv
    <2>4. CoverInv'
      BY <1>23 DEF ObservedRead, Over, NotHeard, CoverInv,
         WatermarkCovers, SinceInv, ResultInv, Own
    <2> QED
      BY <2>1, <2>2, <2>3, <2>4
  <1>24. ASSUME NEW a \in Adverts, ObservedUpsert(a)
        PROVE  IInv'
    <2>1. TypeOK'
      <3>1. obs[a] \in [stage : {"new", "read", "write", "mark", "set", "done"},
                     contact : Contacts \cup {NoContact}, lastMod : Mods, existing : Mods]
        BY DEF TypeOK
      <3>2. obs' \in [Adverts -> [stage : {"new", "read", "write", "mark", "set", "done"},
                     contact : Contacts \cup {NoContact}, lastMod : Mods, existing : Mods]]
        BY <1>24, <3>1 DEF ObservedUpsert, Over, NotHeard, TypeOK, Mods
      <3>3. stored' \in Records /\ trust' \in {"yes", "rebuilding", "no"}
        BY <1>24, <3>1 DEF ObservedUpsert, Distrust, TypeOK, Records
      <3> QED
        BY <1>24, <3>2, <3>3 DEF ObservedUpsert, TypeOK
    <2>2. LockInv'
      BY <1>24 DEF ObservedUpsert, Over, NotHeard, Distrust, LockInv
    <2>3. ClockInv' /\ AgeInv'
      BY <1>24 DEF ObservedUpsert, Over, NotHeard, Distrust, TypeOK, Mods,
         Records, ClockInv, AgeInv
    <2>4. CoverInv'
      <3> DEFINE o   == obs[a]
                 new == IF o.lastMod # 0 THEN o.lastMod ELSE o.existing
      <3>1. /\ o.contact \in Contacts /\ new \in Nat
            /\ list[o.contact] # 0 => new <= list[o.contact]
        BY <1>24 DEF ObservedUpsert, AgeInv, TypeOK, Mods
      <3>2. /\ stored' = [stored EXCEPT ![o.contact] = new]
            /\ trust' = IF new < stored[o.contact] THEN "no" ELSE trust
            /\ UNCHANGED <<list, mark, pc, full, since, result, fresh>>
        BY <1>24 DEF ObservedUpsert, Distrust
      <3> HIDE DEF o, new
      <3>3. ASSUME NEW d \in Contacts, trust' # "no", list[d] # 0, stored[d] = list[d]
            PROVE  stored'[d] = list[d]
        <4>1. stored \in [Contacts -> Nat] /\ list \in [Contacts -> Nat]
          BY DEF TypeOK, Records, Mods
        <4>2. CASE d # o.contact
          BY <3>2, <3>3, <4>1, <4>2
        <4>3. CASE d = o.contact
          <5>1. ~(new < stored[d])
            BY <3>2, <3>3, <4>3
          <5>2. stored'[d] = new
            BY <3>2, <4>1, <4>3
          <5> QED
            BY <3>1, <3>3, <4>1, <4>3, <5>1, <5>2
        <4> QED
          BY <4>2, <4>3
      <3>4. trust' # "no" => trust' = trust
        BY <3>2
      <3>5. WatermarkCovers'
        BY <3>2, <3>3, <3>4 DEF CoverInv, WatermarkCovers
      <3>6. ASSUME NEW j \in Jobs PROVE SinceInv(j)' /\ ResultInv(j)'
        <4>1. SinceInv(j)'
          BY <3>2, <3>4 DEF CoverInv, SinceInv
        <4>2. ResultInv(j)'
          BY <3>2, <3>3, <3>4 DEF CoverInv, ResultInv, Own
        <4> QED
          BY <4>1, <4>2
      <3> QED
        BY <3>5, <3>6 DEF CoverInv
    <2> QED
      BY <2>1, <2>2, <2>3, <2>4
  <1>25. ASSUME NEW a \in Adverts, ObservedLastMod(a)
        PROVE  IInv'
    <2>1. TypeOK'
      BY <1>25 DEF ObservedLastMod, Over, NotHeard, TypeOK, Mods, Records
    <2>2. LockInv'
      BY <1>25 DEF ObservedLastMod, Over, NotHeard, LockInv
    <2>3. ClockInv' /\ AgeInv'
      BY <1>25 DEF ObservedLastMod, Over, NotHeard, TypeOK, Mods, Records,
         ClockInv, AgeInv
    <2>4. CoverInv'
      BY <1>25 DEF ObservedLastMod, Over, NotHeard, CoverInv,
         WatermarkCovers, SinceInv, ResultInv, Own
    <2> QED
      BY <2>1, <2>2, <2>3, <2>4
  <1>26. ASSUME NEW a \in Adverts, ObservedSetLastMod(a)
        PROVE  IInv'
    <2>1. TypeOK'
      BY <1>26 DEF ObservedSetLastMod, Over, NotHeard, Distrust, TypeOK,
         Mods, Records
    <2>2. LockInv'
      BY <1>26 DEF ObservedSetLastMod, Over, NotHeard, Distrust, LockInv
    <2>3. ClockInv' /\ AgeInv'
      BY <1>26 DEF ObservedSetLastMod, Over, NotHeard, Distrust, TypeOK,
         Mods, Records, ClockInv, AgeInv
    <2>4. CoverInv'
      BY <1>26 DEF ObservedSetLastMod, Over, NotHeard, Distrust, CoverInv,
         WatermarkCovers, SinceInv, ResultInv, Own
    <2> QED
      BY <2>1, <2>2, <2>3, <2>4
  <1>27. ASSUME NEW a \in Adverts, ObservedFails(a)
        PROVE  IInv'
    <2>1. TypeOK'
      BY <1>27 DEF ObservedFails, Fails, Over, NotHeard, TypeOK, Mods,
         Records
    <2>2. LockInv'
      BY <1>27 DEF ObservedFails, Fails, Over, NotHeard, LockInv
    <2>3. ClockInv' /\ AgeInv'
      BY <1>27 DEF ObservedFails, Fails, Over, NotHeard, TypeOK, Mods,
         Records, ClockInv, AgeInv
    <2>4. CoverInv'
      BY <1>27 DEF ObservedFails, Fails, Over, NotHeard, CoverInv,
         WatermarkCovers, SinceInv, ResultInv, Own
    <2> QED
      BY <2>1, <2>2, <2>3, <2>4
  <1>28. CASE UNCHANGED vars
    BY <1>28
    DEF vars, TypeOK, LockInv, ClockInv, AgeInv, CoverInv, WatermarkCovers,
        SinceInv, ResultInv, Own
  <1> QED
    BY <1>1, <1>2, <1>3, <1>4, <1>5, <1>6, <1>7, <1>8, <1>9, <1>10, <1>11,
       <1>12, <1>13, <1>14, <1>15, <1>16, <1>17, <1>18, <1>19, <1>20, <1>21,
       <1>22, <1>23, <1>24, <1>25, <1>26, <1>27, <1>28
    DEF Next, ArrivalStep, LockStep, HolderStep, SyncStep, ObservedStep

\* The inductive invariant holds in every reachable state.
LEMMA Inductive == Spec => []IInv
  BY InitIInv, StepIInv, PTL DEF Spec

(***************************************************************************)
(* The types of the contact sync's state.                                  *)
(***************************************************************************)
THEOREM TypeCorrect == Spec => []TypeOK
  <1>1. IInv => TypeOK
    BY DEF IInv
  <1> QED
    BY Inductive, <1>1, PTL

(***************************************************************************)
(* An interrupt cancels only the background refresh that holds the radio.  *)
(***************************************************************************)
THEOREM InterruptsHolder == Spec => []CancelIsHolders
  <1>1. IInv => CancelIsHolders
    BY ContactSyncAssumption
    DEF IInv, TypeOK, LockInv, CancelIsHolders, Holding, Syncing, Cancellable
  <1> QED
    BY Inductive, <1>1, PTL

(***************************************************************************)
(* contactSyncing, contactSyncMu and the radio lock belong together: the   *)
(* answer "already running" of startContactRefresh cannot be given.        *)
(***************************************************************************)
THEOREM SyncUnderLock == Spec => []SyncingIsHolders
  <1>1. IInv => SyncingIsHolders
    BY ContactSyncAssumption
    DEF IInv, TypeOK, LockInv, SyncingIsHolders, Holding, Syncing
  <1> QED
    BY Inductive, <1>1, PTL

(***************************************************************************)
(* Both: what the sync flag and the cancel function say is about the job   *)
(* that holds the radio.                                                   *)
(***************************************************************************)
THEOREM StateIsHolders == Spec => []HolderOnly
  BY InterruptsHolder, SyncUnderLock, PTL DEF HolderOnly

(***************************************************************************)
(* The watermark never passes a contact the table lacks, except through an *)
(* advert or a full refresh that did not complete.                         *)
(***************************************************************************)
THEOREM WatermarkSafe == Spec => []WatermarkCovers
  <1>1. IInv => WatermarkCovers
    BY DEF IInv, CoverInv
  <1> QED
    BY Inductive, <1>1, PTL

(***************************************************************************)
(* A refresh that succeeds leaves every contact of the radio in the table. *)
(***************************************************************************)
THEOREM RefreshComplete == Spec => RefreshBringsAll
  <1> DEFINE Brings ==
        \A j \in Jobs :
          /\ pc[j] = "mark" /\ SetContactLastMod(j)
          /\ fresh
          /\ trust' = "yes"
          => \A c \in Contacts : list[c] # 0 => stored'[c] = list[c]
  <1>1. ASSUME IInv PROVE Brings
    <2>1. SUFFICES ASSUME NEW j \in Jobs, pc[j] = "mark", SetContactLastMod(j), fresh,
                          trust' = "yes", NEW c \in Contacts, list[c] # 0
                   PROVE  stored'[c] = list[c]
      OBVIOUS
    <2>2. SinceInv(j) /\ ResultInv(j) /\ WatermarkCovers
      BY <1>1 DEF IInv, CoverInv
    <2>3. trust = Own(j) /\ stored' = stored
      BY <2>1, <2>2 DEF SetContactLastMod, SinceInv, Own
    <2>4. list[c] <= result.LastMod \/ list[c] <= since
      BY <2>1, <2>2 DEF ResultInv
    <2>5. CASE list[c] <= result.LastMod
      BY <2>1, <2>2, <2>3, <2>5 DEF ResultInv
    <2>6. CASE list[c] <= since
      <3>1. list[c] \in Nat
        BY <1>1 DEF IInv, TypeOK, Records, Mods
      <3>2. ~full[j] /\ since = mark /\ trust = "yes"
        BY <2>1, <2>2, <2>3, <2>6, <3>1 DEF SinceInv, Own
      <3> QED
        BY <2>1, <2>2, <2>3, <2>6, <3>2 DEF WatermarkCovers
    <2> QED
      BY <2>4, <2>5, <2>6
  <1>2. IInv => [Brings]_vars
    BY <1>1
  <1> QED
    BY Inductive, <1>2, PTL DEF RefreshBringsAll

-----------------------------------------------------------------------------
(* TracePath: plans and the answers to them.                               *)

\* The instance has a copy of its own.
LEMMA TraceCardinality == \A S : Trace!Cardinality(S) = Cardinality(S)
  BY DEF Trace!Cardinality, Cardinality

LEMMA FlagsOfSize ==
  ASSUME NEW n \in Trace!TraceSizes
  PROVE  /\ Trace!TraceFlagsFromHashSize(n) \in 0..3
         /\ 2^(Trace!TraceFlagsFromHashSize(n)) = n
  <1>1. \E f \in 0..3 : 2^f = n
    <2>1. 2^0 = 1 /\ 2^1 = 2 /\ 2^2 = 4 /\ 2^3 = 8
      OBVIOUS
    <2>2. 0 \in 0..3 /\ 1 \in 0..3 /\ 2 \in 0..3 /\ 3 \in 0..3
      OBVIOUS
    <2> QED
      BY <2>1, <2>2 DEF Trace!TraceSizes
  <1> QED
    BY <1>1 DEF Trace!TraceFlagsFromHashSize

Bytes == Nat \X Nat

\* A path of m whole hops of nodes 0, 1, 2 ..., hashed to `size` bytes each.
WholeHops(path, size) ==
  /\ size \in Trace!TraceSizes
  /\ \E m \in Nat : /\ m > 0 /\ m * size <= 64
                    /\ path = Trace!HashBytes(m * size, size)

GoodPlan(p) == /\ WholeHops(p.path, p.size)
               /\ p.flags \in 0..3 /\ 2^p.flags = p.size

LEMMA HashBytesType ==
  ASSUME NEW n \in Nat, NEW z \in {1, 2, 3, 4, 8}
  PROVE  /\ Trace!HashBytes(n, z) \in Seq(Bytes)
         /\ Len(Trace!HashBytes(n, z)) = n
         /\ \A i \in 1..n : Trace!HashBytes(n, z)[i]
                              = <<(i - 1) \div z, (i - 1) % z>>
  <1>1. \A i \in 1..n : (i - 1) \div z \in Nat /\ (i - 1) % z \in Nat
    OBVIOUS
  <1>2. Trace!HashBytes(n, z) \in [1..n -> Bytes]
    BY <1>1 DEF Trace!HashBytes, Bytes
  <1>3. \A i \in 1..n : Trace!HashBytes(n, z)[i] = <<(i - 1) \div z, (i - 1) % z>>
    BY DEF Trace!HashBytes
  <1> QED
    BY <1>2, <1>3

LEMMA PlanIsGood ==
  ASSUME NEW path, NEW size, NEW source, WholeHops(path, size)
  PROVE  GoodPlan(Trace!Plan(path, size, source))
  BY FlagsOfSize DEF GoodPlan, WholeHops, Trace!Plan

LEMMA MetaParts ==
  ASSUME NEW e \in 0..255
  PROVE  /\ Trace!HashSizeFromPathMeta(e) \in 1..4
         /\ Trace!HopCountFromPathMeta(e) \in 0..63
  BY DEF Trace!HashSizeFromPathMeta, Trace!HopCountFromPathMeta

\* The stored path, cut to the 64 bytes there are.
LEMMA StoredPath ==
  ASSUME NEW e \in 0..255, NEW raw \in {0, 64},
         NEW z, z = Trace!HashSizeFromPathMeta(e),
         NEW h, h = Trace!HopCountFromPathMeta(e)
  PROVE  /\ z \in 1..4 /\ h \in 0..63
         /\ Trace!PathBytes(e, raw)
              = Trace!HashBytes(IF h * z > raw THEN raw ELSE h * z, z)
  BY MetaParts DEF Trace!PathBytes

LEMMA EmptyHash == ASSUME NEW z PROVE Trace!HashBytes(0, z) = <<>>
  BY DEF Trace!HashBytes

LEMMA NearestIsSize ==
  ASSUME NEW n \in Nat
  PROVE  Trace!NearestTraceHashSize(n) \in Trace!TraceSizes
  BY DEF Trace!NearestTraceHashSize, Trace!TraceSizes

LEMMA OneHop ==
  ASSUME NEW z \in Trace!TraceSizes
  PROVE  WholeHops(Trace!HashBytes(z, z), z)
  <1>1. 1 \in Nat /\ 1 * z = z /\ z <= 64
    BY DEF Trace!TraceSizes
  <1> QED
    BY <1>1 DEF WholeHops

LEMMA FallbackGood ==
  ASSUME NEW ct, ct.key \in {0, 32}, NEW hint \in Nat, NEW source,
         Trace!traceKeyFallback(ct, hint, source).ok
  PROVE  GoodPlan(Trace!traceKeyFallback(ct, hint, source))
  <1> DEFINE wanted == Trace!NearestTraceHashSize(IF hint <= 0 THEN 2 ELSE hint)
  <1>1. ct.key = 32
    BY DEF Trace!traceKeyFallback, Trace!PlanError
  <1>2. wanted \in Trace!TraceSizes
    BY NearestIsSize
  <1>3. wanted <= 32 /\ wanted \in Nat
    BY <1>2 DEF Trace!TraceSizes
  <1> HIDE DEF wanted
  <1>4. Trace!traceKeyFallback(ct, hint, source)
          = Trace!Plan(Trace!HashBytes(wanted, wanted), wanted, source)
    BY <1>1, <1>3 DEF Trace!traceKeyFallback, wanted
  <1> QED
    BY <1>2, <1>4, OneHop, PlanIsGood

LEMMA ParsedGood ==
  ASSUME NEW t, t.hops \in Nat, t.digits \in Nat, Trace!ParsePath(t).ok
  PROVE  GoodPlan(Trace!ParsePath(t))
  <1> DEFINE size == t.digits \div 2
  <1>1. /\ t.hops # 0 /\ size \in Trace!TraceSizes
        /\ ~(t.hops * size > Trace!MaxPathSize)
        /\ Trace!ParsePath(t) = Trace!Plan(Trace!HashBytes(t.hops * size, size),
                                           size, "explicit_path")
    BY DEF Trace!ParsePath, Trace!PlanError
  <1> HIDE DEF size
  <1>2. t.hops > 0 /\ t.hops * size <= 64
    BY <1>1 DEF Trace!MaxPathSize, Trace!TraceSizes
  <1>3. WholeHops(Trace!HashBytes(t.hops * size, size), size)
    BY <1>1, <1>2 DEF WholeHops
  <1> QED
    BY <1>1, <1>3, PlanIsGood

\* A path of 1, 2 or 4 byte hops is taken as it is.
LEMMA EvenPath ==
  ASSUME NEW z \in {1, 2, 4}, NEW h \in 0..63, NEW raw \in {0, 64},
         NEW n, n = IF h * z > raw THEN raw ELSE h * z,
         n # 0
  PROVE  WholeHops(Trace!HashBytes(n, z), z)
  <1>1. z \in Trace!TraceSizes
    BY DEF Trace!TraceSizes
  <1>2. CASE h * z <= raw
    <2>1. n = h * z /\ h > 0 /\ h * z <= 64
      BY <1>2
    <2>2. h \in Nat /\ Trace!HashBytes(n, z) = Trace!HashBytes(h * z, z)
      BY <2>1
    <2> QED
      BY <1>1, <2>1, <2>2, Zenon DEF WholeHops
  <1>3. CASE h * z > raw
    <2>1. n = 64 /\ z # 1
      BY <1>3
    <2>2. 16 * 4 = 64 /\ 32 * 2 = 64 /\ 16 \in Nat /\ 32 \in Nat
      OBVIOUS
    <2> QED
      BY <1>1, <2>1, <2>2 DEF WholeHops
  <1>4. h * z <= raw \/ h * z > raw
    OBVIOUS
  <1> QED
    BY <1>2, <1>3, <1>4

\* The hops whose first two bytes are stored are the first ones.
LEMMA WholeOnes ==
  ASSUME NEW h \in 0..63, NEW n, n = (IF h * 3 > 64 THEN 64 ELSE h * 3)
  PROVE  \E c \in 0..21 :
           /\ {i \in 0..(h - 1) : i * 3 + 2 <= n} = 0..(c - 1)
           /\ 3 * c <= n + 1 /\ (h > 0 => c > 0)
  <1>1. CASE h <= 21
    <2>1. {i \in 0..(h - 1) : i * 3 + 2 <= n} = 0..(h - 1)
      BY <1>1
    <2>2. h \in 0..21 /\ 3 * h <= n + 1
      BY <1>1
    <2> QED
      BY <2>1, <2>2
  <1>2. CASE h > 21
    <2>1. n = 64 /\ {i \in 0..(h - 1) : i * 3 + 2 <= n} = 0..(21 - 1)
      BY <1>2
    <2> QED
      BY <2>1
  <1> QED
    BY <1>1, <1>2

\* Of 3-byte hops the first two bytes are kept.
CutHops(path, h) ==
  [i \in 1..(2 * Trace!Cardinality({i \in 0..(h - 1) : i * 3 + 2 <= Len(path)})) |->
     path[((i - 1) \div 2) * 3 + ((i - 1) % 2) + 1]]

LEMMA CutPath ==
  ASSUME NEW h \in 1..63, NEW n, n = (IF h * 3 > 64 THEN 64 ELSE h * 3),
         NEW path, path = Trace!HashBytes(n, 3)
  PROVE  WholeHops(CutHops(path, h), 2)
  <1> DEFINE cut == CutHops(path, h)
  <1>1. n \in Nat /\ Len(path) = n
        /\ \A i \in 1..n : path[i] = <<(i - 1) \div 3, (i - 1) % 3>>
    <2>1. n \in Nat
      OBVIOUS
    <2> QED
      BY <2>1, HashBytesType
  <1>2. PICK c \in 0..21 :
           /\ {i \in 0..(h - 1) : i * 3 + 2 <= n} = 0..(c - 1)
           /\ 3 * c <= n + 1 /\ (h > 0 => c > 0)
    <2>1. h \in 0..63
      OBVIOUS
    <2> QED
      BY <2>1, WholeOnes, ZenonT(30)
  <1>3. Cardinality(0..(c - 1)) = c
    <2>1. 0 \in Int /\ c - 1 \in Int
      OBVIOUS
    <2> QED
      BY <1>2, <2>1, FS_Interval
  <1>4. Trace!Cardinality({i \in 0..(h - 1) : i * 3 + 2 <= Len(path)}) = c
    BY <1>1, <1>2, <1>3, TraceCardinality
  <1>5. cut = [i \in 1..(2 * c) |-> path[((i - 1) \div 2) * 3 + ((i - 1) % 2) + 1]]
    BY <1>4 DEF CutHops
  <1> HIDE DEF cut
  <1>6. ASSUME NEW i \in 1..(2 * c)
        PROVE  path[((i - 1) \div 2) * 3 + ((i - 1) % 2) + 1]
                 = <<(i - 1) \div 2, (i - 1) % 2>>
    <2> DEFINE q == (i - 1) \div 2
               r == (i - 1) % 2
    <2>1. q \in 0..(c - 1) /\ r \in 0..1
      OBVIOUS
    <2> HIDE DEF q, r
    <2>2. q * 3 + r + 1 \in 1..n /\ (q * 3 + r + 1) - 1 = 3 * q + r
      BY <1>1, <1>2, <2>1
    <2>3. (3 * q + r) \div 3 = q /\ (3 * q + r) % 3 = r
      BY <2>1
    <2>4. path[q * 3 + r + 1] = <<q, r>>
      BY <1>1, <2>2, <2>3
    <2> QED
      BY <2>4 DEF q, r
  <1>7. cut = Trace!HashBytes(c * 2, 2)
    <2>1. cut = Trace!HashBytes(2 * c, 2)
      BY <1>5, <1>6, Zenon DEF Trace!HashBytes
    <2>2. 2 * c = c * 2
      OBVIOUS
    <2> QED
      BY <2>1, <2>2
  <1>8. c > 0 /\ c * 2 <= 64 /\ c \in Nat
    BY <1>2
  <1> QED
    BY <1>7, <1>8 DEF WholeHops, Trace!TraceSizes, cut

LEMMA OutPathGood ==
  ASSUME NEW e \in 0..255, NEW raw \in {0, 64}, Trace!HasStoredOutPath(e, raw)
  PROVE  GoodPlan(Trace!TracePathFromOutPath(e, raw))
  <1> DEFINE z == Trace!HashSizeFromPathMeta(e)
             h == Trace!HopCountFromPathMeta(e)
             n == IF h * z > raw THEN raw ELSE h * z
             path == Trace!PathBytes(e, raw)
  <1>1. z \in 1..4 /\ h \in 0..63 /\ path = Trace!HashBytes(n, z)
    BY StoredPath, ZenonT(30)
  <1>2. h # 0 /\ path # <<>>
    BY DEF Trace!HasStoredOutPath
  <1>3. n # 0
    BY <1>1, <1>2, EmptyHash
  <1>4. CASE z # 3
    <2>1. Trace!TracePathFromOutPath(e, raw)
            = Trace!Plan(path, z, "contact_out_path")
      BY <1>2, <1>4 DEF Trace!TracePathFromOutPath
    <2>2. z \in {1, 2, 4}
      BY <1>1, <1>4
    <2> HIDE DEF z, h, path
    <2>3. WholeHops(path, z)
      BY <1>1, <1>3, <2>2, EvenPath
    <2> QED
      BY <2>1, <2>3, PlanIsGood
  <1>5. CASE z = 3
    <2> DEFINE cut == CutHops(path, h)
    <2>1. Trace!TracePathFromOutPath(e, raw)
            = Trace!Plan(cut, 2, "contact_out_path")
      <3>1. Trace!TracePathFromOutPath(e, raw)
              = IF path = <<>> THEN Trace!PlanError
                ELSE IF z # 3 THEN Trace!Plan(path, z, "contact_out_path")
                ELSE Trace!Plan(cut, 2, "contact_out_path")
        BY DEF Trace!TracePathFromOutPath, CutHops
      <3> HIDE DEF cut, path, z
      <3> QED
        BY <1>2, <1>5, <3>1
    <2>2. n = (IF h * 3 > 64 THEN 64 ELSE h * 3) /\ h \in 1..63
      <3>1. h * z = h * 3 /\ h \in 1..63
        BY <1>1, <1>2, <1>5
      <3> HIDE DEF h, z
      <3>2. raw = 64
        BY <1>3, <3>1
      <3> QED
        BY <3>1, <3>2
    <2>3. path = Trace!HashBytes(n, 3)
      BY <1>1, <1>5
    <2> HIDE DEF z, h, n, path
    <2>4. WholeHops(CutHops(path, h), 2)
      BY <2>2, <2>3, CutPath
    <2> QED
      BY <2>1, <2>4, PlanIsGood
  <1> QED
    BY <1>4, <1>5

LEMMA PlannedGood ==
  ASSUME NEW t \in Trace!Targets, Trace!planTrace(t).ok
  PROVE  GoodPlan(Trace!planTrace(t))
  <1>1. CASE t.kind = "hex"
    <2>1. t.hops \in Nat /\ t.digits \in Nat
      BY <1>1, MCContactsAssumption DEF Trace!Targets
    <2> QED
      BY <1>1, <2>1, ParsedGood DEF Trace!planTrace
  <1>2. CASE t.kind # "hex"
    <2>1. /\ t.enc \in 0..255 /\ t.raw \in {0, 64} /\ t.key \in {0, 32}
          /\ t.hint \in Nat
      BY <1>2, MCContactsAssumption
      DEF Trace!Targets, Trace!MaxPathSize, Trace!KeySize
    <2>2. Trace!planTrace(t) = Trace!PlanTraceContact(t, t.hint)
      BY <1>2 DEF Trace!planTrace
    <2>3. Trace!HashSizeFromPathMeta(t.enc) \in Nat
      BY <2>1, MetaParts, SMTT(30)
    <2>4. CASE Trace!HasStoredOutPath(t.enc, t.raw)
      <3>1. Trace!PlanTraceContact(t, t.hint)
              = Trace!TracePathFromOutPath(t.enc, t.raw)
        BY <2>4 DEF Trace!PlanTraceContact, Trace!HasStoredOutPath
      <3> QED
        BY <2>1, <2>2, <2>4, <3>1, OutPathGood
    <2>5. CASE ~Trace!HasStoredOutPath(t.enc, t.raw)
      <3>1. \E hint \in Nat : \E source :
              Trace!PlanTraceContact(t, t.hint)
                = Trace!traceKeyFallback(t, hint, source)
        BY <2>1, <2>3, <2>5 DEF Trace!PlanTraceContact
      <3> QED
        BY <2>1, <2>2, <3>1, FallbackGood
    <2> QED
      BY <2>4, <2>5
  <1> QED
    BY <1>1, <1>2

\* Cutting the path at the plan's hash size gives the hops back.
LEMMA HopsOfPath ==
  ASSUME NEW path, NEW z, WholeHops(path, z)
  PROVE  /\ Trace!hopCount(path, z) >= 1 /\ Len(path) <= 64 /\ Len(path) % z = 0
         /\ \A h \in DOMAIN Trace!Split(path, z) : \A k \in 1..z :
              Trace!Split(path, z)[h][k] = <<h - 1, k - 1>>
  <1>1. z \in {1, 2, 4, 8}
    BY DEF WholeHops, Trace!TraceSizes
  <1>2. PICK m \in Nat : /\ m > 0 /\ m * z <= 64
                         /\ path = Trace!HashBytes(m * z, z)
    BY DEF WholeHops
  <1>3. m * z \in Nat /\ (m * z) % z = 0 /\ (m * z) \div z = m /\ m * z > 0
    BY <1>1, <1>2
  <1>4. /\ path \in Seq(Bytes) /\ Len(path) = m * z
        /\ \A i \in 1..(m * z) : path[i] = <<(i - 1) \div z, (i - 1) % z>>
    <2>1. z \in {1, 2, 3, 4, 8} /\ m * z \in Nat
      BY <1>1, <1>3
    <2> DEFINE n == m * z
    <2> HIDE DEF n
    <2>2. n \in Nat /\ path = Trace!HashBytes(n, z)
      BY <1>2, <2>1 DEF n
    <2>3. /\ path \in Seq(Bytes) /\ Len(path) = n
          /\ \A i \in 1..n : path[i] = <<(i - 1) \div z, (i - 1) % z>>
      BY <2>1, <2>2, HashBytesType
    <2> QED
      BY <2>3 DEF n
  <1>5. path # <<>>
    BY <1>3, <1>4
  <1>6. Trace!Split(path, z)
          = [h \in 1..m |-> SubSeq(path, (h - 1) * z + 1, h * z)]
    BY <1>3, <1>4, <1>5 DEF Trace!Split
  <1>7. ASSUME NEW h \in 1..m, NEW k \in 1..z
        PROVE  SubSeq(path, (h - 1) * z + 1, h * z)[k] = <<h - 1, k - 1>>
    <2> DEFINE a == (h - 1) * z
    <2>1. a \in Nat /\ h * z = a + z /\ a + z <= m * z
      BY <1>1
    <2>2. ((a + k) - 1) \div z = h - 1 /\ ((a + k) - 1) % z = k - 1
      BY <1>1
    <2> HIDE DEF a
    <2>3. a + k \in 1..(m * z)
      BY <1>1, <1>3, <2>1
    <2>4. SubSeq(path, a + 1, a + z)[k] = path[a + k]
      BY <1>1, <1>3, <1>4, <2>1
    <2>5. path[a + k] = <<h - 1, k - 1>>
      BY <1>4, <2>2, <2>3
    <2> QED
      BY <2>1, <2>4, <2>5 DEF a
  <1>8. \A h \in DOMAIN Trace!Split(path, z) : \A k \in 1..z :
          Trace!Split(path, z)[h][k] = <<h - 1, k - 1>>
    BY <1>6, <1>7
  <1>9. Trace!hopCount(path, z) >= 1 /\ Len(path) <= 64 /\ Len(path) % z = 0
    BY <1>2, <1>3, <1>4 DEF Trace!hopCount
  <1> QED
    BY <1>8, <1>9

-----------------------------------------------------------------------------
(* TracePath: the inductive invariant.                                     *)

\* What the radio may answer to the plan.
TraceAnswers == {Trace!Answer(g) : g \in Nat}

\* While a trace is planned nothing is under way; the answers in the channel
\* are all to the plan, which stays as it is from then on.
TraceInv ==
  /\ plan.ok => GoodPlan(plan)
  /\ tracePc = "idle" => mesh = {} /\ traces = <<>>
  /\ tracePc \notin {"idle", "failed"} => plan.ok
  /\ mesh \subseteq Nat /\ tag \in Nat
  /\ traces \in Seq(TraceAnswers)
  /\ tracePc = "done" => traced \in TraceAnswers /\ traced.tag = tag

LEMMA SameAnswers == UNCHANGED plan => TraceAnswers' = TraceAnswers
  BY DEF TraceAnswers, Trace!Answer

LEMMA TraceStep ==
  ASSUME TraceInv, Trace!Next
  PROVE  TraceInv'
  <1>1. CASE Trace!Start
    <2>1. /\ tracePc = "idle" /\ UNCHANGED <<mesh, traces, traced>>
          /\ target' \in Trace!Targets /\ plan' = Trace!planTrace(target')
          /\ tracePc' \in {"send", "failed"} /\ tag' \in {1, tag}
          /\ tracePc' = "send" => plan'.ok
      BY <1>1 DEF Trace!Start
    <2>2. plan'.ok => GoodPlan(plan')
      BY <2>1, PlannedGood
    <2>3. (plan.ok => GoodPlan(plan))'
      BY <2>2 DEF GoodPlan
    <2>4. mesh' = {} /\ traces' = <<>> /\ tag' \in Nat
      BY <2>1 DEF TraceInv
    <2>5. traces' \in Seq(TraceAnswers')
      BY <2>4
    <2> QED
      BY <2>1, <2>3, <2>4, <2>5 DEF TraceInv
  <1>2. CASE UNCHANGED plan
    <2>0. TraceAnswers' = TraceAnswers
      BY <1>2, SameAnswers
    <2>a. (plan.ok => GoodPlan(plan))'
      BY <1>2 DEF TraceInv, GoodPlan
    <2>1. CASE Trace!Sent \/ Trace!SendErr \/ Trace!Timeout \/ Trace!Retry
      <3>0. mesh' \in {mesh, mesh \union {tag}} /\ tag' \in {tag, tag + 1}
        BY <2>1 DEF Trace!Sent, Trace!SendErr, Trace!Timeout, Trace!Retry
      <3>t. mesh \subseteq Nat /\ tag \in Nat
        BY DEF TraceInv
      <3>a. mesh' \subseteq Nat /\ tag' \in Nat
        BY <3>0, <3>t
      <3>b. tracePc' \in {"wait", "failed", "send"}
        BY <2>1 DEF Trace!Sent, Trace!SendErr, Trace!Timeout, Trace!Retry
      <3>1. /\ mesh' \subseteq Nat /\ tag' \in Nat
            /\ tracePc' \in {"wait", "failed", "send"}
        BY <3>a, <3>b
      <3>2. traces' = traces /\ (tracePc' # "failed" => plan.ok)
        BY <2>1
        DEF TraceInv, Trace!Sent, Trace!SendErr, Trace!Timeout, Trace!Retry
      <3>3. traces' \in Seq(TraceAnswers')
        BY <2>0, <3>2 DEF TraceInv
      <3>4. (tracePc \notin {"idle", "failed"} => plan.ok)'
        BY <1>2, <3>1, <3>2
      <3> QED
        BY <2>a, <3>1, <3>3, <3>4 DEF TraceInv
    <2>2. CASE Trace!Receive
      <3>1. /\ tracePc = "wait" /\ traces # <<>> /\ traces' = Tail(traces)
            /\ UNCHANGED <<tag, mesh>>
            /\ \/ tracePc' = "done" /\ traced' = Head(traces) /\ traced'.tag = tag
               \/ UNCHANGED <<tracePc, traced>>
        BY <2>2 DEF Trace!Receive
      <3>2. Head(traces) \in TraceAnswers /\ traces' \in Seq(TraceAnswers)
        BY <3>1 DEF TraceInv
      <3> QED
        BY <1>2, <2>0, <3>1, <3>2 DEF TraceInv, GoodPlan
    <2>3. ASSUME NEW g \in 1..MaxTraces, Trace!Arrive(g)
          PROVE  TraceInv'
      <3>1. /\ g \in mesh /\ mesh' = mesh \ {g}
            /\ traces' \in {traces, Append(traces, Trace!Answer(g))}
            /\ UNCHANGED <<tracePc, tag, traced>>
        BY <2>3 DEF Trace!Arrive
      <3>2. Trace!Answer(g) \in TraceAnswers
        BY DEF TraceAnswers
      <3>3. traces' \in Seq(TraceAnswers)
        BY <3>1, <3>2 DEF TraceInv
      <3> QED
        BY <1>2, <2>0, <3>1, <3>3 DEF TraceInv, GoodPlan
    <2>4. ASSUME NEW g \in 1..MaxTraces, Trace!Lost(g)
          PROVE  TraceInv'
      BY <1>2, <2>0, <2>4 DEF TraceInv, GoodPlan, Trace!Lost
    <2> QED
      BY <1>1, <2>1, <2>2, <2>3, <2>4 DEF Trace!Next
  <1>3. Trace!Start \/ UNCHANGED plan
    BY DEF Trace!Next, Trace!Sent, Trace!SendErr, Trace!Receive, Trace!Timeout,
           Trace!Retry, Trace!Arrive, Trace!Lost
  <1> QED
    BY <1>1, <1>2, <1>3

LEMMA TraceInductive == MCSpec => []TraceInv
  <1>1. MCInit => TraceInv
    <2> SUFFICES ASSUME Trace!Init PROVE TraceInv
      BY DEF MCInit
    <2>1. /\ tracePc = "idle" /\ mesh = {} /\ traces = <<>> /\ tag = 0
          /\ plan.ok = FALSE
      BY DEF Trace!Init, Trace!PlanError
    <2>2. traces \in Seq(TraceAnswers)
      BY <2>1
    <2> QED
      BY <2>1, <2>2 DEF TraceInv
  <1>2. TraceInv /\ [MCNext]_mcVars => TraceInv'
    <2> SUFFICES ASSUME TraceInv, [MCNext]_mcVars PROVE TraceInv'
      OBVIOUS
    <2>1. Trace!Next \/ UNCHANGED traceVars
      BY DEF MCNext, mcVars
    <2>2. CASE UNCHANGED traceVars
      <3>1. UNCHANGED plan /\ UNCHANGED <<tracePc, tag, mesh, traces, traced>>
        BY <2>2 DEF traceVars
      <3>2. TraceAnswers' = TraceAnswers
        BY <3>1, SameAnswers
      <3> QED
        BY <3>1, <3>2 DEF TraceInv, GoodPlan
    <2> QED
      BY <2>1, <2>2, TraceStep
  <1> QED
    BY <1>1, <1>2, PTL DEF MCSpec

\* Every plan is a whole number of hops that fits a packet, and hop h of it is
\* a prefix of the route's h-th node, for every out_path_len byte, stored path,
\* key prefix and hash path a target can have (PlanTraceContact,
\* TracePathFromOutPath, ParsePath).
THEOREM PlansFollow == MCSpec => []PlanFollowsRoute
  <1>1. TraceInv => PlanFollowsRoute
    <2> SUFFICES ASSUME TraceInv, plan.ok PROVE Trace!PlanFollowsRoute
      BY DEF PlanFollowsRoute, Trace!PlanFollowsRoute
    <2>1. WholeHops(plan.path, plan.size) /\ 2^plan.flags = plan.size
      BY DEF TraceInv, GoodPlan
    <2> QED
      BY <2>1, HopsOfPath
      DEF Trace!PlanFollowsRoute, Trace!MaxPathSize,
          Trace!HashSizeFromTraceFlags
  <1> QED
    BY <1>1, TraceInductive, PTL

\* A trace that is returned answers this very attempt, with one measurement per
\* hop and one for the way back, for any number of attempts and any capacity of
\* the traces channel (tracePath, handleAsync).
THEOREM OwnTrace == MCSpec => []TraceIsOwn
  <1>1. TraceInv => TraceIsOwn
    <2> SUFFICES ASSUME TraceInv, tracePc = "done" PROVE Trace!TraceIsOwn
      BY DEF TraceIsOwn, Trace!TraceIsOwn
    <2>1. traced.tag = tag /\ 2^plan.flags = plan.size
      BY DEF TraceInv, GoodPlan
    <2>2. PICK g \in Nat : traced = Trace!Answer(g)
      BY DEF TraceInv, TraceAnswers
    <2>3. /\ traced.path = plan.path
          /\ traced.snrs = Len(plan.path) \div 2^plan.flags + 1
      BY <2>2 DEF Trace!Answer
    <2> QED
      BY <2>1, <2>3 DEF Trace!TraceIsOwn, Trace!hopCount
  <1> QED
    BY <1>1, TraceInductive, PTL

-----------------------------------------------------------------------------
(* The channel slots (Channels).                                           *)

Indexed == [index : Slots!Slots, content : Slots!Content]
Operations == [what : {"add", "remove", "send", "sync"}, name : Names,
               key : Keys, clean : BOOLEAN, at : Nat, existing : 0..Slots!NoSlot,
               free : 0..Slots!NoSlot, list : SUBSET Indexed, recorded : SUBSET Indexed]

\* The named slots of s below slot k, which a scan without a misread has read.
Below(s, k) == {e \in Slots!Entries(s) : e.index < k}

\* An operation is a complete record, and a scan reads a slot that exists,
\* except for a number that is none.
OpInv ==
  /\ slots \in [Slots!Slots -> Slots!Content]
  /\ store \subseteq Indexed
  /\ slotPc \in {"idle", "scan", "act", "sync", "insert"}
  /\ slotPc # "idle" => op \in Operations
  /\ slotPc \in {"scan", "act"} => op.what # "sync"
  /\ slotPc = "sync" => op.at < N
  /\ slotPc = "insert" => op.at = N

\* Without a misread, what a scan has gathered is what the radio holds.
ListInv ==
  (\/ slotPc \in {"sync", "insert"}
   \/ slotPc = "scan" /\ op.what \in {"remove", "send"} /\ ~op.name.num)
     => /\ op.at <= N
        /\ slotPc = "scan" => op.at < N
        /\ op.clean => op.list = Below(slots, op.at)

\* Without a misread, the slots AddChannel has found are the right ones.
AddInv ==
  (slotPc \in {"scan", "act"} /\ op.what = "add" /\ op.clean)
     => /\ op.existing \in Slots!Slots =>
             /\ slots[op.existing] # Slots!None
             /\ Slots!EqualFold(slots[op.existing].name, op.name)
        /\ op.free \in Slots!Slots => slots[op.free] = Slots!None

\* Without a misread, the slot a query was resolved to is the one it names.
QueryInv ==
  /\ (slotPc = "scan" /\ op.what \in {"remove", "send"} /\ op.name.num)
       => op.at = op.name.base % 256
  /\ (slotPc = "act" /\ op.what \in {"remove", "send"})
       => /\ op.existing \in Slots!Slots
          /\ op.clean =>
               IF op.name.num THEN op.existing = op.name.base % 256
               ELSE \E e \in Slots!Lookup(Slots!Entries(slots), op.name) :
                      e.index = op.existing

\* A message is stored under what the replica says when it is sent.
RecordedInv ==
  (slotPc \in {"scan", "act"} /\ op.what = "send")
     => op.recorded = Slots!Lookup(store, op.name)

SlotsInv == /\ OpInv /\ ListInv /\ AddInv /\ QueryInv /\ RecordedInv
            /\ Slots!ReplicaIsRadio /\ Slots!SentAsRecorded

LEMMA NameTypes ==
  ASSUME NEW n \in Names
  PROVE  n.base \in Nat /\ n.num \in BOOLEAN
  <1>1. /\ ChannelName(7, FALSE, FALSE).base = 7
        /\ ChannelName(7, TRUE, FALSE).base = 7
        /\ ChannelName(1, FALSE, TRUE).base = 1
        /\ ChannelName(2, FALSE, TRUE).base = 2
        /\ ChannelName(256, FALSE, TRUE).base = 256
    BY DEF ChannelName
  <1>2. \A b, h : /\ ChannelName(b, h, TRUE).num = TRUE
                 /\ ChannelName(b, h, FALSE).num = FALSE
    BY DEF ChannelName
  <1>3. \/ n = ChannelName(7, FALSE, FALSE) \/ n = ChannelName(7, TRUE, FALSE)
        \/ n = ChannelName(1, FALSE, TRUE) \/ n = ChannelName(2, FALSE, TRUE)
        \/ n = ChannelName(256, FALSE, TRUE)
    BY Zenon DEF Names
  <1>4. n.base = 7 \/ n.base = 1 \/ n.base = 2 \/ n.base = 256
    BY <1>1, <1>3, ZenonT(30)
  <1>n. 7 \in Nat /\ 1 \in Nat /\ 2 \in Nat /\ 256 \in Nat
    OBVIOUS
  <1>5. n.base \in Nat
    BY <1>4, <1>n, Zenon
  <1>6. n.num = TRUE \/ n.num = FALSE
    BY <1>2, <1>3, Zenon
  <1> QED
    BY <1>5, <1>6, Zenon

\* NoSlot is no slot of the radio and none that is probed.
LEMMA SlotsAreNaturals ==
  /\ Slots!Slots \subseteq Nat /\ 0 \in Slots!Slots
  /\ Slots!Slots \subseteq 0..Slots!NoSlot
  /\ Slots!NoSlot \in 0..Slots!NoSlot /\ Slots!NoSlot \notin Slots!Slots
  /\ \A k \in Nat : k < N => k \in 0..Slots!NoSlot
  BY MCContactsAssumption DEF Slots!Slots, Slots!NoSlot

\* Entries are indexed by probed slot.
LEMMA EntriesIndexed ==
  ASSUME NEW s \in [Slots!Slots -> Slots!Content]
  PROVE  /\ Slots!Entries(s) \subseteq Indexed
         /\ \A e \in Slots!Entries(s) :
              /\ e.index \in Slots!Slots /\ e.index < N
              /\ s[e.index] # Slots!None
              /\ e.content = s[e.index]
              /\ e = [index |-> e.index, content |-> s[e.index]]
         /\ \A i \in Slots!Slots : i < N /\ s[i] # Slots!None =>
              [index |-> i, content |-> s[i]] \in Slots!Entries(s)
  BY DEF Slots!Entries, Indexed

LEMMA BelowEnds ==
  ASSUME NEW s \in [Slots!Slots -> Slots!Content]
  PROVE  Below(s, 0) = {} /\ Below(s, N) = Slots!Entries(s)
  <1>1. \A e \in Slots!Entries(s) : e.index \in Nat /\ e.index < N
    BY EntriesIndexed, SlotsAreNaturals
  <1> QED
    BY <1>1 DEF Below

\* Probing slot k without a misread moves the scan on by one.
LEMMA BelowNext ==
  ASSUME slots \in [Slots!Slots -> Slots!Content], NEW k \in Nat, k < N,
         NEW a, a = Slots!Answer(k), op.list = Below(slots, k)
  PROVE  Slots!Listed(a) = Below(slots, k + 1)
  <1>1. \A e \in Slots!Entries(slots) :
          e.index \in Nat /\ (e.index < k + 1 <=> e.index < k \/ e.index = k)
    BY EntriesIndexed, SlotsAreNaturals
  <1>2. CASE k \notin Slots!Slots \/ slots[k] = Slots!None
    <2>1. a.ok = FALSE \/ a.content = Slots!None
      BY <1>2 DEF Slots!Answer
    <2>2. Slots!Listed(a) = op.list
      BY <2>1 DEF Slots!Listed, Slots!Named
    <2>3. \A e \in Slots!Entries(slots) : e.index # k
      BY <1>2, EntriesIndexed
    <2> QED
      BY <1>1, <2>2, <2>3 DEF Below
  <1>3. CASE k \in Slots!Slots /\ slots[k] # Slots!None
    <2>1. a.ok = TRUE /\ a.index = k /\ a.content = slots[k]
      BY <1>3 DEF Slots!Answer
    <2>2. Slots!Listed(a) =
            op.list \union {[index |-> k, content |-> slots[k]]}
      BY <1>3, <2>1 DEF Slots!Listed, Slots!Named
    <2>3. /\ [index |-> k, content |-> slots[k]] \in Slots!Entries(slots)
          /\ \A e \in Slots!Entries(slots) :
               e.index = k <=> e = [index |-> k, content |-> slots[k]]
      BY <1>3, EntriesIndexed
    <2> QED
      BY <1>1, <2>2, <2>3 DEF Below
  <1> QED
    BY <1>2, <1>3

\* Of a list with one entry per slot, UpsertChannels keeps every one.
LEMMA SlotsCardinality == \A S : Slots!Cardinality(S) = Cardinality(S)
  BY DEF Slots!Cardinality, Cardinality

LEMMA KeptIsAll ==
  ASSUME NEW rows, NEW kept \in SUBSET rows,
         \A e, f \in rows : e.index = f.index => e = f,
         \A e \in rows : Slots!Cardinality({k \in kept : k.index = e.index}) = 1
  PROVE  kept = rows
  <1> SUFFICES ASSUME NEW e \in rows PROVE e \in kept
    OBVIOUS
  <1>1. Cardinality({k \in kept : k.index = e.index}) = 1
    BY SlotsCardinality
  <1>0. Cardinality({}) = 0
    BY FS_EmptySet
  <1>2. {k \in kept : k.index = e.index} # {}
    BY <1>0, <1>1
  <1>3. PICK k \in kept : k.index = e.index
    BY <1>2
  <1> QED
    BY <1>3

LEMMA AnswerForms ==
  ASSUME NEW a \in Slots!Answers
  PROVE  \/ a.ok = FALSE
         \/ /\ a.ok = TRUE
            /\ \E i \in Slots!Slots : a.index = i /\ a.content = slots[i]
  <1>1. a = [ok |-> FALSE] => a.ok = FALSE
    OBVIOUS
  <1>2. ASSUME NEW i \in Slots!Slots, a = Slots!Answer(i)
        PROVE  a.ok = TRUE /\ a.index = i /\ a.content = slots[i]
    BY <1>2 DEF Slots!Answer
  <1> QED
    BY <1>1, <1>2 DEF Slots!Answers

LEMMA ListedType ==
  ASSUME OpInv, op \in Operations, NEW a \in Slots!Answers
  PROVE  /\ Slots!Listed(a) \subseteq Indexed
         /\ a.ok => a.index \in Slots!Slots
  <1>1. CASE a.ok = FALSE
    BY <1>1 DEF Slots!Listed, Slots!Named, Operations
  <1>2. ASSUME NEW i \in Slots!Slots, a.index = i, a.content = slots[i]
        PROVE  Slots!Listed(a) \subseteq Indexed
    <2>1. slots[i] \in Slots!Content /\ op.list \subseteq Indexed
      BY DEF OpInv, Operations
    <2>2. [index |-> a.index, content |-> a.content] \in Indexed
      BY <1>2, <2>1 DEF Indexed
    <2> QED
      BY <2>1, <2>2 DEF Slots!Listed
  <1> QED
    BY <1>1, <1>2, AnswerForms, Zenon

\* The answer to the request itself tells what is in the slot.
LEMMA TrueAnswer ==
  ASSUME NEW a, a = Slots!Answer(op.at), op.at \in Nat
  PROVE  /\ op.at \in Slots!Slots =>
              a.ok = TRUE /\ a.index = op.at /\ a.content = slots[op.at]
         /\ op.at \notin Slots!Slots => a.ok = FALSE
  BY DEF Slots!Answer

LEMMA SameReplica ==
  ASSUME SlotsInv, UNCHANGED <<slots, store, mirrored, sent>>
  PROVE  Slots!ReplicaIsRadio' /\ Slots!SentAsRecorded'
  BY DEF SlotsInv, Slots!ReplicaIsRadio, Slots!SentAsRecorded, Slots!Entries

\* An operation that ends leaves nothing of itself.
LEMMA Finished ==
  ASSUME SlotsInv, slotPc' = "idle", UNCHANGED <<slots, store, mirrored, sent>>
  PROVE  SlotsInv'
  <1>1. OpInv' /\ ListInv' /\ AddInv' /\ QueryInv' /\ RecordedInv'
    BY DEF SlotsInv, OpInv, ListInv, AddInv, QueryInv, RecordedInv
  <1>2. Slots!ReplicaIsRadio' /\ Slots!SentAsRecorded'
    BY SameReplica
  <1> QED
    BY <1>1, <1>2 DEF SlotsInv

LEMMA StartStep ==
  ASSUME SlotsInv, NEW what \in {"add", "remove", "send", "sync"},
         NEW name \in Names, NEW key \in Keys, Slots!Start(what, name, key)
  PROVE  SlotsInv'
  <1>1. /\ op' = [what |-> what, name |-> name, key |-> key, clean |-> TRUE,
                  at |-> IF what \in {"remove", "send"} /\ name.num
                         THEN name.base % 256 ELSE 0,
                  existing |-> Slots!NoSlot, free |-> Slots!NoSlot, list |-> {},
                  recorded |-> Slots!Lookup(store, name)]
        /\ slotPc' = IF what = "sync" THEN "sync" ELSE "scan"
        /\ UNCHANGED <<slots, store, mirrored, sent>>
    BY DEF Slots!Start
  <1>2. /\ store \subseteq Indexed /\ Slots!Lookup(store, name) \subseteq Indexed
        /\ slots \in [Slots!Slots -> Slots!Content]
    BY DEF SlotsInv, OpInv, Slots!Lookup
  <1>3. name.base \in Nat /\ name.base % 256 \in Nat /\ N \in Nat /\ 0 < N
    BY NameTypes, MCContactsAssumption
  <1>4. op' \in Operations
    BY <1>1, <1>2, <1>3, SlotsAreNaturals DEF Operations
  <1>5. /\ op'.what = what /\ op'.name = name /\ op'.existing = Slots!NoSlot
        /\ op'.free = Slots!NoSlot /\ op'.list = {}
        /\ op'.recorded = Slots!Lookup(store, name)
    BY <1>1
  <1>6. /\ what \in {"remove", "send"} /\ name.num => op'.at = name.base % 256
        /\ ~(what \in {"remove", "send"} /\ name.num) => op'.at = 0
    BY <1>1
  <1>7. OpInv'
    BY <1>1, <1>2, <1>3, <1>4, <1>5, <1>6 DEF OpInv
  <1>8. ListInv'
    BY <1>1, <1>2, <1>3, <1>5, <1>6, BelowEnds DEF ListInv
  <1>9. AddInv' /\ QueryInv'
    BY <1>1, <1>3, <1>5, <1>6, SlotsAreNaturals DEF AddInv, QueryInv
  <1>10. RecordedInv'
    <2>1. Slots!Lookup(store, name)' = Slots!Lookup(store, name)
      BY <1>1 DEF Slots!Lookup
    <2> QED
      BY <1>1, <1>5 DEF RecordedInv, Slots!Lookup
  <1> QED
    BY <1>1, <1>7, <1>8, <1>9, <1>10, SameReplica DEF SlotsInv

LEMMA AddScanStep ==
  ASSUME SlotsInv, NEW a \in Slots!Answers, Slots!AddScan(a)
  PROVE  SlotsInv'
  <1>1. /\ slotPc = "scan" /\ op.what = "add" /\ op.at < N
        /\ UNCHANGED <<slots, store, mirrored, sent>>
    BY DEF Slots!AddScan
  <1>2. op \in Operations /\ op.at \in Nat
    BY <1>1 DEF SlotsInv, OpInv, Operations
  <1>3. Slots!Clean(a) => op.clean = TRUE /\ a = Slots!Answer(op.at)
    BY <1>2 DEF Slots!Clean, Operations
  <1>4. Slots!Clean(a) \in BOOLEAN
    BY <1>2 DEF Slots!Clean, Operations
  <1>5. CASE Slots!Named(a) /\ Slots!EqualFold(a.content.name, op.name)
    <2>1. /\ op' = [op EXCEPT !.existing = op.at, !.clean = Slots!Clean(a)]
          /\ slotPc' = "act"
      BY <1>5 DEF Slots!AddScan
    <2>g. op.at \in 0..Slots!NoSlot
      BY <1>1, <1>2, SlotsAreNaturals
    <2>2. op' \in Operations
      BY <1>2, <1>4, <2>1, <2>g DEF Operations
    <2>3. /\ op'.what = "add" /\ op'.name = op.name /\ op'.existing = op.at
          /\ op'.free = op.free
      BY <1>1, <1>2, <2>1 DEF Operations
    <2>4. op'.clean = Slots!Clean(a)
      BY <1>2, <2>1, Zenon DEF Operations
    <2>5. OpInv' /\ ListInv' /\ QueryInv' /\ RecordedInv'
      BY <1>1, <2>1, <2>2, <2>3
      DEF SlotsInv, OpInv, ListInv, QueryInv, RecordedInv
    <2>6. AddInv'
      <3> SUFFICES ASSUME Slots!Clean(a)
          PROVE  /\ slots[op.at] # Slots!None
                 /\ Slots!EqualFold(slots[op.at].name, op.name)
                 /\ op.free \in Slots!Slots => slots[op.free] = Slots!None
        BY <1>1, <2>1, <2>3, <2>4 DEF AddInv, Slots!EqualFold
      <3>1. op.clean = TRUE /\ a.content = slots[op.at]
        BY <1>2, <1>3, <1>5, TrueAnswer DEF Slots!Named
      <3> QED
        BY <1>1, <1>5, <3>1 DEF SlotsInv, AddInv, Slots!Named
    <2> QED
      BY <1>1, <2>5, <2>6, SameReplica DEF SlotsInv
  <1>6. CASE ~(Slots!Named(a) /\ Slots!EqualFold(a.content.name, op.name))
    <2> DEFINE f == IF ~Slots!Named(a) /\ op.free = Slots!NoSlot THEN op.at ELSE op.free
    <2>1. /\ op' = [op EXCEPT !.at = op.at + 1, !.clean = Slots!Clean(a),
                              !.free = f]
          /\ slotPc' \in {"act", "scan"}
      BY <1>6 DEF Slots!AddScan
    <2>f. f \in 0..Slots!NoSlot
      BY <1>1, <1>2, SlotsAreNaturals DEF Operations
    <2>g. op.at + 1 \in Nat
      BY <1>2
    <2> HIDE DEF f
    <2>2. op' \in Operations
      BY <1>1, <1>2, <1>4, <2>1, <2>f, <2>g DEF Operations
    <2>3. /\ op'.what = "add" /\ op'.name = op.name
          /\ op'.existing = op.existing /\ op'.free = f
      BY <1>1, <1>2, <2>1 DEF Operations
    <2>4. op'.clean = Slots!Clean(a)
      BY <1>2, <2>1, Zenon DEF Operations
    <2>5. OpInv' /\ ListInv' /\ QueryInv' /\ RecordedInv'
      BY <1>1, <2>1, <2>2, <2>3
      DEF SlotsInv, OpInv, ListInv, QueryInv, RecordedInv
    <2>6. AddInv'
      <3> SUFFICES ASSUME Slots!Clean(a)
          PROVE  /\ op.existing \in Slots!Slots =>
                      /\ slots[op.existing] # Slots!None
                      /\ Slots!EqualFold(slots[op.existing].name, op.name)
                 /\ f \in Slots!Slots => slots[f] = Slots!None
        BY <1>1, <2>1, <2>3, <2>4 DEF AddInv, Slots!EqualFold
      <3>1. /\ op.clean = TRUE
            /\ op.at \in Slots!Slots => a.content = slots[op.at] /\ a.ok = TRUE
        BY <1>2, <1>3, TrueAnswer
      <3>2. f \in Slots!Slots => slots[f] = Slots!None
        BY <1>1, <3>1 DEF SlotsInv, AddInv, Slots!Named, f
      <3> QED
        BY <1>1, <3>1, <3>2 DEF SlotsInv, AddInv
    <2> QED
      BY <1>1, <2>5, <2>6, SameReplica DEF SlotsInv
  <1> QED
    BY <1>5, <1>6

LEMMA LookupScanStep ==
  ASSUME SlotsInv, NEW a \in Slots!Answers, Slots!LookupScan(a)
  PROVE  SlotsInv'
  <1>1. /\ slotPc = "scan" /\ op.what \in {"remove", "send"}
        /\ UNCHANGED <<slots, store, mirrored, sent>>
    BY DEF Slots!LookupScan
  <1>2. op \in Operations /\ op.at \in Nat /\ op.name \in Names
    BY <1>1 DEF SlotsInv, OpInv, Operations
  <1>3. Slots!Clean(a) => op.clean = TRUE /\ a = Slots!Answer(op.at)
    BY <1>2 DEF Slots!Clean, Operations
  <1>4. Slots!Clean(a) \in BOOLEAN
    BY <1>2 DEF Slots!Clean, Operations
  <1>5. /\ slots \in [Slots!Slots -> Slots!Content]
        /\ Slots!Listed(a) \subseteq Indexed
        /\ a.ok => a.index \in Slots!Slots
    BY <1>2, ListedType DEF SlotsInv, OpInv
  <1>6. ASSUME NEW x \in Slots!Slots, slotPc' = "act",
               op' = [op EXCEPT !.existing = x, !.clean = Slots!Clean(a)],
               Slots!Clean(a) =>
                 IF op.name.num THEN x = op.name.base % 256
                 ELSE \E e \in Slots!Lookup(Slots!Entries(slots), op.name) :
                        e.index = x
        PROVE  SlotsInv'
    <2>0. x \in 0..Slots!NoSlot
      BY <1>6, SlotsAreNaturals
    <2>1. op' \in Operations
      BY <1>2, <1>4, <1>6, <2>0 DEF Operations
    <2>2. /\ op'.what = op.what /\ op'.name = op.name /\ op'.existing = x
          /\ op'.recorded = op.recorded
      BY <1>2, <1>6 DEF Operations
    <2>3. op'.clean = Slots!Clean(a)
      BY <1>2, <1>6, Zenon DEF Operations
    <2>4. OpInv' /\ ListInv' /\ AddInv'
      BY <1>1, <1>6, <2>1, <2>2 DEF SlotsInv, OpInv, ListInv, AddInv
    <2>5. QueryInv'
      BY <1>1, <1>6, <2>0, <2>2, <2>3
      DEF QueryInv, Slots!Lookup, Slots!Entries, Slots!Matches
    <2>6. RecordedInv'
      BY <1>1, <2>2 DEF SlotsInv, RecordedInv, Slots!Lookup, Slots!Matches
    <2> QED
      BY <1>1, <2>4, <2>5, <2>6, SameReplica DEF SlotsInv
  <1>7. CASE op.name.num
    <2>1. CASE a.ok
      <3>1. /\ op' = [op EXCEPT !.existing = a.index, !.clean = Slots!Clean(a)]
            /\ slotPc' = "act"
        BY <1>7, <2>1 DEF Slots!LookupScan
      <3>2. a.ok # FALSE /\ a.index \in Slots!Slots
        BY <1>5, <2>1, Zenon
      <3>3. op.at = op.name.base % 256
        BY <1>1, <1>7 DEF SlotsInv, QueryInv
      <3>4. Slots!Clean(a) => a.index = op.name.base % 256
        BY <1>2, <1>3, <3>2, <3>3, TrueAnswer
      <3> QED
        BY <1>6, <1>7, <3>1, <3>2, <3>4
    <2>2. CASE ~a.ok
      BY <1>1, <1>7, <2>2, Finished DEF Slots!LookupScan, Slots!Finish
    <2> QED
      BY <2>1, <2>2
  <1>8. CASE ~op.name.num
    <2>1. /\ op.at < N
          /\ op.clean = TRUE => op.list = Below(slots, op.at)
      BY <1>1, <1>8 DEF SlotsInv, ListInv
    <2>2. Slots!Clean(a) => Slots!Listed(a) = Below(slots, op.at + 1)
      BY <1>2, <1>3, <1>5, <2>1, BelowNext
    <2>3. CASE op.at + 1 < N
      <3>1. /\ op' = [op EXCEPT !.at = op.at + 1, !.list = Slots!Listed(a),
                                !.clean = Slots!Clean(a)]
            /\ slotPc' = "scan"
        BY <1>1, <1>8, <2>3 DEF Slots!LookupScan
      <3>2. op.at + 1 \in Nat /\ op.at + 1 <= N
        BY <1>2, <2>3, MCContactsAssumption
      <3>3. op' \in Operations
        BY <1>2, <1>4, <1>5, <3>1, <3>2 DEF Operations
      <3>4. /\ op'.what = op.what /\ op'.name = op.name
            /\ op'.at = op.at + 1 /\ op'.list = Slots!Listed(a)
            /\ op'.recorded = op.recorded
        BY <1>2, <3>1 DEF Operations
      <3>5. op'.clean = Slots!Clean(a)
        BY <1>2, <3>1, Zenon DEF Operations
      <3>6. OpInv' /\ AddInv' /\ QueryInv'
        BY <1>1, <1>8, <3>1, <3>3, <3>4
        DEF SlotsInv, OpInv, AddInv, QueryInv
      <3>7. ListInv'
        BY <1>1, <2>2, <2>3, <3>1, <3>2, <3>4, <3>5
        DEF ListInv, Below, Slots!Entries
      <3>8. RecordedInv'
        BY <1>1, <3>4 DEF SlotsInv, RecordedInv, Slots!Lookup, Slots!Matches
      <3> QED
        BY <1>1, <3>6, <3>7, <3>8, SameReplica DEF SlotsInv
    <2>4. CASE ~(op.at + 1 < N) /\ Slots!Lookup(Slots!Listed(a), op.name) = {}
      BY <1>1, <1>8, <2>4, Finished DEF Slots!LookupScan, Slots!Finish
    <2>5. CASE ~(op.at + 1 < N) /\ Slots!Lookup(Slots!Listed(a), op.name) # {}
      <3> DEFINE e == CHOOSE e \in Slots!Lookup(Slots!Listed(a), op.name) : TRUE
      <3>1. /\ op' = [op EXCEPT !.existing = e.index, !.clean = Slots!Clean(a)]
            /\ slotPc' = "act"
        BY <1>8, <2>5 DEF Slots!LookupScan
      <3>2. e \in Slots!Lookup(Slots!Listed(a), op.name)
        BY <2>5
      <3> HIDE DEF e
      <3>3. e.index \in Slots!Slots
        BY <1>5, <3>2 DEF Slots!Lookup, Indexed
      <3>4. op.at + 1 = N
        BY <1>2, <2>1, <2>5, MCContactsAssumption
      <3>5. Slots!Clean(a) => Slots!Listed(a) = Slots!Entries(slots)
        BY <1>5, <2>2, <3>4, BelowEnds
      <3> QED
        BY <1>6, <1>8, <3>1, <3>2, <3>3, <3>5
    <2> QED
      BY <2>3, <2>4, <2>5
  <1> QED
    BY <1>7, <1>8

LEMMA SetChannelStep ==
  ASSUME SlotsInv, Slots!SetChannelAt
  PROVE  SlotsInv'
  <1> DEFINE t == Slots!Target
             c == IF op.what = "add" THEN [name |-> op.name, key |-> op.key]
                  ELSE Slots!None
  <1>1. /\ slotPc = "act" /\ t \in Slots!Slots
        /\ slots' = [slots EXCEPT ![t] = c]
        /\ mirrored' = FALSE /\ UNCHANGED <<store, sent>>
    BY DEF Slots!SetChannelAt
  <1>2. op \in Operations
    BY <1>1 DEF SlotsInv, OpInv
  <1>3. c \in Slots!Content
    BY <1>2 DEF Operations, Slots!Content
  <1> HIDE DEF t, c
  <1>4. slots' \in [Slots!Slots -> Slots!Content] /\ store' \subseteq Indexed
    BY <1>1, <1>2, <1>3 DEF SlotsInv, OpInv
  <1>5. Slots!ReplicaIsRadio' /\ Slots!SentAsRecorded'
    BY <1>1 DEF SlotsInv, Slots!ReplicaIsRadio, Slots!SentAsRecorded
  <1>6. CASE slotPc' = "idle"
    BY <1>4, <1>5, <1>6
    DEF SlotsInv, OpInv, ListInv, AddInv, QueryInv, RecordedInv
  <1>7. CASE /\ slotPc' = "sync"
             /\ op' = [op EXCEPT !.at = 0, !.list = {}, !.clean = TRUE]
    <2>1. op' \in Operations /\ op'.at = 0 /\ op'.list = {}
      BY <1>2, <1>7 DEF Operations
    <2>2. Below(slots', 0) = {} /\ 0 < N /\ 0 <= N
      BY <1>4, BelowEnds, MCContactsAssumption
    <2>3. OpInv'
      BY <1>4, <1>7, <2>1, <2>2 DEF OpInv
    <2>4. ListInv' /\ AddInv' /\ QueryInv' /\ RecordedInv'
      BY <1>7, <2>1, <2>2 DEF ListInv, AddInv, QueryInv, RecordedInv
    <2> QED
      BY <1>5, <2>3, <2>4 DEF SlotsInv
  <1> QED
    BY <1>6, <1>7 DEF Slots!SetChannelAt, Slots!Finish

LEMMA SyncScanStep ==
  ASSUME SlotsInv, NEW a \in Slots!Answers, Slots!SyncScan(a)
  PROVE  SlotsInv'
  <1>1. /\ slotPc = "sync" /\ op.at < N
        /\ slotPc' = IF op.at + 1 = N THEN "insert" ELSE "sync"
        /\ op' = [op EXCEPT !.at = op.at + 1, !.list = Slots!Listed(a),
                            !.clean = Slots!Clean(a)]
        /\ UNCHANGED <<slots, store, mirrored, sent>>
    BY DEF Slots!SyncScan, SlotsInv, OpInv
  <1>2. op \in Operations /\ op.at \in Nat
    BY <1>1 DEF SlotsInv, OpInv, Operations
  <1>3. Slots!Clean(a) => op.clean = TRUE /\ a = Slots!Answer(op.at)
    BY <1>2 DEF Slots!Clean, Operations
  <1>4. Slots!Clean(a) \in BOOLEAN
    BY <1>2 DEF Slots!Clean, Operations
  <1>5. /\ slots \in [Slots!Slots -> Slots!Content]
        /\ Slots!Listed(a) \subseteq Indexed
    BY <1>2, ListedType DEF SlotsInv, OpInv
  <1>6. op.at + 1 \in Nat /\ op.at + 1 <= N /\ (op.at + 1 # N => op.at + 1 < N)
    BY <1>1, <1>2, MCContactsAssumption
  <1>7. op' \in Operations
    BY <1>1, <1>2, <1>4, <1>5, <1>6 DEF Operations
  <1>8. op'.at = op.at + 1 /\ op'.list = Slots!Listed(a)
    BY <1>1, <1>2 DEF Operations
  <1>9. op'.clean = Slots!Clean(a)
    BY <1>1, <1>2, Zenon DEF Operations
  <1>10. op.clean = TRUE => op.list = Below(slots, op.at)
    BY <1>1 DEF SlotsInv, ListInv
  <1>11. Slots!Clean(a) => Slots!Listed(a) = Below(slots, op.at + 1)
    BY <1>1, <1>2, <1>3, <1>5, <1>10, BelowNext
  <1>12. OpInv'
    BY <1>1, <1>6, <1>7, <1>8 DEF SlotsInv, OpInv
  <1>13. ListInv'
    BY <1>1, <1>6, <1>8, <1>9, <1>11 DEF ListInv, Below, Slots!Entries
  <1>14. AddInv' /\ QueryInv' /\ RecordedInv'
    BY <1>1 DEF AddInv, QueryInv, RecordedInv
  <1> QED
    BY <1>1, <1>12, <1>13, <1>14, SameReplica DEF SlotsInv

LEMMA UpsertStep ==
  ASSUME SlotsInv, Slots!UpsertChannels
  PROVE  SlotsInv'
  <1>1. /\ slotPc = "insert" /\ slotPc' = "idle" /\ mirrored' = op.clean
        /\ UNCHANGED <<slots, sent>>
    BY DEF Slots!UpsertChannels, Slots!Finish
  <1>2. PICK kept \in SUBSET op.list :
          /\ \A e \in op.list :
               Slots!Cardinality({k \in kept : k.index = e.index}) = 1
          /\ store' = kept
    BY DEF Slots!UpsertChannels
  <1>3. /\ op.list \subseteq Indexed /\ op.clean \in BOOLEAN
        /\ slots \in [Slots!Slots -> Slots!Content]
    BY <1>1 DEF SlotsInv, OpInv, Operations
  <1>4. op.clean => op.list = Slots!Entries(slots)
    BY <1>1, <1>3, BelowEnds DEF SlotsInv, OpInv, ListInv
  <1>5. Slots!ReplicaIsRadio'
    <2> SUFFICES ASSUME op.clean PROVE store' = Slots!Entries(slots)
      BY <1>1 DEF Slots!ReplicaIsRadio, Slots!Entries
    <2>1. \A e, f \in op.list : e.index = f.index => e = f
      BY <1>3, <1>4, EntriesIndexed
    <2>2. kept = op.list
      BY <1>2, <2>1, KeptIsAll
    <2> QED
      BY <1>2, <1>4, <2>2
  <1>6. Slots!SentAsRecorded'
    BY <1>1 DEF SlotsInv, Slots!SentAsRecorded
  <1>7. OpInv' /\ ListInv' /\ AddInv' /\ QueryInv' /\ RecordedInv'
    BY <1>1, <1>2, <1>3
    DEF SlotsInv, OpInv, ListInv, AddInv, QueryInv, RecordedInv
  <1> QED
    BY <1>5, <1>6, <1>7 DEF SlotsInv

LEMMA SendOnStep ==
  ASSUME SlotsInv, Slots!SendOn
  PROVE  SlotsInv'
  <1>1. /\ slotPc = "act" /\ op.what = "send" /\ slotPc' = "idle"
        /\ UNCHANGED <<slots, store, mirrored>>
        /\ sent' = [slot |-> op.existing, recorded |-> op.recorded,
                    clean |-> op.clean, mirrored |-> mirrored,
                    name |-> op.name, content |-> slots[op.existing]]
    BY DEF Slots!SendOn, Slots!Finish
  <1>2. /\ op \in Operations /\ op.name \in Names
        /\ slots \in [Slots!Slots -> Slots!Content]
        /\ op.existing \in Slots!Slots /\ op.recorded = Slots!Lookup(store, op.name)
    BY <1>1 DEF SlotsInv, OpInv, QueryInv, RecordedInv, Operations
  <1>3. ASSUME mirrored, op.clean, slots[op.existing] # Slots!None,
               op.existing < N, op.name.base < 256
        PROVE  \E e \in op.recorded : e.index = op.existing
    <2>1. store = Slots!Entries(slots)
      BY <1>3 DEF SlotsInv, Slots!ReplicaIsRadio
    <2>2. CASE op.name.num
      <3>1. op.existing = op.name.base
        BY <1>1, <1>2, <1>3, <2>2, NameTypes DEF SlotsInv, QueryInv
      <3>2. [index |-> op.existing, content |-> slots[op.existing]] \in store
        BY <1>2, <1>3, <2>1, EntriesIndexed
      <3> QED
        BY <1>2, <2>2, <3>1, <3>2 DEF Slots!Lookup
    <2>3. CASE ~op.name.num
      BY <1>1, <1>2, <1>3, <2>1, <2>3 DEF SlotsInv, QueryInv
    <2> QED
      BY <2>2, <2>3
  <1>4. Slots!SentAsRecorded'
    <2>1. /\ sent'.slot = op.existing /\ sent'.recorded = op.recorded
          /\ sent'.name = op.name /\ sent'.content = slots[op.existing]
      BY <1>1
    <2>2. sent'.mirrored = mirrored /\ sent'.clean = op.clean
      BY <1>1, Zenon
    <2> QED
      BY <1>3, <2>1, <2>2 DEF Slots!SentAsRecorded
  <1>5. Slots!ReplicaIsRadio'
    BY <1>1 DEF SlotsInv, Slots!ReplicaIsRadio, Slots!Entries
  <1>6. OpInv' /\ ListInv' /\ AddInv' /\ QueryInv' /\ RecordedInv'
    BY <1>1 DEF SlotsInv, OpInv, ListInv, AddInv, QueryInv, RecordedInv
  <1> QED
    BY <1>4, <1>5, <1>6 DEF SlotsInv

LEMMA OtherClientStep ==
  ASSUME SlotsInv, NEW i \in Slots!Slots, NEW c \in Slots!Content,
         Slots!OtherClient(i, c)
  PROVE  SlotsInv'
  <1>1. /\ slotPc' = "idle" /\ slots' = [slots EXCEPT ![i] = c]
        /\ mirrored' = FALSE /\ UNCHANGED <<store, sent>>
    BY DEF Slots!OtherClient
  <1>2. OpInv' /\ ListInv' /\ AddInv' /\ QueryInv' /\ RecordedInv'
    BY <1>1 DEF SlotsInv, OpInv, ListInv, AddInv, QueryInv, RecordedInv
  <1>3. Slots!ReplicaIsRadio' /\ Slots!SentAsRecorded'
    BY <1>1 DEF SlotsInv, Slots!ReplicaIsRadio, Slots!SentAsRecorded
  <1> QED
    BY <1>2, <1>3 DEF SlotsInv

LEMMA SlotsStep ==
  ASSUME SlotsInv, Slots!Next
  PROVE  SlotsInv'
  <1>1. CASE \/ \E what \in {"add", "remove", "send"}, n \in Names, k \in Keys :
                  Slots!Start(what, n, k)
             \/ \E n \in Names, k \in Keys : Slots!Start("sync", n, k)
    BY <1>1, StartStep
  <1>2. CASE \E i \in Slots!Slots, c \in Slots!Content : Slots!OtherClient(i, c)
    BY <1>2, OtherClientStep
  <1>3. CASE \E a \in Slots!Answers :
               \/ Slots!AddScan(a) \/ Slots!LookupScan(a) \/ Slots!SyncScan(a)
    BY <1>3, AddScanStep, LookupScanStep, SyncScanStep
  <1>4. CASE \/ Slots!ScanFails \/ Slots!NoFreeSlot \/ Slots!ActRejected
             \/ Slots!StoreFails
    BY <1>4, Finished
    DEF Slots!ScanFails, Slots!NoFreeSlot, Slots!ActRejected, Slots!StoreFails,
        Slots!Finish
  <1> QED
    BY <1>1, <1>2, <1>3, <1>4, SetChannelStep, SendOnStep, UpsertStep
    DEF Slots!Next

LEMMA SlotsInductive == MCSpec => []SlotsInv
  <1>1. MCInit => SlotsInv
    <2> SUFFICES ASSUME Slots!Init PROVE SlotsInv
      BY DEF MCInit
    <2>1. PICK c \in Slots!Content :
            slots = [i \in Slots!Slots |-> IF i = 0 THEN c ELSE Slots!None]
      BY DEF Slots!Init
    <2>2. slots \in [Slots!Slots -> Slots!Content]
      BY <2>1 DEF Slots!Content
    <2>3. OpInv /\ ListInv /\ AddInv /\ QueryInv /\ RecordedInv
      BY <2>2
      DEF Slots!Init, OpInv, ListInv, AddInv, QueryInv, RecordedInv
    <2>4. Slots!ReplicaIsRadio /\ Slots!SentAsRecorded
      BY DEF Slots!Init, Slots!ReplicaIsRadio, Slots!SentAsRecorded
    <2> QED
      BY <2>3, <2>4 DEF SlotsInv
  <1>2. SlotsInv /\ [MCNext]_mcVars => SlotsInv'
    <2> SUFFICES ASSUME SlotsInv, [MCNext]_mcVars PROVE SlotsInv'
      OBVIOUS
    <2>1. Slots!Next \/ UNCHANGED slotVars
      BY DEF MCNext, mcVars
    <2>2. CASE UNCHANGED slotVars
      <3>1. /\ UNCHANGED <<slots, store, mirrored, sent>>
            /\ UNCHANGED <<op, slotPc>>
        BY <2>2 DEF slotVars
      <3>2. OpInv' /\ ListInv' /\ AddInv' /\ QueryInv' /\ RecordedInv'
        BY <3>1
        DEF SlotsInv, OpInv, ListInv, AddInv, QueryInv, RecordedInv, Below,
            Slots!Entries, Slots!Lookup, Slots!Matches, Slots!EqualFold
      <3> QED
        BY <3>1, <3>2, SameReplica DEF SlotsInv
    <2> QED
      BY <2>1, <2>2, SlotsStep
  <1> QED
    BY <1>1, <1>2, PTL DEF MCSpec

\* After a sync without a misread the stored channels are those of the radio's
\* probed slots, and a message to one of these goes out on the slot it was
\* stored under, for any number of slots, probed or not, of operations, failures
\* and misread answers (syncChannels, UpsertChannels, SendChannelText).
THEOREM SlotsKept == MCSpec => []SlotsAgree
  <1>1. SlotsInv => SlotsAgree
    BY DEF SlotsInv, SlotsAgree, Slots!SlotsAgree
  <1> QED
    BY <1>1, SlotsInductive, PTL

\* A write of a slot: AddChannel and RemoveChannel change the slot that was
\* asked for.
LEMMA TargetIsAsked ==
  ASSUME SlotsInv, Slots!SetChannelAt, NEW i \in Slots!Slots,
         op.clean, op.name.base < 256, slots'[i] # slots[i]
  PROVE  IF op.what = "add" THEN Slots!AddKeeps(i) ELSE Slots!RemoveKeeps(i)
  <1>1. /\ slotPc = "act" /\ op.what \in {"add", "remove"}
        /\ i = Slots!Target /\ Slots!Target \in Slots!Slots
    BY DEF Slots!SetChannelAt, SlotsInv, OpInv
  <1>2. /\ op \in Operations /\ op.name \in Names
        /\ slots \in [Slots!Slots -> Slots!Content]
    BY <1>1 DEF SlotsInv, OpInv, Operations
  <1>3. CASE op.what = "add"
    BY <1>1, <1>3, SlotsAreNaturals
    DEF SlotsInv, AddInv, Slots!Target, Slots!AddKeeps
  <1>4. CASE op.what = "remove"
    <2>1. i = op.existing
      BY <1>1, <1>4, SlotsAreNaturals DEF SlotsInv, QueryInv, Slots!Target
    <2>2. CASE op.name.num
      <3>1. op.existing = op.name.base % 256
        BY <1>1, <1>4, <2>2 DEF SlotsInv, QueryInv
      <3>2. op.name.base % 256 = op.name.base
        BY <1>2, NameTypes
      <3> QED
        BY <1>4, <2>1, <2>2, <3>1, <3>2 DEF Slots!RemoveKeeps
    <2>3. CASE ~op.name.num
      <3>1. PICK e \in Slots!Lookup(Slots!Entries(slots), op.name) :
              e.index = op.existing
        BY <1>1, <1>4, <2>3 DEF SlotsInv, QueryInv
      <3>2. /\ e \in Slots!Entries(slots)
            /\ Slots!Matches(e.content.name, op.name)
        BY <2>3, <3>1 DEF Slots!Lookup
      <3>3. slots[i] # Slots!None /\ e.content = slots[i]
        BY <1>2, <2>1, <3>1, <3>2, EntriesIndexed
      <3> QED
        BY <1>4, <2>3, <3>2, <3>3 DEF Slots!RemoveKeeps
    <2> QED
      BY <2>2, <2>3
  <1> QED
    BY <1>1, <1>3, <1>4

\* channel_add never overwrites a slot that holds another channel, and
\* channel_remove clears only a slot its query names, unless an answer was
\* misread or the number does not fit a byte (AddChannel, RemoveChannel).
THEOREM AskedOnly == MCSpec => OnlyAsked
  <1> DEFINE A == \A i \in Slots!Slots :
                    (slotPc = "act" /\ op.clean /\ op.name.base < 256
                       /\ slots'[i] # slots[i])
                      => IF op.what = "add" THEN Slots!AddKeeps(i)
                         ELSE Slots!RemoveKeeps(i)
  <1>1. SlotsInv /\ [MCNext]_mcVars => [A]_(Slots!vars)
    <2> SUFFICES ASSUME SlotsInv, [MCNext]_mcVars,
                        NEW i \in Slots!Slots, slotPc = "act", op.clean,
                        op.name.base < 256, slots'[i] # slots[i]
                 PROVE  IF op.what = "add" THEN Slots!AddKeeps(i)
                        ELSE Slots!RemoveKeeps(i)
      OBVIOUS
    <2>1. Slots!Next
      BY DEF MCNext, mcVars, slotVars
    <2>2. Slots!SetChannelAt
      BY <2>1
      DEF Slots!Next, Slots!Start, Slots!OtherClient, Slots!AddScan,
          Slots!LookupScan, Slots!SyncScan, Slots!ScanFails,
          Slots!NoFreeSlot, Slots!ActRejected, Slots!SendOn,
          Slots!UpsertChannels, Slots!StoreFails
    <2> QED
      BY <2>2, TargetIsAsked
  <1> QED
    BY <1>1, SlotsInductive, PTL
    DEF MCSpec, OnlyAsked, Slots!OnlyAsked

-----------------------------------------------------------------------------
(* ContactBook: the comparison of each column is a strict total order.      *)

\* What a listing may be sorted by.
Columns == {"name", "type", "age", "adv", "route", "key", "distance"}

\* The ranks a column is sorted by are numbers.
LEMMA RanksAreNatural ==
  ASSUME NEW c \in Book
  PROVE  /\ Listing!contactAdvRank(c) \in Nat /\ Listing!contactRouteRank(c) \in Nat
         /\ Listing!contactAgeRank(c.last) \in 0..2
         /\ Listing!contactAgeRank(c.last) = 2 <=> c.last = 0
         /\ Listing!contactAgeRank(c.last) = 1 => c.last > Now
         /\ Listing!contactAgeRank(c.last) = 0 => c.last <= Now
  <1>1. c.enc \in Nat /\ c.last \in Nat /\ Now \in Nat
    BY BookAssumption, MCContactsAssumption
  <1>2. c.enc \div 64 + 1 \in Nat /\ c.enc % 64 \in Nat
    BY <1>1
  <1> QED
    BY <1>1, <1>2
    DEF Listing!contactAdvRank, Listing!contactRouteRank, Listing!contactAgeRank,
        Listing!OutPathUnknown

\* contactNameLess is a strict total order.
LEMMA NameOrder ==
  /\ \A a \in Book : ~Listing!contactNameLess(a, a)
  /\ \A a, b \in Book : a # b => Listing!contactNameLess(a, b) \/ Listing!contactNameLess(b, a)
  /\ \A a, b \in Book : ~(Listing!contactNameLess(a, b) /\ Listing!contactNameLess(b, a))
  /\ \A a, b, c \in Book : Listing!contactNameLess(a, b) /\ Listing!contactNameLess(b, c)
                             => Listing!contactNameLess(a, c)
  BY BookAssumption DEF Listing!contactNameLess

\* So is the order By of a column of numbers.
LEMMA ByOrder ==
  ASSUME NEW f \in [Book -> Int]
  PROVE  /\ \A a \in Book : ~Listing!By(f[a], f[a], a, a)
         /\ \A a, b \in Book : a # b => Listing!By(f[a], f[b], a, b) \/ Listing!By(f[b], f[a], b, a)
         /\ \A a, b, c \in Book : Listing!By(f[a], f[b], a, b) /\ Listing!By(f[b], f[c], b, c)
                                    => Listing!By(f[a], f[c], a, c)
  BY NameOrder DEF Listing!By

\* The comparison of every column is a strict total order.
LEMMA ColumnOrder ==
  ASSUME NEW col \in Columns
  PROVE  /\ \A a \in Book : ~Listing!Less(col, a, a)
         /\ \A a, b \in Book : a # b => Listing!Less(col, a, b) \/ Listing!Less(col, b, a)
         /\ \A a, b, c \in Book : Listing!Less(col, a, b) /\ Listing!Less(col, b, c)
                                    => Listing!Less(col, a, c)
  <1>1. CASE col = "type"
    <2> DEFINE f == [c \in Book |-> c.type]
    <2>1. /\ f \in [Book -> Int]
          /\ \A a, b \in Book : Listing!Less(col, a, b) = Listing!By(f[a], f[b], a, b)
      BY <1>1, BookAssumption DEF Listing!Less
    <2> HIDE DEF f
    <2>2. /\ \A a \in Book : ~Listing!By(f[a], f[a], a, a)
          /\ \A a, b \in Book :
               a # b => Listing!By(f[a], f[b], a, b) \/ Listing!By(f[b], f[a], b, a)
          /\ \A a, b, c \in Book :
               Listing!By(f[a], f[b], a, b) /\ Listing!By(f[b], f[c], b, c)
                 => Listing!By(f[a], f[c], a, c)
      BY <2>1, ByOrder
    <2> QED
      BY <2>1, <2>2
  <1>2. CASE col = "adv"
    <2> DEFINE f == [c \in Book |-> Listing!contactAdvRank(c)]
    <2>1. /\ f \in [Book -> Int]
          /\ \A a, b \in Book : Listing!Less(col, a, b) = Listing!By(f[a], f[b], a, b)
      BY <1>2, RanksAreNatural DEF Listing!Less
    <2> HIDE DEF f
    <2>2. /\ \A a \in Book : ~Listing!By(f[a], f[a], a, a)
          /\ \A a, b \in Book :
               a # b => Listing!By(f[a], f[b], a, b) \/ Listing!By(f[b], f[a], b, a)
          /\ \A a, b, c \in Book :
               Listing!By(f[a], f[b], a, b) /\ Listing!By(f[b], f[c], b, c)
                 => Listing!By(f[a], f[c], a, c)
      BY <2>1, ByOrder
    <2> QED
      BY <2>1, <2>2
  <1>3. CASE col = "route"
    <2> DEFINE f == [c \in Book |-> Listing!contactRouteRank(c)]
    <2>1. /\ f \in [Book -> Int]
          /\ \A a, b \in Book : Listing!Less(col, a, b) = Listing!By(f[a], f[b], a, b)
      BY <1>3, RanksAreNatural DEF Listing!Less
    <2> HIDE DEF f
    <2>2. /\ \A a \in Book : ~Listing!By(f[a], f[a], a, a)
          /\ \A a, b \in Book :
               a # b => Listing!By(f[a], f[b], a, b) \/ Listing!By(f[b], f[a], b, a)
          /\ \A a, b, c \in Book :
               Listing!By(f[a], f[b], a, b) /\ Listing!By(f[b], f[c], b, c)
                 => Listing!By(f[a], f[c], a, c)
      BY <2>1, ByOrder
    <2> QED
      BY <2>1, <2>2
  <1>4. CASE col = "name"
    BY <1>4, NameOrder DEF Listing!Less
  <1>5. CASE col = "key"
    BY <1>5, NameOrder, BookAssumption DEF Listing!Less, Listing!By
  <1>6. CASE col = "distance"
    BY <1>6, NameOrder, BookAssumption DEF Listing!Less, Listing!By
  <1>7. CASE col = "age"
    <2>1. \A a, b \in Book :
            Listing!Less(col, a, b) =
              (LET ra == Listing!contactAgeRank(a.last)
                   rb == Listing!contactAgeRank(b.last)
               IN IF ra # rb THEN ra < rb
                  ELSE IF ra < 2 THEN Listing!By(a.last, b.last, a, b)
                  ELSE Listing!contactNameLess(a, b))
      BY <1>7 DEF Listing!Less
    <2> DEFINE r == [c \in Book |-> Listing!contactAgeRank(c.last)]
               l == [c \in Book |-> c.last]
    <2>2. r \in [Book -> Int] /\ l \in [Book -> Int]
      BY BookAssumption, RanksAreNatural
    <2>3. \A a, b \in Book :
            Listing!Less(col, a, b) = IF r[a] # r[b] THEN r[a] < r[b]
                                      ELSE IF r[a] < 2 THEN Listing!By(l[a], l[b], a, b)
                                      ELSE Listing!contactNameLess(a, b)
      BY <2>1
    <2> HIDE DEF r, l
    <2>4. /\ \A a \in Book : ~Listing!By(l[a], l[a], a, a)
          /\ \A a, b \in Book :
               a # b => Listing!By(l[a], l[b], a, b) \/ Listing!By(l[b], l[a], b, a)
          /\ \A a, b, c \in Book :
               Listing!By(l[a], l[b], a, b) /\ Listing!By(l[b], l[c], b, c)
                 => Listing!By(l[a], l[c], a, c)
      BY <2>2, ByOrder
    <2>5. \A a \in Book : ~Listing!Less(col, a, a)
      BY <2>2, <2>3, <2>4, NameOrder
    <2>6. \A a, b \in Book : a # b => Listing!Less(col, a, b) \/ Listing!Less(col, b, a)
      <3> SUFFICES ASSUME NEW a \in Book, NEW b \in Book, a # b
                   PROVE  Listing!Less(col, a, b) \/ Listing!Less(col, b, a)
        OBVIOUS
      <3>1. r[a] \in Int /\ r[b] \in Int
        BY <2>2
      <3>2. CASE r[a] # r[b]
        <4>1. r[a] < r[b] \/ r[b] < r[a]
          BY <3>1, <3>2
        <4> QED
          BY <2>3, <3>2, <4>1, Zenon
      <3>3. CASE r[a] = r[b]
        BY <2>3, <2>4, <3>3, NameOrder, Zenon
      <3> QED
        BY <3>2, <3>3
    <2>7. \A a, b, c \in Book : Listing!Less(col, a, b) /\ Listing!Less(col, b, c)
                                   => Listing!Less(col, a, c)
      <3> SUFFICES ASSUME NEW a \in Book, NEW b \in Book, NEW c \in Book,
                          Listing!Less(col, a, b), Listing!Less(col, b, c)
                   PROVE  Listing!Less(col, a, c)
        OBVIOUS
      <3>1. r[a] \in Int /\ r[b] \in Int /\ r[c] \in Int
        BY <2>2
      <3>2. r[a] < r[b] \/ r[a] = r[b]
        BY <2>3, Zenon
      <3>3. r[b] < r[c] \/ r[b] = r[c]
        BY <2>3, Zenon
      <3>4. CASE r[a] = r[b] /\ r[b] = r[c]
        BY <2>3, <2>4, <3>4, NameOrder, Zenon
      <3>5. CASE ~(r[a] = r[b] /\ r[b] = r[c])
        <4>1. r[a] # r[c] /\ r[a] < r[c]
          BY <3>1, <3>2, <3>3, <3>5
        <4> QED
          BY <2>3, <4>1, Zenon
      <3> QED
        BY <3>4, <3>5
    <2> QED
      BY <2>5, <2>6, <2>7
  <1> QED
    BY <1>1, <1>2, <1>3, <1>4, <1>5, <1>6, <1>7 DEF Columns

-----------------------------------------------------------------------------
(* Induction over the naturals, from the least element of a set.            *)

\* Some relation orders the naturals and is well-founded.
LEMMA NatOrder ==
  \E R : IsWellFoundedOn(R, Nat) /\ \A n, m \in Nat : n < m => <<n, m>> \in R
  <1> DEFINE R == OpToRel(<, Nat)
  <1>1. IsWellFoundedOn(R, Nat)
    BY NatLessThanWellFounded
  <1>2. \A n, m \in Nat : n < m => <<n, m>> \in R
    BY DEF OpToRel
  <1> QED
    BY <1>1, <1>2, Zenon

\* A set of naturals that is not empty has a least element.
LEMMA LeastOf ==
  ASSUME NEW U, U \subseteq Nat, U # {}
  PROVE  \E n \in U : \A m \in U : n <= m
  <1>1. PICK R : IsWellFoundedOn(R, Nat) /\ \A n, m \in Nat : n < m => <<n, m>> \in R
    BY NatOrder, Zenon
  <1>a. IsWellFoundedOn(R, Nat) /\ U \subseteq Nat /\ U # {}
    BY <1>1
  <1>b. \E x \in U : \A y \in U : ~ (<<y, x>> \in R)
    BY <1>a, WFMin, ZenonT(30)
  <1>2. PICK x \in U : \A y \in U : ~ (<<y, x>> \in R)
    BY <1>b, Zenon
  <1>3. \A y \in U : ~ (y < x)
    BY <1>1, <1>2
  <1> QED
    BY <1>3

\* Induction, with the property given as the set where it holds.
LEMMA SetInduction ==
  ASSUME NEW S, 0 \in S, \A n \in Nat : n \in S => n + 1 \in S
  PROVE  \A n \in Nat : n \in S
  <1> SUFFICES ASSUME NEW n \in Nat, n \notin S PROVE FALSE
    OBVIOUS
  <1> DEFINE T == {m \in Nat : m \notin S}
  <1>1. T \subseteq Nat /\ T # {}
    OBVIOUS
  <1>2. PICK k \in T : \A m \in T : k <= m
    BY <1>1, LeastOf, Zenon
  <1>3. k # 0 /\ k - 1 \in Nat /\ k - 1 \notin T
    BY <1>2
  <1> QED
    BY <1>2, <1>3


-----------------------------------------------------------------------------
(* ContactBook: sorting and filtering.                                     *)

\* The instance has a copy of its own.
LEMMA ListingCardinality == \A S : Listing!Cardinality(S) = Cardinality(S)
  BY DEF Listing!Cardinality, Cardinality

\* r has the contacts of s in the order of the column col.
InOrder(s, r, col) ==
  /\ r \in Seq(Book) /\ Len(r) = Len(s)
  /\ \A k \in 1..Len(s) : \E j \in 1..Len(s) : r[k] = s[j]
  /\ \A j \in 1..Len(s) : \E k \in 1..Len(s) : r[k] = s[j]
  /\ \A i, j \in 1..Len(s) : i < j => Listing!Less(col, r[i], r[j])

\* sortContacts puts a list of distinct contacts in the order of its column:
\* the number of contacts that come before one is its place.
LEMMA SortedList ==
  ASSUME NEW s \in Seq(Book), \A i, j \in 1..Len(s) : s[i] = s[j] => i = j,
         NEW col \in Columns, NEW r, r = Listing!sortContacts(s, col)
  PROVE  InOrder(s, r, col)
  <1> DEFINE n == Len(s)
             D(j) == {i \in 1..n : Listing!Less(col, s[i], s[j])}
             rk == [j \in 1..n |-> Cardinality(D(j)) + 1]
             Before(i, j) == \/ Listing!Less(col, s[i], s[j])
                             \/ (i < j /\ ~Listing!Less(col, s[j], s[i]))
             pl == [k \in 1..n |-> CHOOSE j \in 1..n : rk[j] = k]
  <1>1. n \in Nat /\ DOMAIN s = 1..n /\ \A j \in 1..n : s[j] \in Book
    OBVIOUS
  <1>2. \A i, j \in 1..n : i # j => s[i] # s[j]
    OBVIOUS
  <1>3. /\ \A a \in Book : ~Listing!Less(col, a, a)
        /\ \A a, b \in Book : a # b => Listing!Less(col, a, b) \/ Listing!Less(col, b, a)
        /\ \A a, b, c \in Book : Listing!Less(col, a, b) /\ Listing!Less(col, b, c)
                                   => Listing!Less(col, a, c)
    BY ColumnOrder
  <1> HIDE DEF n
  <1>4. ASSUME NEW j \in 1..n
        PROVE  {i \in DOMAIN s : i # j /\ Before(i, j)} = D(j)
    <2>1. \A i \in 1..n : (i # j /\ Before(i, j)) <=> Listing!Less(col, s[i], s[j])
      BY <1>1, <1>2, <1>3
    <2> QED
      BY <1>1, <2>1
  <1>5. r = [k \in 1..n |-> s[CHOOSE j \in 1..n : rk[j] = k]]
    <2> DEFINE Place(k) == CHOOSE j \in DOMAIN s :
                 Listing!Cardinality({i \in DOMAIN s : i # j /\ Before(i, j)}) + 1 = k
    <2>1. r = [k \in DOMAIN s |-> s[Place(k)]]
      BY Zenon DEF Listing!sortContacts
    <2>2. \A j \in 1..n : Listing!Cardinality({i \in DOMAIN s : i # j /\ Before(i, j)}) + 1 = rk[j]
      BY <1>4, ListingCardinality
    <2>3. \A k : Place(k) = CHOOSE j \in 1..n : rk[j] = k
      <3> HIDE DEF rk, Before
      <3> QED
        BY <1>1, <2>2
    <2> DEFINE Spot(k) == CHOOSE j \in 1..n : rk[j] = k
    <2>4. \A k : Place(k) = Spot(k)
      BY <2>3
    <2> HIDE DEF Place, Spot
    <2>5. r = [k \in 1..n |-> s[Spot(k)]]
      BY <1>1, <2>1, <2>4
    <2> QED
      BY <2>5 DEF Spot
  <1>6. IsFiniteSet(1..n) /\ Cardinality(1..n) = n
    BY <1>1, FS_Interval
  <1>7. ASSUME NEW j \in 1..n
        PROVE  IsFiniteSet(D(j)) /\ Cardinality(D(j)) \in 0..(n - 1)
    <2>1. j \notin D(j) /\ D(j) \subseteq (1..n) \ {j}
      BY <1>1, <1>3
    <2> HIDE DEF D
    <2>2. IsFiniteSet((1..n) \ {j}) /\ Cardinality((1..n) \ {j}) = n - 1
      BY <1>6, FS_RemoveElement
    <2>3. IsFiniteSet(D(j)) /\ Cardinality(D(j)) <= n - 1
      BY <2>1, <2>2, FS_Subset
    <2>4. Cardinality(D(j)) \in Nat
      BY <2>3, FS_CardinalityType
    <2> QED
      BY <1>1, <2>3, <2>4
  <1>8. rk \in [1..n -> 1..n]
    <2> HIDE DEF D
    <2>1. \A j \in 1..n : Cardinality(D(j)) + 1 \in 1..n
      BY <1>1, <1>7
    <2> QED
      BY <2>1
  <1>9. ASSUME NEW i \in 1..n, NEW j \in 1..n, Listing!Less(col, s[i], s[j])
        PROVE  rk[i] < rk[j]
    <2>1. D(i) \subseteq D(j) /\ i \in D(j) /\ i \notin D(i)
      BY <1>1, <1>3, <1>9
    <2>2. IsFiniteSet(D(j)) /\ Cardinality(D(j)) \in Nat /\ Cardinality(D(i)) \in Nat
      <3> HIDE DEF D
      <3>1. \A k \in 1..n : IsFiniteSet(D(k)) /\ Cardinality(D(k)) \in 0..(n - 1)
        BY <1>7
      <3> QED
        BY <1>1, <3>1
    <2>a. rk[i] = Cardinality(D(i)) + 1 /\ rk[j] = Cardinality(D(j)) + 1
      OBVIOUS
    <2> HIDE DEF D, rk
    <2>3. Cardinality(D(i)) <= Cardinality(D(j)) /\ Cardinality(D(i)) # Cardinality(D(j))
      BY <2>1, <2>2, FS_Subset
    <2> QED
      BY <2>2, <2>3, <2>a
  <1> HIDE DEF D, rk
  <1>10. \A i, j \in 1..n : rk[i] = rk[j] => i = j
    <2> SUFFICES ASSUME NEW i \in 1..n, NEW j \in 1..n, i # j PROVE rk[i] # rk[j]
      OBVIOUS
    <2>1. Listing!Less(col, s[i], s[j]) \/ Listing!Less(col, s[j], s[i])
      BY <1>1, <1>2, <1>3
    <2>2. rk[i] < rk[j] \/ rk[j] < rk[i]
      BY <1>9, <2>1
    <2>3. rk[i] \in Int /\ rk[j] \in Int
      BY <1>1, <1>8
    <2> QED
      BY <2>2, <2>3
  <1>11. \A k \in 1..n : \E j \in 1..n : rk[j] = k
    <2>1. rk \in Injection(1..n, 1..n)
      BY <1>8, <1>10 DEF Injection, IsInjective
    <2>2. rk \in Surjection(1..n, 1..n)
      BY <1>6, <2>1, FS_Injection
    <2> QED
      BY <2>2 DEF Surjection
  <1>12. \A k \in 1..n : pl[k] \in 1..n /\ rk[pl[k]] = k /\ r[k] = s[pl[k]]
    BY <1>5, <1>11
  <1> HIDE DEF pl
  <1>13. r \in Seq(Book) /\ Len(r) = n
    <2>1. \A k \in 1..n : r[k] \in Book
      BY <1>1, <1>12
    <2>2. r = [k \in 1..n |-> r[k]]
      BY <1>5
    <2> QED
      BY <1>1, <2>1, <2>2
  <1>14. \A k \in 1..n : \E j \in 1..n : r[k] = s[j]
    BY <1>12
  <1>15. ASSUME NEW j \in 1..n PROVE \E k \in 1..n : r[k] = s[j]
    <2>1. rk[j] \in 1..n
      BY <1>8
    <2>2. pl[rk[j]] = j
      BY <1>10, <1>12, <2>1
    <2> QED
      BY <1>12, <2>1, <2>2
  <1>16. ASSUME NEW i \in 1..n, NEW j \in 1..n, i < j PROVE Listing!Less(col, r[i], r[j])
    <2>1. pl[i] \in 1..n /\ pl[j] \in 1..n /\ rk[pl[i]] = i /\ rk[pl[j]] = j
      BY <1>12
    <2>2. pl[i] # pl[j]
      BY <1>1, <1>16, <2>1
    <2>3. Listing!Less(col, s[pl[i]], s[pl[j]]) \/ Listing!Less(col, s[pl[j]], s[pl[i]])
      BY <1>1, <1>2, <1>3, <2>1, <2>2
    <2>4. ~Listing!Less(col, s[pl[j]], s[pl[i]])
      <3>1. Listing!Less(col, s[pl[j]], s[pl[i]]) => j < i
        BY <1>9, <2>1
      <3> QED
        BY <1>1, <1>16, <3>1
    <2> QED
      BY <1>12, <2>3, <2>4
  <1> QED
    BY <1>13, <1>14, <1>15, <1>16 DEF n, InOrder

\* The filters' loops, step by step.
LEMMA WantedAdded ==
  ASSUME NEW lst, NEW q, Len(lst) \in Nat
  PROVE  \E f : /\ f = [n \in 0..Len(lst) |->
                         IF n = 0 THEN <<>>
                         ELSE IF Listing!Wanted(q, lst[n]) THEN Append(f[n - 1], lst[n])
                         ELSE f[n - 1]]
                /\ Listing!wantedContacts(lst, q) = f[Len(lst)]
  <1> DEFINE Z == Len(lst)
             Grow(old, n) == IF Listing!Wanted(q, lst[n]) THEN Append(old, lst[n]) ELSE old
             Fits(f, m) == f = [n \in 0..m |-> IF n = 0 THEN <<>>
                                               ELSE IF Listing!Wanted(q, lst[n])
                                                    THEN Append(f[n - 1], lst[n])
                                               ELSE f[n - 1]]
             S == {m \in Nat : \E f : Fits(f, m)}
  <1>1. 0 \in S
    <2>1. Fits([n \in 0..0 |-> <<>>], 0)
      OBVIOUS
    <2> QED
      BY <2>1
  <1>2. ASSUME NEW m \in Nat, m \in S PROVE m + 1 \in S
    <2>1. PICK f : Fits(f, m)
      BY <1>2
    <2> DEFINE g == [n \in 0..(m + 1) |-> IF n = m + 1 THEN Grow(f[m], m + 1) ELSE f[n]]
    <2>2. \A n \in 0..m : f[n] = IF n = 0 THEN <<>> ELSE Grow(f[n - 1], n)
      BY <2>1
    <2>3. \A n \in 0..m : g[n] = f[n]
      BY <1>2
    <2>4. g[m + 1] = Grow(f[m], m + 1)
      BY <1>2
    <2>5. ASSUME NEW n \in 0..(m + 1)
          PROVE  g[n] = IF n = 0 THEN <<>> ELSE Grow(g[n - 1], n)
      <3> HIDE DEF g, Grow
      <3>1. CASE n = 0
        BY <1>2, <2>2, <2>3, <3>1
      <3>2. CASE n # 0 /\ n # m + 1
        <4>1. n \in 0..m /\ n - 1 \in 0..m
          BY <1>2, <3>2
        <4> QED
          BY <2>2, <2>3, <3>2, <4>1
      <3>3. CASE n = m + 1
        <4>1. n - 1 = m /\ m \in 0..m /\ n # 0
          BY <1>2, <3>3
        <4> QED
          BY <2>3, <2>4, <3>3, <4>1
      <3> QED
        BY <3>1, <3>2, <3>3
    <2>6. Fits(g, m + 1)
      <3>1. g = [n \in 0..(m + 1) |-> g[n]]
        OBVIOUS
      <3> HIDE DEF g
      <3> QED
        BY <2>5, <3>1
    <2>7. \E h : Fits(h, m + 1)
      <3> HIDE DEF g, Fits
      <3> QED
        BY <2>6, Zenon
    <2>8. m + 1 \in Nat
      BY <1>2
    <2> QED
      <3> HIDE DEF Fits
      <3> QED
        BY <2>7, <2>8, Zenon
  <1>3. Z \in S
    <2> HIDE DEF S
    <2> QED
      BY <1>1, <1>2, SetInduction
  <1>4. \E f : Fits(f, Z)
    BY <1>3
  <1>5. LET f == CHOOSE f : Fits(f, Z)
        IN Fits(f, Z) /\ Listing!wantedContacts(lst, q) = f[Z]
    BY <1>4 DEF Listing!wantedContacts
  <1> QED
    BY <1>5

\* A list of contacts in which each stands once.
Proper(s) == s \in Seq(Book) /\ \A i, j \in 1..Len(s) : s[i] = s[j] => i = j

\* The filters keep the contacts wanted, each once: by induction over the list.
LEMMA WantedKept ==
  ASSUME NEW lst, Proper(lst), NEW q
  PROVE  LET s == Listing!wantedContacts(lst, q) IN
         /\ Proper(s)
         /\ \A i \in 1..Len(s) : \E j \in 1..Len(lst) : lst[j] = s[i] /\ Listing!Wanted(q, s[i])
         /\ \A j \in 1..Len(lst) : Listing!Wanted(q, lst[j]) => \E i \in 1..Len(s) : s[i] = lst[j]
  <1> DEFINE Z == Len(lst)
  <1>1. Z \in Nat /\ lst \in Seq(Book) /\ \A n \in 1..Z : lst[n] \in Book
    BY DEF Proper
  <1>2. PICK f : /\ f = [n \in 0..Z |-> IF n = 0 THEN <<>>
                                        ELSE IF Listing!Wanted(q, lst[n])
                                             THEN Append(f[n - 1], lst[n]) ELSE f[n - 1]]
                 /\ Listing!wantedContacts(lst, q) = f[Z]
    BY <1>1, WantedAdded
  <1> DEFINE Good(s, n) ==
        /\ Proper(s)
        /\ \A i \in 1..Len(s) : \E j \in 1..n : lst[j] = s[i] /\ Listing!Wanted(q, s[i])
        /\ \A j \in 1..n : Listing!Wanted(q, lst[j]) => \E i \in 1..Len(s) : s[i] = lst[j]
      S == {n \in Nat : n \in 0..Z => Good(f[n], n)}
  <1>3. 0 \in S
    <2>1. f[0] = <<>>
      BY <1>1, <1>2
    <2>2. Good(<<>>, 0)
      BY DEF Proper
    <2> HIDE DEF Good
    <2> QED
      BY <2>1, <2>2
  <1>4. ASSUME NEW n \in Nat, n \in S, n + 1 \in 0..Z PROVE Good(f[n + 1], n + 1)
    <2>1. n \in 0..Z /\ n + 1 \in 1..Z /\ n + 1 # 0 /\ (n + 1) - 1 = n
      BY <1>1, <1>4
    <2>2. f[n + 1] = IF Listing!Wanted(q, lst[n + 1]) THEN Append(f[n], lst[n + 1]) ELSE f[n]
      <3>1. \A m \in 0..Z : f[m] = IF m = 0 THEN <<>>
                                   ELSE IF Listing!Wanted(q, lst[m])
                                        THEN Append(f[m - 1], lst[m]) ELSE f[m - 1]
        BY <1>2
      <3>2. f[n + 1] = IF n + 1 = 0 THEN <<>>
                       ELSE IF Listing!Wanted(q, lst[n + 1])
                            THEN Append(f[(n + 1) - 1], lst[n + 1]) ELSE f[(n + 1) - 1]
        BY <1>4, <3>1, Zenon
      <3> QED
        BY <2>1, <3>2, Zenon
    <2>3. Good(f[n], n)
      BY <1>4, <2>1
    <2>4. \A j \in 1..(n + 1) : j \in 1..n \/ j = n + 1
      BY <1>4
    <2>5. \A j \in 1..n : j \in 1..(n + 1)
      BY <1>4
    <2>6. CASE ~Listing!Wanted(q, lst[n + 1])
      <3>1. f[n + 1] = f[n]
        BY <2>2, <2>6
      <3> QED
        BY <2>3, <2>4, <2>5, <2>6, <3>1
    <2>7. CASE Listing!Wanted(q, lst[n + 1])
      <3> DEFINE old == f[n]
                 new == f[n + 1]
                 e == lst[n + 1]
                 k == Len(old)
      <3>1. new = Append(old, e)
        BY <2>2, <2>7
      <3>2. old \in Seq(Book) /\ e \in Book /\ k \in Nat
        BY <1>1, <2>1, <2>3 DEF Proper
      <3> HIDE DEF new, e, old
      <3>3. new \in Seq(Book) /\ Len(new) = k + 1
        BY <3>1, <3>2
      <3>4. new[k + 1] = e /\ \A i \in 1..k : new[i] = old[i]
        BY <3>1, <3>2
      <3>5. \A i \in 1..(k + 1) : i = k + 1 \/ i \in 1..k
        BY <3>2
      <3>6. k + 1 \in 1..(k + 1) /\ \A i \in 1..k : i \in 1..(k + 1)
        BY <3>2
      <3> HIDE DEF k
      <3>7. \A i \in 1..k : old[i] # e
        <4> SUFFICES ASSUME NEW i \in 1..k, old[i] = e PROVE FALSE
          OBVIOUS
        <4>1. PICK j \in 1..n : lst[j] = old[i]
          BY <2>3 DEF old, k
        <4>2. j \in 1..Z /\ j # n + 1
          BY <1>1, <2>1
        <4> QED
          BY <2>1, <4>1, <4>2 DEF Proper, e
      <3>8. ASSUME NEW i \in 1..(k + 1), NEW j \in 1..(k + 1), new[i] = new[j] PROVE i = j
        <4>1. \A a, b \in 1..k : old[a] = old[b] => a = b
          BY <2>3 DEF Proper, old, k
        <4> QED
          BY <3>4, <3>5, <3>7, <3>8, <4>1
      <3>9. Proper(new)
        BY <3>3, <3>8 DEF Proper
      <3>10. ASSUME NEW i \in 1..(k + 1)
             PROVE  \E j \in 1..(n + 1) : lst[j] = new[i] /\ Listing!Wanted(q, new[i])
        <4>1. CASE i = k + 1
          <5>1. new[i] = e /\ n + 1 \in 1..(n + 1) /\ lst[n + 1] = e
            BY <1>4, <3>4, <4>1 DEF e
          <5> QED
            BY <2>7, <5>1 DEF e
        <4>2. CASE i \in 1..k
          <5>1. PICK j \in 1..n : lst[j] = old[i] /\ Listing!Wanted(q, old[i])
            BY <2>3, <4>2 DEF old, k
          <5> QED
            BY <2>5, <3>4, <4>2, <5>1
        <4> QED
          BY <3>5, <4>1, <4>2
      <3>11. ASSUME NEW j \in 1..(n + 1), Listing!Wanted(q, lst[j])
             PROVE  \E i \in 1..(k + 1) : new[i] = lst[j]
        <4>1. CASE j = n + 1
          BY <3>4, <3>6, <4>1 DEF e
        <4>2. CASE j \in 1..n
          <5>1. PICK i \in 1..k : old[i] = lst[j]
            BY <2>3, <3>11, <4>2 DEF old, k
          <5> QED
            BY <3>4, <3>6, <5>1
        <4> QED
          BY <2>4, <4>1, <4>2
      <3>12. Len(new) = k + 1
        BY <3>3
      <3>13. Good(new, n + 1)
        BY <3>9, <3>10, <3>11, <3>12
      <3> QED
        BY <3>13 DEF new
    <2> QED
      BY <2>6, <2>7
  <1>5. ASSUME NEW n \in Nat, n \in S PROVE n + 1 \in S
    <2> HIDE DEF Good
    <2> QED
      BY <1>4, <1>5
  <1>6. Z \in S
    <2> HIDE DEF S
    <2> QED
      BY <1>1, <1>3, <1>5, SetInduction
  <1>7. Good(f[Z], Z)
    BY <1>1, <1>6
  <1> QED
    BY <1>2, <1>7

\* A list of the radio names each contact once.
LEMMA ListsAreProper ==
  ASSUME NEW lst \in Listing!Lists
  PROVE  Proper(lst) /\ DOMAIN lst = 1..Len(lst) /\ Len(lst) \in Nat
  <1>1. PICK n \in 0..MaxList : /\ lst \in [1..n -> Book]
                                /\ \A i, j \in 1..n : lst[i] = lst[j] => i = j
    BY DEF Listing!Lists
  <1>2. n \in Nat
    BY MCContactsAssumption
  <1>3. lst \in Seq(Book) /\ Len(lst) = n
    BY <1>1, <1>2
  <1> QED
    BY <1>1, <1>2, <1>3 DEF Proper

\* The order of a listing is the one a later clock would give.
LEMMA LessIsEarlier ==
  ASSUME NEW col \in Columns, NEW a \in Book, NEW b \in Book, Listing!Less(col, a, b)
  PROVE  IF col = "age" /\ a.last # b.last
         THEN b.last = 0 \/ (a.last # 0 /\ a.last < b.last)
         ELSE Listing!Less(col, a, b)
  <1> SUFFICES ASSUME col = "age", a.last # b.last
               PROVE  b.last = 0 \/ (a.last # 0 /\ a.last < b.last)
    OBVIOUS
  <1> DEFINE ra == Listing!contactAgeRank(a.last)
             rb == Listing!contactAgeRank(b.last)
  <1>1. IF ra # rb THEN ra < rb
        ELSE IF ra < 2 THEN Listing!By(a.last, b.last, a, b)
        ELSE Listing!contactNameLess(a, b)
    BY DEF Listing!Less
  <1>2. /\ ra \in 0..2 /\ (ra = 2 <=> a.last = 0)
        /\ (ra = 1 => a.last > Now) /\ (ra = 0 => a.last <= Now)
    BY RanksAreNatural
  <1>3. /\ rb \in 0..2 /\ (rb = 2 <=> b.last = 0)
        /\ (rb = 1 => b.last > Now) /\ (rb = 0 => b.last <= Now)
    BY RanksAreNatural
  <1>4. a.last \in Nat /\ b.last \in Nat /\ Now \in Nat
    BY BookAssumption, MCContactsAssumption
  <1> HIDE DEF ra, rb
  <1>5. CASE ra # rb
    BY <1>1, <1>2, <1>3, <1>4, <1>5
  <1>6. CASE ra = rb /\ ra < 2
    <2>1. a.last < b.last
      BY <1>1, <1>6 DEF Listing!By
    <2> QED
      BY <1>2, <1>6, <2>1
  <1>7. CASE ra = rb /\ ~(ra < 2)
    BY <1>2, <1>3, <1>7
  <1> QED
    BY <1>5, <1>6, <1>7

\* A listing shows the contacts wanted in the order of its column.
LEMMA ListingIsSorted ==
  ASSUME NEW lst \in Listing!Lists, NEW q \in Listing!Queries,
         Listing!filterContacts(lst, q).ok
  PROVE  LET r == Listing!filterContacts(lst, q).list
             kept == {c \in Listing!ToSet(lst) : Listing!Wanted(q, c)}
         IN /\ Listing!ToSet(r) = kept
            /\ Len(r) = Cardinality(kept)
            /\ \A i, j \in DOMAIN r :
                 i < j => IF q.sortBy = "age" /\ r[i].last # r[j].last
                          THEN r[j].last = 0 \/ (r[i].last # 0 /\ r[i].last < r[j].last)
                          ELSE Listing!Less(q.sortBy, r[i], r[j])
  <1> DEFINE s == Listing!wantedContacts(lst, q)
             r == Listing!filterContacts(lst, q).list
             kept == {c \in Listing!ToSet(lst) : Listing!Wanted(q, c)}
             n == Len(s)
  <1>1. r = Listing!sortContacts(s, q.sortBy)
    BY DEF Listing!filterContacts
  <1>2. q.sortBy \in Columns
    BY DEF Listing!Queries, Columns
  <1>3. /\ Proper(s)
        /\ \A i \in 1..n : \E j \in 1..Len(lst) : lst[j] = s[i] /\ Listing!Wanted(q, s[i])
        /\ \A j \in 1..Len(lst) : Listing!Wanted(q, lst[j]) => \E i \in 1..n : s[i] = lst[j]
    BY ListsAreProper, WantedKept
  <1>4. DOMAIN lst = 1..Len(lst)
    BY ListsAreProper
  <1> HIDE DEF s, r
  <1>5. /\ s \in Seq(Book) /\ n \in Nat /\ DOMAIN s = 1..n
        /\ \A i, j \in 1..n : s[i] = s[j] => i = j
    BY <1>3 DEF Proper
  <1>6. /\ r \in Seq(Book) /\ Len(r) = n
        /\ \A k \in 1..n : \E j \in 1..n : r[k] = s[j]
        /\ \A j \in 1..n : \E k \in 1..n : r[k] = s[j]
        /\ \A i, j \in 1..n : i < j => Listing!Less(q.sortBy, r[i], r[j])
    <2>1. s \in Seq(Book) /\ \A i, j \in 1..Len(s) : s[i] = s[j] => i = j
      BY <1>5
    <2>2. InOrder(s, r, q.sortBy)
      BY <1>1, <1>2, <2>1, SortedList, Zenon
    <2> QED
      BY <2>2 DEF InOrder
  <1>7. DOMAIN r = 1..n /\ \A i \in 1..n : r[i] \in Book
    BY <1>5, <1>6
  <1> HIDE DEF n
  <1>8. \A i \in 1..n : s[i] \in kept
    BY <1>3, <1>4 DEF Listing!ToSet
  <1>9. \A c \in kept : \E i \in 1..n : s[i] = c
    BY <1>3, <1>4 DEF Listing!ToSet
  <1>10. Listing!ToSet(r) = kept
    <2>1. \A k \in 1..n : r[k] \in kept
      BY <1>6, <1>8
    <2> HIDE DEF kept
    <2>2. \A c \in kept : \E k \in 1..n : r[k] = c
      <3> TAKE c \in kept
      <3>1. PICK i \in 1..n : s[i] = c
        BY <1>9
      <3>2. PICK k \in 1..n : r[k] = s[i]
        BY <1>6
      <3> QED
        BY <3>1, <3>2
    <2> QED
      BY <1>7, <2>1, <2>2 DEF Listing!ToSet
  <1> HIDE DEF kept
  <1>11. Cardinality(kept) = n
    <2>1. s \in [1..n -> kept]
      BY <1>5, <1>8
    <2>2. s \in Injection(1..n, kept)
      BY <1>5, <2>1 DEF Injection, IsInjective
    <2>3. s \in Surjection(1..n, kept)
      BY <1>9, <2>1 DEF Surjection
    <2>4. ExistsBijection(1..n, kept)
      BY <2>2, <2>3 DEF ExistsBijection, Bijection
    <2> QED
      BY <1>5, <2>4, FS_CountingElements
  <1>12. ASSUME NEW i \in 1..n, NEW j \in 1..n, i < j
         PROVE  IF q.sortBy = "age" /\ r[i].last # r[j].last
                THEN r[j].last = 0 \/ (r[i].last # 0 /\ r[i].last < r[j].last)
                ELSE Listing!Less(q.sortBy, r[i], r[j])
    <2>1. r[i] \in Book /\ r[j] \in Book /\ Listing!Less(q.sortBy, r[i], r[j])
      BY <1>6, <1>7, <1>12
    <2> QED
      BY <1>2, <2>1, LessIsEarlier, Zenon
  <1> QED
    BY <1>6, <1>7, <1>10, <1>11, <1>12 DEF r, kept

\* FirstOf finds one of the contacts asked for, if the list has one.
LEMMA FirstIsOne ==
  ASSUME NEW lst \in Listing!Lists, NEW S, Listing!ToSet(lst) \intersect S # {}
  PROVE  \E c \in Listing!ToSet(lst) \intersect S : Listing!FirstOf(lst, S) = Listing!Found(c)
  <1> DEFINE hits == {i \in DOMAIN lst : lst[i] \in S}
             k == CHOOSE i \in hits : \A j \in hits : i <= j
  <1>1. DOMAIN lst = 1..Len(lst) /\ Len(lst) \in Nat
    BY ListsAreProper
  <1>2. hits \subseteq Nat /\ hits # {}
    BY <1>1 DEF Listing!ToSet
  <1>3. \E i \in hits : \A j \in hits : i <= j
    <2> HIDE DEF hits
    <2> QED
      BY <1>2, LeastOf, Zenon
  <1>4. k \in hits
    <2> HIDE DEF hits
    <2> QED
      BY <1>3
  <1>5. Listing!FirstOf(lst, S) = Listing!Found(lst[k])
    BY DEF Listing!FirstOf
  <1> HIDE DEF k
  <1>6. lst[k] \in Listing!ToSet(lst) \intersect S
    BY <1>4 DEF Listing!ToSet
  <1> QED
    BY <1>5, <1>6

\* A list has finitely many contacts.
LEMMA ListIsFinite ==
  ASSUME NEW lst \in Listing!Lists
  PROVE  IsFiniteSet(Listing!ToSet(lst)) /\ Listing!ToSet(lst) \subseteq Book
  <1>1. lst \in Seq(Book) /\ DOMAIN lst = 1..Len(lst) /\ Len(lst) \in Nat
    BY ListsAreProper DEF Proper
  <1>2. Listing!ToSet(lst) \subseteq Book
    BY <1>1 DEF Listing!ToSet
  <1>3. lst \in Surjection(1..Len(lst), Listing!ToSet(lst))
    BY <1>1 DEF Surjection, Listing!ToSet
  <1>4. IsFiniteSet(1..Len(lst))
    BY <1>1, FS_Interval
  <1> QED
    BY <1>2, <1>3, <1>4, FS_Surjection

\* What a name that at most one contact carries resolves to is the same in
\* every order of the list.
LEMMA MatchIsOrderFree ==
  ASSUME NEW lst \in Listing!Lists, NEW other \in Listing!Lists,
         Listing!ToSet(other) = Listing!ToSet(lst),
         NEW exact \in SUBSET Listing!ToSet(lst), NEW partial \in SUBSET Listing!ToSet(lst),
         Cardinality(exact) <= 1
  PROVE  Listing!matchContact(other, exact, partial) = Listing!matchContact(lst, exact, partial)
  <1> DEFINE T == Listing!ToSet(lst)
  <1>1. T \intersect exact = exact /\ T \intersect partial = partial
    OBVIOUS
  <1>2. IsFiniteSet(exact) /\ IsFiniteSet(partial)
    BY ListIsFinite, FS_Subset
  <1>3. ASSUME NEW S \in SUBSET T, NEW c, S = {c}
        PROVE  /\ Listing!FirstOf(other, S) = Listing!Found(c)
               /\ Listing!FirstOf(lst, S) = Listing!Found(c)
    <2>1. T \intersect S = {c} /\ T \intersect S # {}
      BY <1>3
    <2>2. PICK d \in T \intersect S : Listing!FirstOf(lst, S) = Listing!Found(d)
      BY <2>1, FirstIsOne
    <2>3. PICK e \in T \intersect S : Listing!FirstOf(other, S) = Listing!Found(e)
      BY <2>1, FirstIsOne
    <2> QED
      BY <2>1, <2>2, <2>3
  <1>4. CASE exact # {}
    <2>1. Cardinality(exact) \in Nat /\ Cardinality(exact) # 0
      BY <1>2, <1>4, FS_CardinalityType, FS_EmptySet
    <2>2. Cardinality(exact) = 1
      BY <2>1
    <2>3. PICK c : exact = {c}
      BY <1>2, <2>2, FS_Singleton
    <2> QED
      BY <1>1, <1>3, <1>4, <2>3 DEF Listing!matchContact
  <1>5. CASE exact = {} /\ Cardinality(partial) = 1
    <2>1. PICK c : partial = {c}
      BY <1>2, <1>5, FS_Singleton
    <2>2. Listing!Cardinality(partial) = 1
      BY <1>5, ListingCardinality
    <2> QED
      BY <1>1, <1>3, <1>5, <2>1, <2>2 DEF Listing!matchContact
  <1>6. CASE exact = {} /\ Cardinality(partial) # 1
    <2>1. Listing!Cardinality(partial) # 1
      BY <1>6, ListingCardinality
    <2> QED
      BY <1>1, <1>6, <2>1 DEF Listing!matchContact
  <1> QED
    BY <1>4, <1>5, <1>6

\* A trace and the neighbour listing name the same node, as far as they can.
LEMMA NamesAreOne ==
  ASSUME NEW lst \in Listing!Lists,
         NEW hits \in SUBSET {c \in Listing!ToSet(lst) : c.key # 0}
  PROVE  LET node == Listing!resolveNode(lst, hits)
             neighbour == Listing!contactForKeyPrefix(lst, hits)
         IN /\ node.ambiguous <=> \E c, d \in hits : /\ c.name # 0 /\ d.name # 0
                                                    /\ c.name # d.name
            /\ neighbour.found /\ neighbour.contact.name # 0 =>
                 node.ambiguous \/ node.name = neighbour.contact.name
            /\ node.name # 0 => /\ neighbour.found
                                /\ neighbour.contact.name \in {0, node.name}
  <1> DEFINE node == Listing!resolveNode(lst, hits)
             neighbour == Listing!contactForKeyPrefix(lst, hits)
             T == Listing!ToSet(lst)
             named == {c \in hits : c.name # 0}
             names == {c.name : c \in named}
             k == Cardinality(names)
  <1>1. T \intersect hits = hits /\ named \subseteq hits
    OBVIOUS
  <1>2. IsFiniteSet(named)
    BY <1>1, ListIsFinite, FS_Subset
  <1>3. IsFiniteSet(names)
    <2> DEFINE f == [c \in named |-> c.name]
    <2>1. f \in Surjection(named, names)
      BY DEF Surjection
    <2> HIDE DEF f, names, named
    <2> QED
      BY <1>2, <2>1, FS_Surjection
  <1>4. \A x \in names : x # 0
    OBVIOUS
  <1>5. /\ node.name = IF k = 1 THEN CHOOSE x \in names : TRUE ELSE 0
        /\ node.ambiguous = (k > 1)
    <2> DEFINE indexed == {c \in T : c.key # 0 /\ c.name # 0}
               all == {c.name : c \in indexed \intersect hits}
    <2>1. node = [name |-> IF Listing!Cardinality(all) = 1 THEN CHOOSE x \in all : TRUE ELSE 0,
                  ambiguous |-> Listing!Cardinality(all) > 1]
      BY Zenon DEF Listing!resolveNode
    <2>2. indexed \intersect hits = named
      OBVIOUS
    <2>3. all = names
      BY <2>2, Zenon
    <2> HIDE DEF names, all, node
    <2>4. Listing!Cardinality(all) = k
      BY <2>3, ListingCardinality
    <2> QED
      BY <2>1, <2>3, <2>4
  <1>6. k \in Nat /\ (k = 0 <=> names = {}) /\ (k = 1 <=> \E x : names = {x})
    <2> HIDE DEF names
    <2> QED
      BY <1>3, FS_CardinalityType, FS_EmptySet, FS_Singleton
  <1>7. k > 1 <=> \E c, d \in hits : c.name # 0 /\ d.name # 0 /\ c.name # d.name
    <2>1. k > 1 <=> names # {} /\ ~\E x : names = {x}
      <3>1. k > 1 <=> k # 0 /\ k # 1
        BY <1>6
      <3> HIDE DEF names, k
      <3> QED
        BY <1>6, <3>1, Zenon
    <2>2. (names # {} /\ ~\E x : names = {x}) <=> \E x, y \in names : x # y
      <3> HIDE DEF names
      <3> QED
        OBVIOUS
    <2>3. (\E x, y \in names : x # y) <=>
            \E c, d \in hits : c.name # 0 /\ d.name # 0 /\ c.name # d.name
      <3>1. \A x : x \in names <=> \E c \in hits : c.name # 0 /\ c.name = x
        OBVIOUS
      <3> HIDE DEF names
      <3> QED
        BY <3>1
    <2> QED
      BY <2>1, <2>2, <2>3, Zenon
  <1>8. ASSUME hits # {}
        PROVE  \E c \in hits : neighbour.found /\ neighbour.contact = c
    <2>1. PICK c \in T \intersect hits : Listing!FirstOf(lst, hits) = Listing!Found(c)
      BY <1>1, <1>8, FirstIsOne
    <2>2. neighbour = Listing!Found(c)
      BY <1>1, <1>8, <2>1 DEF Listing!contactForKeyPrefix
    <2> QED
      BY <1>1, <2>1, <2>2 DEF Listing!Found
  <1>9. hits = {} => ~neighbour.found
    BY DEF Listing!contactForKeyPrefix, Listing!Unresolved
  <1>10. ASSUME k = 1
         PROVE  /\ node.name \in names /\ names = {node.name}
                /\ hits # {}
    <2>1. PICK x : names = {x}
      BY <1>6, <1>10
    <2>2. (CHOOSE y \in names : TRUE) = x
      BY <2>1
    <2> QED
      BY <1>5, <1>10, <2>1, <2>2
  <1>11. node.ambiguous <=> k > 1
    BY <1>5
  <1>12. k # 1 => node.name = 0
    BY <1>5
  <1>13. ASSUME neighbour.found, neighbour.contact.name # 0
         PROVE  node.ambiguous \/ node.name = neighbour.contact.name
    <2>1. neighbour.contact.name \in names
      BY <1>8, <1>9, <1>13
    <2>2. k # 0
      BY <1>6, <2>1
    <2> HIDE DEF names, node, neighbour, k
    <2> QED
      BY <1>6, <1>10, <1>11, <2>1, <2>2
  <1>14. ASSUME node.name # 0
         PROVE  neighbour.found /\ neighbour.contact.name \in {0, node.name}
    <2>1. k = 1
      BY <1>12, <1>14
    <2>2. hits # {} /\ names = {node.name}
      BY <1>10, <2>1
    <2>3. PICK c \in hits : neighbour.found /\ neighbour.contact = c
      BY <1>8, <2>2
    <2>4. c.name = 0 \/ c.name \in names
      OBVIOUS
    <2> QED
      BY <2>2, <2>3, <2>4
  <1> HIDE DEF node, neighbour
  <1> QED
    BY <1>7, <1>11, <1>13, <1>14 DEF node, neighbour

-----------------------------------------------------------------------------
(* ContactBook: the inductive invariant.                                   *)

\* A listing and a name are of the list that is held.
ListingInv ==
  /\ bookList \in Listing!Lists
  /\ \/ shown = Listing!Nothing
     \/ query \in Listing!Queries /\ shown = Listing!filterContacts(bookList, query)
  /\ \/ asked = Listing!NoQuestion
     \/ /\ asked.exact \in SUBSET Listing!ToSet(bookList)
        /\ asked.partial \in SUBSET Listing!ToSet(bookList)
        /\ match = Listing!matchContact(bookList, asked.exact, asked.partial)
  /\ bookList = <<>> => shown = Listing!Nothing /\ asked = Listing!NoQuestion

\* The inductive step.
LEMMA ListingStep ==
  ASSUME ListingInv, [Listing!Next]_(Listing!vars)
  PROVE  ListingInv'
  <1>1. CASE UNCHANGED Listing!vars
    BY <1>1 DEF ListingInv, Listing!vars
  <1>2. CASE Listing!Load
    <2>1. bookList' \in Listing!Lists /\ bookList' # <<>> /\ bookList = <<>>
          /\ UNCHANGED <<shown, query, match, asked>>
      BY <1>2 DEF Listing!Load
    <2> QED
      BY <2>1 DEF ListingInv
  <1>3. CASE Listing!Show
    <2>1. /\ bookList # <<>> /\ asked = Listing!NoQuestion /\ query' \in Listing!Queries
          /\ shown' = Listing!filterContacts(bookList, query')
          /\ UNCHANGED <<bookList, match, asked>>
      BY <1>3 DEF Listing!Show
    <2> QED
      BY <2>1 DEF ListingInv
  <1>4. CASE Listing!Resolve
    <2>1. /\ bookList # <<>> /\ shown = Listing!Nothing
          /\ UNCHANGED <<bookList, shown, query>>
      BY <1>4 DEF Listing!Resolve
    <2>2. PICK exact, partial \in SUBSET Listing!ToSet(bookList) :
            /\ asked' = [exact |-> exact, partial |-> partial]
            /\ match' = Listing!matchContact(bookList, exact, partial)
      BY <1>4 DEF Listing!Resolve
    <2>3. asked'.exact = exact /\ asked'.partial = partial
      BY <2>2
    <2> QED
      BY <2>1, <2>2, <2>3 DEF ListingInv
  <1> QED
    BY <1>1, <1>2, <1>3, <1>4 DEF Listing!Next

\* Listings, names and the nodes of a trace do not depend on the order in which
\* the radio returns its contacts, for any contacts that differ in name or key,
\* lists of any length and any clock
\* (filterContacts, sortContacts, matchContact, resolveNode,
\* contactForKeyPrefix).
THEOREM ListingsOrderFree == MCSpec => []OrderFree
  <1>1. MCInit => ListingInv
    <2> SUFFICES ASSUME Listing!Init PROVE ListingInv
      BY DEF MCInit
    <2>1. bookList = <<>> /\ shown = Listing!Nothing /\ asked = Listing!NoQuestion
      BY DEF Listing!Init
    <2>2. <<>> \in Listing!Lists
      <3>1. 0 \in 0..MaxList
        BY MCContactsAssumption
      <3>2. <<>> \in {s \in [1..0 -> Book] : \A i, j \in 1..0 : s[i] = s[j] => i = j}
        OBVIOUS
      <3> QED
        BY <3>1, <3>2 DEF Listing!Lists
    <2> QED
      BY <2>1, <2>2 DEF ListingInv
  <1>2. ListingInv /\ [MCNext]_mcVars => ListingInv'
    <2> SUFFICES ASSUME ListingInv, [MCNext]_mcVars PROVE ListingInv'
      OBVIOUS
    <2>1. [Listing!Next]_(Listing!vars)
      BY DEF MCNext, mcVars, bookVars, Listing!vars
    <2> QED
      BY <2>1, ListingStep
  <1>3. ListingInv => OrderFree
    <2> SUFFICES ASSUME ListingInv PROVE OrderFree
      OBVIOUS
    <2>1. bookList \in Listing!Lists
      BY DEF ListingInv
    <2>2. Listing!NamesAgree
      BY <2>1, NamesAreOne DEF Listing!NamesAgree
    <2>3. Listing!MatchOrderFree
      <3> SUFFICES ASSUME asked # Listing!NoQuestion, Listing!Cardinality(asked.exact) <= 1,
                          NEW other \in Listing!Lists,
                          Listing!ToSet(other) = Listing!ToSet(bookList)
                   PROVE  Listing!matchContact(other, asked.exact, asked.partial) = match
        BY DEF Listing!MatchOrderFree
      <3>1. /\ asked.exact \in SUBSET Listing!ToSet(bookList)
            /\ asked.partial \in SUBSET Listing!ToSet(bookList)
            /\ match = Listing!matchContact(bookList, asked.exact, asked.partial)
        BY DEF ListingInv
      <3>2. Cardinality(asked.exact) <= 1
        BY ListingCardinality
      <3> QED
        BY <2>1, <3>1, <3>2, MatchIsOrderFree
    <2>4. Listing!ListingOrderFree
      <3> SUFFICES ASSUME shown.ok PROVE Listing!ListingOrderFree
        BY DEF Listing!ListingOrderFree
      <3>1. query \in Listing!Queries /\ shown = Listing!filterContacts(bookList, query)
        BY DEF ListingInv, Listing!Nothing
      <3>2. LET r == shown.list
                kept == {c \in Listing!ToSet(bookList) : Listing!Wanted(query, c)}
            IN /\ Listing!ToSet(r) = kept
               /\ Len(r) = Cardinality(kept)
               /\ \A i, j \in DOMAIN r :
                    i < j => IF query.sortBy = "age" /\ r[i].last # r[j].last
                             THEN r[j].last = 0 \/ (r[i].last # 0 /\ r[i].last < r[j].last)
                             ELSE Listing!Less(query.sortBy, r[i], r[j])
        BY <2>1, <3>1, ListingIsSorted
      <3> QED
        BY <3>2, ListingCardinality DEF Listing!ListingOrderFree
    <2> QED
      BY <2>2, <2>3, <2>4 DEF OrderFree, Listing!OrderFree
  <1> QED
    BY <1>1, <1>2, <1>3, PTL DEF MCSpec
=============================================================================
