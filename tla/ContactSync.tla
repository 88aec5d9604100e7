---------------------------- MODULE ContactSync ----------------------------
(***************************************************************************)
(* How a device session keeps its replica of the radio's contacts          *)
(* (backend/contact_sync.go, backend/server.go).  A sync asks the radio    *)
(* for the contacts changed since the stored watermark contact_last_mod,   *)
(* stores them and then moves the watermark; a full sync empties the table *)
(* first.  Syncs and requests share the radio lock; a request cancels the  *)
(* background refresh that holds it and schedules another one when it is   *)
(* done.  Adverts heard in between are stored by goroutines that hold no   *)
(* lock at all, and move the watermark too.                                *)
(*                                                                         *)
(* A contact's data is abstracted to the modification marker it had when   *)
(* the radio sent it; 0 is an absent contact.  The counters that `status`  *)
(* shows (received, total, count, error) are left out.                     *)
(***************************************************************************)
EXTENDS Naturals

CONSTANTS
    Jobs,         \* goroutines that run one sync or one radio request each
    Adverts,      \* goroutines that store one observed contact each
    Contacts,     \* public keys
    NoJob,        \* neither lock nor cancel function is held
    NoContact,    \* an advert that was not heard yet
    MaxMod,       \* bound: changes of the radio's contact list
    MaxFailures   \* bound: failures other than a cancelled context

ASSUME ContactSyncAssumption ==
    /\ NoJob \notin Jobs
    /\ NoContact \notin Contacts
    /\ MaxMod \in Nat
    /\ MaxFailures \in Nat

VARIABLES
    list,           \* the radio: modification marker of each contact
    clock,          \* the radio: the newest marker given out
    stored,         \* table contacts
    mark,           \* meta contact_last_mod
    pc, kind, full, \* where a job is, what it runs, whether its sync is full
    cancelled,      \* jobs whose context was cancelled by an interrupt
    radio,          \* holder of the radio lock
    contactSyncMu,  \* holder of contactSyncMu
    contactSyncing, \* the flag the refresh request looks at
    refreshCancel,  \* the job whose cancel function is registered
    since,          \* local of syncContacts: marker sent with GET_CONTACTS
    result,         \* local of syncContacts: contacts received, and LastMod
    fresh,          \* history: the radio changed nothing since it answered
    initialDone,    \* scheduleInitialContactSync was called
    obs,            \* the adverts' goroutines
    trust,          \* history: see Distrust
    failures

radioVars == <<list, clock>>
jobVars   == <<pc, kind, full, cancelled>>
lockVars  == <<radio, contactSyncMu, contactSyncing, refreshCancel>>
syncVars  == <<since, result, fresh>>
vars == <<list, clock, stored, mark, pc, kind, full, cancelled, radio,
          contactSyncMu, contactSyncing, refreshCancel, since, result,
          fresh, initialDone, obs, trust, failures>>

Mods    == 0 .. MaxMod
Records == [Contacts -> Mods]
Empty   == [c \in Contacts |-> 0]
Kinds   == {"none", "initial", "background", "wait", "interactive"}
Stages  == {"new", "ask", "lock", "register", "begin", "since", "fetch",
            "upsert", "mark", "finish", "clear", "unlock", "work",
            "schedule", "done"}

TypeOK ==
    /\ list \in Records
    /\ clock \in Mods
    /\ stored \in Records
    /\ mark \in Mods
    /\ pc \in [Jobs -> Stages]
    /\ kind \in [Jobs -> Kinds]
    /\ full \in [Jobs -> BOOLEAN]
    /\ cancelled \in SUBSET Jobs
    /\ radio \in Jobs \cup {NoJob}
    /\ contactSyncMu \in Jobs \cup {NoJob}
    /\ contactSyncing \in BOOLEAN
    /\ refreshCancel \in Jobs \cup {NoJob}
    /\ since \in Mods
    /\ result \in [contacts : Records, LastMod : Mods]
    /\ fresh \in BOOLEAN
    /\ initialDone \in BOOLEAN
    /\ obs \in [Adverts -> [stage : {"new", "read", "write", "mark", "set", "done"},
                            contact : Contacts \cup {NoContact},
                            lastMod : Mods, existing : Mods]]
    /\ trust \in {"yes", "rebuilding", "no"}
    /\ failures \in 0 .. MaxFailures

NotHeard == [stage |-> "new", contact |-> NoContact, lastMod |-> 0, existing |-> 0]
Over     == [NotHeard EXCEPT !.stage = "done"]

NoResult == [contacts |-> Empty, LastMod |-> 0]

Init ==
    /\ list = Empty
    /\ clock = 0
    /\ stored = Empty
    /\ mark = 0
    /\ pc = [j \in Jobs |-> "new"]
    /\ kind = [j \in Jobs |-> "none"]
    /\ full = [j \in Jobs |-> FALSE]
    /\ cancelled = {}
    /\ radio = NoJob
    /\ contactSyncMu = NoJob
    /\ contactSyncing = FALSE
    /\ refreshCancel = NoJob
    /\ since = 0
    /\ result = NoResult
    /\ fresh = FALSE
    /\ initialDone = FALSE
    /\ obs = [a \in Adverts |-> NotHeard]
    /\ trust = "yes"
    /\ failures = 0

(***************************************************************************)
(* The radio's own list: a contact is added or changed, or removed, each   *)
(* at a time of its own.                                                   *)
(***************************************************************************)
RadioChange(c) ==
    /\ clock < MaxMod
    /\ clock' = clock + 1
    /\ list' = [list EXCEPT ![c] = clock + 1]
    /\ fresh' = FALSE
    /\ UNCHANGED <<stored, mark, jobVars, lockVars, since, result,
                   initialDone, obs, trust, failures>>

RadioRemove(c) ==
    /\ clock < MaxMod
    /\ list[c] # 0
    /\ clock' = clock + 1
    /\ list' = [list EXCEPT ![c] = 0]
    /\ fresh' = FALSE
    /\ UNCHANGED <<stored, mark, jobVars, lockVars, since, result,
                   initialDone, obs, trust, failures>>
(***************************************************************************)
(* Requests and the goroutines they start.  A refresh that is not waited   *)
(* for runs startContactRefresh without the radio; a waited refresh and    *)
(* every other radio method interrupt the background refresh and queue for *)
(* the radio.                                                              *)
(***************************************************************************)
scheduleInitialContactSync(j) ==
    /\ pc[j] = "new"
    /\ ~initialDone
    /\ initialDone' = TRUE
    /\ kind' = [kind EXCEPT ![j] = "initial"]
    /\ pc' = [pc EXCEPT ![j] = "lock"]
    /\ UNCHANGED <<radioVars, stored, mark, full, cancelled, lockVars,
                   syncVars, obs, trust, failures>>

RefreshRequest(j, f) ==
    /\ pc[j] = "new"
    /\ kind' = [kind EXCEPT ![j] = "background"]
    /\ full' = [full EXCEPT ![j] = f]
    /\ pc' = [pc EXCEPT ![j] = "ask"]
    /\ UNCHANGED <<radioVars, stored, mark, cancelled, lockVars, syncVars,
                   initialDone, obs, trust, failures>>

\* The registered cancel function is taken and called.
interruptContactRefresh ==
    /\ refreshCancel' = NoJob
    /\ cancelled' = cancelled \cup ({refreshCancel} \ {NoJob})

RadioRequest(j, k, f) ==
    /\ pc[j] = "new"
    /\ k = "interactive" => ~f
    /\ interruptContactRefresh
    /\ kind' = [kind EXCEPT ![j] = k]
    /\ full' = [full EXCEPT ![j] = f]
    /\ pc' = [pc EXCEPT ![j] = "lock"]
    /\ UNCHANGED <<radioVars, stored, mark, radio, contactSyncMu,
                   contactSyncing, syncVars, initialDone, obs, trust, failures>>

\* Started: FALSE is answered when the flag is seen up; otherwise the
\* goroutine runContactRefresh queues for the radio.
startContactRefresh(j) ==
    /\ pc[j] = "ask"
    /\ contactSyncMu = NoJob
    /\ pc' = [pc EXCEPT ![j] = IF contactSyncing THEN "done" ELSE "lock"]
    /\ UNCHANGED <<radioVars, stored, mark, kind, full, cancelled, lockVars,
                   syncVars, initialDone, obs, trust, failures>>

lockRadio(j) ==
    /\ pc[j] = "lock"
    /\ radio = NoJob
    /\ radio' = j
    /\ pc' = [pc EXCEPT ![j] = CASE kind[j] = "background"  -> "register"
                                 [] kind[j] = "interactive" -> "work"
                                 [] OTHER                   -> "begin"]
    /\ UNCHANGED <<radioVars, stored, mark, kind, full, cancelled,
                   contactSyncMu, contactSyncing, refreshCancel, syncVars,
                   initialDone, obs, trust, failures>>

\* Any other radio method.  After a success the session waits two seconds
\* and asks for an incremental refresh; the goroutine goes on as job j.
InteractiveDone(j, ok) ==
    /\ pc[j] = "work"
    /\ radio' = NoJob
    /\ pc' = [pc EXCEPT ![j] = IF ok THEN "schedule" ELSE "done"]
    /\ UNCHANGED <<radioVars, stored, mark, kind, full, cancelled,
                   contactSyncMu, contactSyncing, refreshCancel, syncVars,
                   initialDone, obs, trust, failures>>

scheduleContactRefreshAfterInteractive(j) ==
    /\ pc[j] = "schedule"
    /\ contactSyncMu = NoJob
    /\ kind' = [kind EXCEPT ![j] = "background"]
    /\ pc' = [pc EXCEPT ![j] = IF contactSyncing THEN "done" ELSE "ask"]
    /\ UNCHANGED <<radioVars, stored, mark, full, cancelled, lockVars,
                   syncVars, initialDone, obs, trust, failures>>

setContactRefreshCancel(j) ==
    /\ pc[j] = "register"
    /\ refreshCancel' = j
    /\ pc' = [pc EXCEPT ![j] = "begin"]
    /\ UNCHANGED <<radioVars, stored, mark, kind, full, cancelled, radio,
                   contactSyncMu, contactSyncing, syncVars, initialDone, obs,
                   trust, failures>>

AfterSync_NoUnlock(j) == IF kind[j] = "background" THEN "clear" ELSE "done"

\* Where a job goes when its sync is over or was never begun.
AfterSync(j) == IF kind[j] = "background" THEN "clear" ELSE "unlock"

clearContactRefreshCancel_None(j) ==
    /\ pc[j] = "clear"
    /\ pc' = [pc EXCEPT ![j] = "unlock"]
    /\ UNCHANGED <<radioVars, stored, mark, kind, full, cancelled, lockVars,
                   syncVars, initialDone, obs, trust, failures>>

clearContactRefreshCancel(j) ==
    /\ pc[j] = "clear"
    /\ refreshCancel' = NoJob
    /\ pc' = [pc EXCEPT ![j] = "unlock"]
    /\ UNCHANGED <<radioVars, stored, mark, kind, full, cancelled, radio,
                   contactSyncMu, contactSyncing, syncVars, initialDone, obs,
                   trust, failures>>

unlockRadio(j) ==
    /\ pc[j] = "unlock"
    /\ radio' = NoJob
    /\ pc' = [pc EXCEPT ![j] = "done"]
    /\ kind' = [kind EXCEPT ![j] = "none"]
    /\ full' = [full EXCEPT ![j] = FALSE]
    /\ cancelled' = cancelled \ {j}
    /\ UNCHANGED <<radioVars, stored, mark,
                   contactSyncMu, contactSyncing, refreshCancel, syncVars,
                   initialDone, obs, trust, failures>>

(***************************************************************************)
(* syncContacts, called by a job that holds the radio.  Each use of the    *)
(* store is a step of its own and fails when the context is cancelled; the *)
(* stream from the radio may still complete if the cancel comes late.      *)
(***************************************************************************)
Fails == failures < MaxFailures /\ failures' = failures + 1

\* No client, or the session is not healthy: nothing is synced.
RadioUnavailable(j) ==
    /\ pc[j] = "begin"
    /\ Fails
    /\ pc' = [pc EXCEPT ![j] = AfterSync(j)]
    /\ UNCHANGED <<radioVars, stored, mark, kind, full, cancelled, lockVars,
                   syncVars, initialDone, obs, trust>>

BeginSync(j) ==
    /\ pc[j] = "begin"
    /\ contactSyncMu = NoJob
    /\ contactSyncMu' = j
    /\ contactSyncing' = TRUE
    /\ pc' = [pc EXCEPT ![j] = "since"]
    /\ UNCHANGED <<radioVars, stored, mark, kind, full, cancelled, radio,
                   refreshCancel, syncVars, initialDone, obs, trust, failures>>

\* An error at any stage leaves what was stored before it.
SyncFails(j) ==
    /\ pc[j] \in {"since", "fetch", "upsert", "mark"}
    /\ IF j \in cancelled THEN UNCHANGED failures ELSE Fails
    /\ pc' = [pc EXCEPT ![j] = "finish"]
    /\ UNCHANGED <<radioVars, stored, mark, kind, full, cancelled, lockVars,
                   syncVars, initialDone, obs, trust>>

ContactLastMod_Next(j) ==
    /\ pc[j] = "since"
    /\ ~full[j]
    /\ j \notin cancelled
    /\ since' = mark + 1
    /\ pc' = [pc EXCEPT ![j] = "fetch"]
    /\ UNCHANGED <<radioVars, stored, mark, kind, full, cancelled, lockVars,
                   result, fresh, initialDone, obs, trust, failures>>

ContactLastMod(j) ==
    /\ pc[j] = "since"
    /\ ~full[j]
    /\ j \notin cancelled
    /\ since' = mark
    /\ pc' = [pc EXCEPT ![j] = "fetch"]
    /\ UNCHANGED <<radioVars, stored, mark, kind, full, cancelled, lockVars,
                   result, fresh, initialDone, obs, trust, failures>>

ClearContacts(j) ==
    /\ pc[j] = "since"
    /\ full[j]
    /\ j \notin cancelled
    /\ stored' = Empty
    /\ since' = 0
    /\ trust' = "rebuilding"
    /\ pc' = [pc EXCEPT ![j] = "fetch"]
    /\ UNCHANGED <<radioVars, mark, kind, full, cancelled, lockVars, result,
                   fresh, initialDone, obs, failures>>

\* The radio's answer to GET_CONTACTS: what is newer than the marker, and at
\* the end the newest marker among it, 0 when there was nothing.
Newer(s) == [c \in Contacts |-> IF list[c] > s THEN list[c] ELSE 0]

Newest(found, m) ==
    /\ m = 0 \/ \E c \in Contacts : found[c] = m
    /\ \A c \in Contacts : found[c] <= m

ContactsSince(j) ==
    /\ pc[j] = "fetch"
    /\ \E m \in Mods :
         /\ Newest(Newer(since), m)
         /\ result' = [contacts |-> Newer(since), LastMod |-> m]
    /\ fresh' = TRUE
    /\ pc' = [pc EXCEPT ![j] = "upsert"]
    /\ UNCHANGED <<radioVars, stored, mark, kind, full, cancelled, lockVars,
                   since, initialDone, obs, trust, failures>>

Merged(table, new) == [c \in Contacts |-> IF new[c] # 0 THEN new[c] ELSE table[c]]

UpsertContacts_ErrorIgnored(j) ==
    /\ pc[j] = "upsert"
    /\ \/ /\ j \notin cancelled
          /\ stored' = Merged(stored, result.contacts)
          /\ UNCHANGED failures
       \/ Fails /\ UNCHANGED stored
    /\ pc' = [pc EXCEPT ![j] = "mark"]
    /\ UNCHANGED <<radioVars, mark, kind, full, cancelled, lockVars, syncVars,
                   initialDone, obs, trust>>

UpsertContacts(j) ==
    /\ pc[j] = "upsert"
    /\ j \notin cancelled
    /\ stored' = Merged(stored, result.contacts)
    /\ pc' = [pc EXCEPT ![j] = "mark"]
    /\ UNCHANGED <<radioVars, mark, kind, full, cancelled, lockVars, syncVars,
                   initialDone, obs, trust, failures>>

SetContactLastMod(j) ==
    /\ pc[j] = "mark"
    /\ j \notin cancelled
    /\ mark' = IF result.LastMod # 0 \/ full[j] THEN result.LastMod ELSE mark
    /\ trust' = IF full[j] /\ trust = "rebuilding" THEN "yes" ELSE trust
    /\ pc' = [pc EXCEPT ![j] = "finish"]
    /\ UNCHANGED <<radioVars, stored, kind, full, cancelled, lockVars,
                   syncVars, initialDone, obs, failures>>

\* The deferred calls: the flag goes down before the mutex is released.
finishContactSync(j) ==
    /\ pc[j] = "finish"
    /\ contactSyncing' = FALSE
    /\ contactSyncMu' = NoJob
    /\ since' = 0
    /\ result' = NoResult
    /\ fresh' = FALSE
    /\ pc' = [pc EXCEPT ![j] = AfterSync(j)]
    /\ UNCHANGED <<radioVars, stored, mark, kind, full, cancelled, radio,
                   refreshCancel, initialDone, obs, trust, failures>>

(***************************************************************************)
(* upsertObservedContact: an advert with the full contact record, or with  *)
(* the public key only (lastMod 0), whose other fields are then taken from *)
(* the stored contact, and which is dropped when there is none.            *)
(***************************************************************************)
AdvertHeard(a, c, record) ==
    /\ obs[a].stage = "new"
    /\ list[c] # 0
    /\ obs' = [obs EXCEPT ![a] = [stage |-> "read", contact |-> c, existing |-> 0,
                                 lastMod |-> IF record THEN list[c] ELSE 0]]
    /\ UNCHANGED <<radioVars, stored, mark, jobVars, lockVars, syncVars,
                   initialDone, trust, failures>>

ObservedRead(a) ==
    LET o == obs[a] IN
    /\ o.stage = "read"
    /\ obs' = [obs EXCEPT ![a] =
                 IF o.lastMod = 0 /\ stored[o.contact] = 0 THEN Over
                 ELSE [o EXCEPT !.stage = "write", !.existing = stored[o.contact]]]
    /\ UNCHANGED <<radioVars, stored, mark, jobVars, lockVars, syncVars,
                   initialDone, trust, failures>>

\* trust remembers that an advert put back an older contact than the table
\* held, or moved the watermark: no refresh but a full one makes up for it.
Distrust(cond) == trust' = IF cond THEN "no" ELSE trust

ObservedUpsert(a) ==
    LET o   == obs[a]
        new == IF o.lastMod # 0 THEN o.lastMod ELSE o.existing
    IN
    /\ o.stage = "write"
    /\ stored' = [stored EXCEPT ![o.contact] = new]
    /\ Distrust(new < stored[o.contact])
    /\ obs' = [obs EXCEPT ![a] = IF o.lastMod = 0 THEN Over
                                ELSE [o EXCEPT !.stage = "mark"]]
    /\ UNCHANGED <<radioVars, mark, jobVars, lockVars, syncVars, initialDone,
                   failures>>

ObservedLastMod(a) ==
    LET o == obs[a] IN
    /\ o.stage = "mark"
    /\ obs' = [obs EXCEPT ![a] = IF o.lastMod > mark THEN [o EXCEPT !.stage = "set"]
                                ELSE Over]
    /\ UNCHANGED <<radioVars, stored, mark, jobVars, lockVars, syncVars,
                   initialDone, trust, failures>>

ObservedSetLastMod(a) ==
    /\ obs[a].stage = "set"
    /\ mark' = obs[a].lastMod
    /\ Distrust(TRUE)
    /\ obs' = [obs EXCEPT ![a] = Over]
    /\ UNCHANGED <<radioVars, stored, jobVars, lockVars, syncVars,
                   initialDone, failures>>

ObservedFails(a) ==
    /\ obs[a].stage \in {"write", "mark", "set"}
    /\ Fails
    /\ obs' = [obs EXCEPT ![a] = Over]
    /\ UNCHANGED <<radioVars, stored, mark, jobVars, lockVars, syncVars,
                   initialDone, trust>>
----------------------------------------------------------------------------
SyncStep(j) ==
    \/ RadioUnavailable(j) \/ SyncFails(j) \/ ContactLastMod(j)
    \/ ClearContacts(j) \/ ContactsSince(j) \/ UpsertContacts(j)
    \/ SetContactLastMod(j) \/ finishContactSync(j)

\* Steps that wait for a mutex.
LockStep(j) ==
    \/ lockRadio(j) \/ startContactRefresh(j) \/ BeginSync(j)
    \/ scheduleContactRefreshAfterInteractive(j)

HolderStep(j) ==
    \/ setContactRefreshCancel(j) \/ clearContactRefreshCancel(j)
    \/ unlockRadio(j) \/ \E ok \in BOOLEAN : InteractiveDone(j, ok)

ArrivalStep(j) ==
    \/ scheduleInitialContactSync(j)
    \/ \E f \in BOOLEAN : RefreshRequest(j, f)
    \/ \E k \in {"wait", "interactive"}, f \in BOOLEAN : RadioRequest(j, k, f)

ObservedStep(a) ==
    \/ ObservedRead(a) \/ ObservedUpsert(a) \/ ObservedLastMod(a)
    \/ ObservedSetLastMod(a) \/ ObservedFails(a)

Next ==
    \/ \E c \in Contacts : RadioChange(c) \/ RadioRemove(c)
    \/ \E j \in Jobs : ArrivalStep(j) \/ LockStep(j) \/ HolderStep(j) \/ SyncStep(j)
    \/ \E a \in Adverts :
         \/ ObservedStep(a)
         \/ \E c \in Contacts, record \in BOOLEAN : AdvertHeard(a, c, record)

\* Every goroutine runs, a free mutex is granted to some waiter, and a radio
\* request or stream ends by its own timeout.
Fairness ==
    /\ WF_vars(\E j \in Jobs : LockStep(j))
    /\ \A j \in Jobs : WF_vars(HolderStep(j) \/ SyncStep(j))

Spec == Init /\ [][Next]_vars

FairSpec == Spec /\ Fairness
----------------------------------------------------------------------------
(***************************************************************************)
(* The cancel function that a request finds registered is the one of the   *)
(* background refresh that holds the radio: interruptContactRefresh never  *)
(* cancels a sync somebody waits for, a finished one, or one still queued. *)
(***************************************************************************)
CancelIsHolders ==
    refreshCancel # NoJob => refreshCancel = radio /\ kind[radio] = "background"

(***************************************************************************)
(* contactSyncing is up exactly while the holder of contactSyncMu, which   *)
(* is also the holder of the radio, is syncing; whoever gets the mutex     *)
(* finds it down, so a refresh request always starts a refresh.            *)
(***************************************************************************)
SyncingIsHolders ==
    /\ contactSyncing = (contactSyncMu # NoJob)
    /\ contactSyncMu # NoJob => radio = contactSyncMu

(***************************************************************************)
(* Both: whatever the flag and the cancel function say is about the job    *)
(* that holds the radio.                                                   *)
(***************************************************************************)
HolderOnly == CancelIsHolders /\ SyncingIsHolders

(***************************************************************************)
(* The watermark is safe: unless an advert moved it or put back an old     *)
(* record, or a full refresh has emptied the table and not completed since *)
(* then, every contact the radio changed up to contact_last_mod is in the  *)
(* table as the radio has it, whatever failed or was interrupted, so that  *)
(* the next incremental sync misses nothing.                               *)
(***************************************************************************)
WatermarkCovers ==
    trust = "yes" =>
        \A c \in Contacts : list[c] # 0 /\ list[c] <= mark => stored[c] = list[c]

(***************************************************************************)
(* A refresh that succeeds leaves the replica with every contact of the    *)
(* radio, as the error text "run `mc contacts --refresh` to sync from      *)
(* radio" promises: full or incremental, if trust holds and the radio      *)
(* changed nothing since it answered.                                      *)
(***************************************************************************)
RefreshBringsAll ==
    [][\A j \in Jobs :
         /\ pc[j] = "mark" /\ SetContactLastMod(j)
         /\ fresh
         /\ trust' = "yes"
         => \A c \in Contacts : list[c] # 0 => stored'[c] = list[c]]_vars

(***************************************************************************)
(* Every request and refresh ends: nobody waits for ever for the radio or  *)
(* for contactSyncMu, although requests interrupt refreshes and schedule   *)
(* new ones.                                                               *)
(***************************************************************************)
JobEnds == \A j \in Jobs : []<>(pc[j] \in {"new", "done"})
============================================================================
