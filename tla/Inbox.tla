------------------------------- MODULE Inbox -------------------------------
(***************************************************************************)
(* Incoming messages of the backend: the radio's inbox, MSG_WAITING and    *)
(* the coalescing drain request, the drain loop (fetch, persist, emit),    *)
(* repeater_exec, which reads the same inbox while it waits for a reply,   *)
(* and the inbox request that hands out unread messages.  The three hold   *)
(* the radio lock while they work.                                         *)
(*                                                                         *)
(* A message is a chat message or the reply of the (one) repeater to a     *)
(* command; replies carry nothing that names their command, n does so for  *)
(* the properties only.  The store tells messages apart by text and        *)
(* timestamp, which differ where n does, and by peer, which is what the    *)
(* sender or channel resolves to in the replica when the message is        *)
(* stored.  (A message without a timestamp gets the time of its storing:   *)
(* heard again, it is another message.)                                    *)
(***************************************************************************)
EXTENDS Naturals, Sequences, SequencesExt

CONSTANTS
  EventBuffer,  \* capacity of Client.eventCh (64 in the code)
  MaxMail,      \* bound: chat messages
  MaxRepeats,   \* bound: chat messages the mesh delivers again
  MaxExecs,     \* bound: repeater_exec requests
  MaxReads,     \* bound: inbox requests
  Peers,        \* what a sender may resolve to: its prefix or slot, or the
                \* key of the contact or channel known under it
  MaxRelabels,  \* bound: changes of what a sender resolves to
  MaxFailures   \* bound: requests and statements that fail, drains skipped

Message == [kind: {"chat"}, n: 1..MaxMail] \union
           [kind: {"cli"}, n: 1..MaxExecs]
Chat(n) == [kind |-> "chat", n |-> n]
Reply(n) == [kind |-> "cli", n |-> n]
Row == [msg : Message, peer : Peers]

VARIABLES
  inbox,     \* messages buffered by the radio, oldest first
  drainReq,  \* the drainReq channel (capacity 1) is full
  radio,     \* holder of the radio lock: none | drain | exec
  dpc,       \* drain loop: idle | lock | fetch | persist | emit | return
  epc,       \* repeater_exec: idle | lock | send | wait | sync | emit | scan
  hand,      \* <<message>> fetched by the lock's holder, or <<>>
  batch,     \* what SyncMessages has collected for repeater_exec
  events,    \* Client.eventCh
  peer,      \* what the sender of the last message resolved to
  relabels,  \* how often that has changed
  stored,    \* rows of the messages table
  unread,    \* those with read = 0
  broadcast, \* messages for which MessageReceived was emitted
  mail,      \* chat messages so far
  repeats,   \* repeated chat messages so far
  execs,     \* repeater_exec requests so far
  asked,     \* commands that reached the repeater
  replied,   \* commands the repeater has replied to
  reads,     \* inbox requests so far
  handed,    \* how many inbox requests have returned each row
  execTook,  \* history: messages fetched by repeater_exec
  failures   \* requests and statements that failed

radioVars == <<inbox, drainReq, mail, repeats, asked, replied>>
loopVars  == <<radio, dpc, epc, hand, batch>>
storeVars == <<stored, unread, peer, relabels>>
eventVars == <<events, broadcast>>
execVars  == <<execs, execTook>>
readVars  == <<reads, handed>>
vars == <<radioVars, loopVars, storeVars, eventVars, execVars, readVars,
          failures>>

\* The drain loop starts with a drain.  Which peer the senders first resolve to
\* makes no difference.
Init ==
  /\ inbox = <<>>
  /\ drainReq = FALSE
  /\ radio = "none"
  /\ dpc = "lock"
  /\ epc = "idle"
  /\ hand = <<>>
  /\ batch = <<>>
  /\ events = <<>>
  /\ stored = {}
  /\ unread = {}
  /\ peer = CHOOSE p \in Peers : TRUE
  /\ relabels = 0
  /\ broadcast = {}
  /\ mail = 0
  /\ repeats = 0
  /\ execs = 0
  /\ asked = {}
  /\ replied = {}
  /\ reads = 0
  /\ handed = [r \in Row |-> 0]
  /\ execTook = {}
  /\ failures = 0

Fails ==
  /\ failures < MaxFailures
  /\ failures' = failures + 1
-----------------------------------------------------------------------------
(* The radio (external): it buffers what it hears and signals MSG_WAITING, *)
(* on which observeEvent requests a drain.                                 *)

Arrive(m) ==
  /\ inbox' = Append(inbox, m)
  /\ drainReq' = TRUE
  /\ UNCHANGED <<loopVars, storeVars, eventVars, execVars, readVars, failures>>

ChatArrives ==
  /\ mail < MaxMail
  /\ mail' = mail + 1
  /\ Arrive(Chat(mail'))
  /\ UNCHANGED <<repeats, asked, replied>>

\* A message already heard comes again over another path.
ChatRepeats(n) ==
  /\ n <= mail
  /\ repeats < MaxRepeats
  /\ repeats' = repeats + 1
  /\ Arrive(Chat(n))
  /\ UNCHANGED <<mail, asked, replied>>

\* The repeater replies at any time after the command, or never.
ReplyArrives(k) ==
  /\ k \in asked \ replied
  /\ replied' = replied \union {k}
  /\ Arrive(Reply(k))
  /\ UNCHANGED <<mail, repeats, asked>>

\* syncNext as the radio sees it: the oldest message is handed over.
Fetch ==
  /\ inbox # <<>>
  /\ hand' = <<Head(inbox)>>
  /\ inbox' = Tail(inbox)

\* A syncNext that fails; the radio may have given its message away.
FetchFails ==
  /\ Fails
  /\ \/ UNCHANGED inbox
     \/ inbox # <<>> /\ inbox' = Tail(inbox)

\* The client's own subscription loses its oldest event if it is full.
MakeRoom == IF Len(events) < EventBuffer THEN events ELSE Tail(events)

\* emitEvent, after the message callback.
Emit(m) ==
  /\ broadcast' = broadcast \union {m}
  /\ events' = Append(MakeRoom, m)
-----------------------------------------------------------------------------
(* drainLoop, runDrain, DrainMessages and persistIncoming                  *)

DrainWake ==
  /\ dpc = "idle"
  /\ drainReq
  /\ drainReq' = FALSE
  /\ dpc' = "lock"
  /\ UNCHANGED <<inbox, mail, repeats, asked, replied, radio, epc, hand,
                 batch, storeVars, eventVars, execVars, readVars, failures>>

DrainLock ==
  /\ dpc = "lock"
  /\ radio = "none"
  /\ radio' = "drain"
  /\ dpc' = "fetch"
  /\ UNCHANGED <<radioVars, epc, hand, batch, storeVars, eventVars, execVars,
                 readVars, failures>>

\* runDrain's early returns: the session lends its radio to a bridge, or has no
\* healthy client.  Nothing repeats the request.
DrainSkip ==
  /\ dpc = "lock"
  /\ Fails
  /\ dpc' = "idle"
  /\ UNCHANGED <<radioVars, radio, epc, hand, batch, storeVars, eventVars,
                 execVars, readVars>>

DrainFetch ==
  /\ dpc = "fetch"
  /\ Fetch
  /\ dpc' = "persist"
  /\ UNCHANGED <<drainReq, mail, repeats, asked, replied, radio, epc, batch,
                 storeVars, eventVars, execVars, readVars, failures>>

\* NoMoreMessages: DrainMessages returns nil.
DrainEmpty ==
  /\ dpc = "fetch"
  /\ inbox = <<>>
  /\ dpc' = "return"
  /\ UNCHANGED <<radioVars, radio, epc, hand, batch, storeVars, eventVars,
                 execVars, readVars, failures>>

\* Faulty variant: the request is cleared after the drain, not before it.
DrainReturn_ClearsRequest ==
  /\ dpc = "return"
  /\ dpc' = "idle"
  /\ radio' = "none"
  /\ drainReq' = FALSE
  /\ UNCHANGED <<inbox, mail, repeats, asked, replied, epc, hand, batch,
                 storeVars, eventVars, execVars, readVars, failures>>

\* Faulty variant: the radio stays locked.
DrainReturn_KeepsRadio ==
  /\ dpc = "return"
  /\ dpc' = "idle"
  /\ UNCHANGED <<radioVars, radio, epc, hand, batch, storeVars, eventVars,
                 execVars, readVars, failures>>

\* runDrain returns and releases the lock; messages may have come since.
DrainReturn ==
  /\ dpc = "return"
  /\ dpc' = "idle"
  /\ radio' = "none"
  /\ UNCHANGED <<radioVars, epc, hand, batch, storeVars, eventVars, execVars,
                 readVars, failures>>

\* The error is logged; nothing asks for another drain.
DrainErr ==
  /\ dpc = "fetch"
  /\ FetchFails
  /\ dpc' = "return"
  /\ UNCHANGED <<drainReq, mail, repeats, asked, replied, radio, epc, hand,
                 batch, storeVars, eventVars, execVars, readVars>>

\* persistIncoming looks the sender or the channel up in the replica.  A
\* contact or channel sync, a full refresh that empties the table, or an advert
\* may have changed what it resolves to since the last message.
ResolvePeer ==
  \/ UNCHANGED <<peer, relabels>>
  \/ /\ relabels < MaxRelabels
     /\ relabels' = relabels + 1
     /\ peer' \in Peers \ {peer}

\* Faulty variant: any row of the same kind counts as the same message.
RecordReceived_SameKind(m, p) ==
  LET heard == \E q \in stored : q.msg.kind = m.kind
      row == [msg |-> m, peer |-> p]
  IN  /\ stored' = IF heard THEN stored ELSE stored \union {row}
      /\ unread' = IF heard THEN unread ELSE unread \union {row}

\* RecordReceivedMessage gives a row of the same peer, text and timestamp one
\* more reception, and it keeps its read flag.
RecordReceived(m, p) ==
  LET row == [msg |-> m, peer |-> p]
  IN  /\ stored' = stored \union {row}
      /\ unread' = IF row \in stored THEN unread ELSE unread \union {row}

\* A failed insert is logged and the drain goes on.
DrainPersist ==
  /\ dpc = "persist"
  /\ dpc' = "emit"
  /\ ResolvePeer
  /\ \/ RecordReceived(hand[1], peer') /\ UNCHANGED failures
     \/ Fails /\ UNCHANGED <<stored, unread>>
  /\ UNCHANGED <<radioVars, radio, epc, hand, batch, eventVars, execVars,
                 readVars>>

DrainEmit ==
  /\ dpc = "emit"
  /\ Emit(hand[1])
  /\ hand' = <<>>
  /\ dpc' = "fetch"
  /\ UNCHANGED <<radioVars, radio, epc, batch, storeVars, execVars, readVars,
                 failures>>
-----------------------------------------------------------------------------
(* RepeaterExecContact, called with the radio locked                       *)

ExecStart ==
  /\ epc = "idle"
  /\ execs < MaxExecs
  /\ execs' = execs + 1
  /\ epc' = "lock"
  /\ UNCHANGED <<radioVars, radio, dpc, hand, batch, storeVars, eventVars,
                 execTook, readVars, failures>>

ExecLock ==
  /\ epc = "lock"
  /\ radio = "none"
  /\ radio' = "exec"
  /\ epc' = "send"
  /\ UNCHANGED <<radioVars, dpc, hand, batch, storeVars, eventVars, execVars,
                 readVars, failures>>

\* The request ends, with a text or an error, and the lock is released.
ExecReturn ==
  /\ epc' = "idle"
  /\ radio' = "none"

ExecSend ==
  /\ epc = "send"
  /\ asked' = asked \union {execs}
  /\ epc' = "wait"
  /\ UNCHANGED <<inbox, drainReq, mail, repeats, replied, radio, dpc, hand,
                 batch, storeVars, eventVars, execVars, readVars, failures>>

\* The request fails or times out, possibly after the radio took it.
ExecSendErr ==
  /\ epc = "send"
  /\ Fails
  /\ \/ UNCHANGED asked
     \/ asked' = asked \union {execs}
  /\ ExecReturn
  /\ UNCHANGED <<inbox, drainReq, mail, repeats, replied, dpc, hand, batch,
                 storeVars, eventVars, execs, execTook, readVars>>

\* case ev := <-c.eventCh: whatever the subscription still holds comes first,
\* events of before this command too.
ExecEvent ==
  /\ epc = "wait"
  /\ events # <<>>
  /\ events' = Tail(events)
  /\ IF Head(events).kind = "cli"
     THEN ExecReturn
     ELSE UNCHANGED <<epc, radio>>
  /\ UNCHANGED <<radioVars, dpc, hand, batch, storeVars, broadcast, execs,
                 execTook, readVars, failures>>

\* case <-ticker.C: SyncMessages drains the inbox and persists nothing.
ExecTick ==
  /\ epc = "wait"
  /\ epc' = "sync"
  /\ UNCHANGED <<radioVars, radio, dpc, hand, batch, storeVars, eventVars,
                 execVars, readVars, failures>>

ExecFetch ==
  /\ epc = "sync"
  /\ Fetch
  /\ execTook' = execTook \union {Head(inbox)}
  /\ epc' = "emit"
  /\ UNCHANGED <<drainReq, mail, repeats, asked, replied, radio, dpc, batch,
                 storeVars, eventVars, execs, readVars, failures>>

ExecEmit ==
  /\ epc = "emit"
  /\ Emit(hand[1])
  /\ batch' = Append(batch, hand[1])
  /\ hand' = <<>>
  /\ epc' = "sync"
  /\ UNCHANGED <<radioVars, radio, dpc, storeVars, execVars, readVars,
                 failures>>

ExecEmpty ==
  /\ epc = "sync"
  /\ inbox = <<>>
  /\ epc' = "scan"
  /\ UNCHANGED <<radioVars, radio, dpc, hand, batch, storeVars, eventVars,
                 execVars, readVars, failures>>

\* After an error the messages collected so far are not looked at.
ExecSyncErr ==
  /\ epc = "sync"
  /\ FetchFails
  /\ batch' = <<>>
  /\ epc' = "wait"
  /\ UNCHANGED <<drainReq, mail, repeats, asked, replied, radio, dpc, hand,
                 storeVars, eventVars, execVars, readVars>>

\* The first CLI message of the batch is the answer.
ExecScan ==
  LET replies == SelectSeq(batch, LAMBDA m : m.kind = "cli")
  IN  /\ epc = "scan"
      /\ batch' = <<>>
      /\ IF replies # <<>>
         THEN ExecReturn
         ELSE epc' = "wait" /\ UNCHANGED radio
      /\ UNCHANGED <<radioVars, dpc, hand, storeVars, eventVars, execs,
                     execTook, readVars, failures>>

ExecTimeout ==
  /\ epc = "wait"
  /\ ExecReturn
  /\ UNCHANGED <<radioVars, dpc, hand, batch, storeVars, eventVars, execs,
                 execTook, readVars, failures>>
-----------------------------------------------------------------------------
\* The inbox request (storedInbox): the unread rows are selected, then marked
\* read by id, all with the radio locked; they are returned even if the mark
\* fails.
ReadInbox ==
  /\ radio = "none"
  /\ reads < MaxReads
  /\ reads' = reads + 1
  /\ handed' = [r \in Row |->
                 IF r \in unread THEN handed[r] + 1 ELSE handed[r]]
  /\ \/ unread' = {} /\ UNCHANGED failures
     \/ Fails /\ UNCHANGED unread
  /\ UNCHANGED <<radioVars, loopVars, stored, peer, relabels, eventVars,
                 execVars>>
-----------------------------------------------------------------------------
DrainStep ==
  \/ DrainFetch \/ DrainEmpty \/ DrainErr \/ DrainPersist \/ DrainEmit
  \/ DrainReturn

ExecStep ==
  \/ ExecSend \/ ExecSendErr \/ ExecEvent \/ ExecTick \/ ExecFetch
  \/ ExecEmit \/ ExecEmpty \/ ExecSyncErr \/ ExecScan \/ ExecTimeout

Next ==
  \/ ChatArrives
  \/ \E n \in 1..MaxMail : ChatRepeats(n)
  \/ \E k \in 1..MaxExecs : ReplyArrives(k)
  \/ DrainWake \/ DrainLock \/ DrainSkip \/ DrainStep
  \/ ExecStart \/ ExecLock \/ ExecStep
  \/ ReadInbox

Spec == Init /\ [][Next]_vars

(***************************************************************************)
(* The goroutines keep running, a free mutex is given to some waiter, and  *)
(* the wait of repeater_exec has a deadline (it may tick any number of     *)
(* times before that).                                                     *)
(***************************************************************************)
Fairness ==
  /\ WF_vars(DrainWake)
  /\ WF_vars(DrainLock \/ ExecLock)
  /\ WF_vars(DrainStep)
  /\ WF_vars(ExecStep)
  /\ SF_vars(ExecTimeout)

FairSpec == Spec /\ Fairness
-----------------------------------------------------------------------------
(* Properties                                                              *)

Busy(pc) == pc \notin {"idle", "lock"}

\* Types of the variables; the lock is held exactly while somebody works; the
\* event subscription within its capacity.
TypeOK ==
  /\ inbox \in Seq(Message)
  /\ drainReq \in BOOLEAN
  /\ radio \in {"none", "drain", "exec"}
  /\ dpc \in {"idle", "lock", "fetch", "persist", "emit", "return"}
  /\ epc \in {"idle", "lock", "send", "wait", "sync", "emit", "scan"}
  /\ hand \in Seq(Message) /\ Len(hand) <= 1
  /\ batch \in Seq(Message)
  /\ events \in Seq(Message) /\ Len(events) <= EventBuffer
  /\ stored \subseteq Row
  /\ unread \subseteq stored
  /\ peer \in Peers
  /\ relabels \in 0..MaxRelabels
  /\ broadcast \subseteq Message
  /\ mail \in 0..MaxMail
  /\ repeats \in 0..MaxRepeats
  /\ execs \in 0..MaxExecs
  /\ asked \subseteq 1..execs
  /\ replied \subseteq asked
  /\ reads \in 0..MaxReads
  /\ handed \in [Row -> 0..MaxReads]
  /\ execTook \subseteq Message
  /\ failures \in 0..MaxFailures
  /\ radio = "drain" <=> Busy(dpc)
  /\ radio = "exec" <=> Busy(epc)

Arrived == {Chat(n) : n \in 1..mail} \union {Reply(k) : k \in replied}

\* The messages of the table.
StoredMail == {r.msg : r \in stored}

\* Without failures no message disappears between the radio and the store:
\* each one heard is still on the radio, in somebody's hand or stored; what
\* repeater_exec fetched, which is not stored, has at least been broadcast.
NothingVanishes ==
  failures = 0 =>
    Arrived \subseteq ToSet(inbox) \union ToSet(hand) \union StoredMail
                        \union (execTook \intersect broadcast)

\* What the drain loop broadcasts is persisted before watchers see it, however
\* fetches, repeated messages and requests interleave.
PersistedFirst ==
  failures = 0 => broadcast \ execTook \subseteq StoredMail

\* An inbox request never returns a row that an earlier one returned, also when
\* the mesh delivers its message again; and a message has a second row, to be
\* returned again, only if what its sender resolves to has changed.
HandedOutOnce ==
  failures = 0 =>
    /\ \A r \in Row : handed[r] <= 1
    /\ relabels = 0 => \A r, q \in stored : r.msg = q.msg => r = q

\* All three, over well-typed states: a message on its way from the radio to
\* the user is neither lost nor shown before it is stored, but for what
\* repeater_exec fetched, and it is handed out once under every peer.
MailIsKept == TypeOK /\ NothingVanishes /\ PersistedFirst /\ HandedOutOnce

\* messages.go "re-drains whenever the device signals MSG_WAITING": a signal
\* that comes while a drain is finishing is not lost, so the inbox is emptied
\* again and again unless a request fails.
InboxEmptied == []<>(inbox = <<>> \/ failures > 0)

\* A repeater_exec returns, even one that waits behind a drain.
ExecReturns == []<>(epc = "idle")
=============================================================================
