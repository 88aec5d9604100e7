-------------------------------- MODULE Chat --------------------------------
(***************************************************************************)
(* The interactive chat (mc chat): the program loads the history once while *)
(* a live stream already delivers, sends what the user types from a         *)
(* goroutine of its own and shows how each message fared.  Update handles   *)
(* one program message at a time; the load, the sends, the stream and the   *)
(* listener run beside it.  A received message reaches the screen as the    *)
(* stored copy and as the streamed one, which the program converts in two   *)
(* ways; both carry raw, what was received, which the program does not see: *)
(* it tells messages apart by direction, second and text.                   *)
(***************************************************************************)
EXTENDS Naturals, Sequences, SequencesExt

CONSTANTS
  Sessions,  \* "ipc": over the backend, with history; "direct": live only;
             \* "channel", "live channel": the same on a channel, hence no codes
  Texts,     \* texts users send: a body, after a sender's name (author), with
             \* white space around it (spaced)
  StreamCap, \* capacity of the session's stream (64)
  MaxMsgs,   \* bound: messages received and typed
  MaxClock   \* bound: seconds that pass

VARIABLES
  session,   \* which chatSession
  now,       \* the clock, in seconds
  store,     \* the backend's messages of this conversation
  heard,     \* messages received since the watch began
  feed,      \* events on their way to the watch goroutine
  watch,     \* connecting | on | ended
  ch,        \* the session's stream
  closed,    \* the stream is closed
  load,      \* running | loaded | done: the history on its way
  history,   \* what load has read
  listen,    \* a chatListenCmd is waiting
  sender,    \* send goroutine: idle | queue | radio | echo | ok | failed
  out,       \* the message it sends
  sending,   \* the program's flag
  msgs,      \* what is shown
  seen,      \* keys of the messages added so far
  aired,     \* codes of the messages the radio took
  acked,     \* codes the mesh has confirmed
  quit,      \* the user has quit: the context is done
  crashed,   \* a send on the closed stream has panicked
  ins, outs  \* messages received and typed so far

backend == <<session, now, store, heard, feed, acked, ins>>
stream == <<watch, ch, closed>>
loading == <<load, history>>
screen == <<listen, sending, msgs, seen>>
vars == <<backend, stream, loading, screen, sender, out, aired, quit, crashed, outs>>

OnChannel == session \in {"channel", "live channel"}
HasStore == session \in {"ipc", "channel"}

\* The time of a packet that is too short to carry one.
NoTime == 0
NoText == [body |-> 0, author |-> FALSE, spaced |-> FALSE]
NoRaw == [text |-> NoText, sec |-> NoTime]

Ours(text, sec, id) == [mine |-> TRUE, text |-> text, sec |-> sec, status |-> "queued",
                        code |-> 0, id |-> id, raw |-> NoRaw]

Theirs(text, sec, raw) == [mine |-> FALSE, text |-> text, sec |-> sec, status |-> "",
                           code |-> 0, id |-> 0, raw |-> raw]

NoMsg == Theirs(NoText, NoTime, NoRaw)

\* strings.TrimSpace
Trim(t) == [t EXCEPT !.spaced = FALSE]

\* The body of a channel text, trimmed, without the sender's name.
extractChannelAuthor(t) == [Trim(t) EXCEPT !.author = FALSE]

\* A stored message as the history shows it: a channel text without a name
\* before it stays as it is.
chatMessageFromRecord(m) ==
  IF OnChannel /\ ~m.mine /\ m.text.author
  THEN [m EXCEPT !.text = extractChannelAuthor(m.text)] ELSE m

\* A received message as the stream shows it: incomingChannelMessage trims
\* every text.
incomingMessage(raw) ==
  Theirs(IF OnChannel THEN extractChannelAuthor(raw.text) ELSE raw.text, raw.sec, raw)

\* A received message as a row: one without a time gets the time of storing.
Record(raw) == Theirs(raw.text, IF raw.sec = NoTime THEN now ELSE raw.sec, raw)

\* newChatModel and the session's constructor; an older message is stored.
Init == /\ session \in Sessions
        /\ now = 1
        /\ store = <<>> \/ \E t \in Texts : store = <<Record([text |-> t, sec |-> now])>>
        /\ ~HasStore => store = <<>>
        /\ heard = {} /\ feed = <<>> /\ watch = "connecting" /\ ch = <<>> /\ closed = FALSE
        /\ load = "running" /\ history = <<>> /\ listen = TRUE
        /\ sender = "idle" /\ out = NoMsg /\ sending = FALSE
        /\ msgs = <<>> /\ seen = {} /\ aired = {} /\ acked = {} /\ quit = FALSE /\ crashed = FALSE
        /\ ins = 0 /\ outs = 0

-----------------------------------------------------------------------------
(* The backend and the mesh.                                                *)

\* The backend's watch stream: its subscription exists while it is on.
Publish(ev) == feed' = IF watch = "on" THEN Append(feed, ev) ELSE feed

\* persistIncoming: a row already there with this text and time only gains a
\* reception; the row may be missing from this conversation (a failed insert,
\* a sender filed under another peer).
Persisted(raw) ==
  LET known == \E i \in DOMAIN store :
                 ~store[i].mine /\ store[i].text = raw.text /\ store[i].sec = raw.sec
  IN {store} \union (IF HasStore /\ ~known THEN {Append(store, Record(raw))} ELSE {})

\* A message is received: stored, then broadcast (Inbox).  Its time is the
\* sender's.
Receive(t, sec) == LET raw == [text |-> t, sec |-> sec] IN
  /\ ins + outs < MaxMsgs
  /\ ins' = ins + 1
  /\ store' \in Persisted(raw)
  /\ heard' = IF watch = "on" THEN heard \union {incomingMessage(raw)} ELSE heard
  /\ Publish([message |-> incomingMessage(raw), ack |-> 0])
  /\ UNCHANGED <<session, now, acked>>

\* The mesh confirms a sent message; the backend stores that (MessageDelivery).
Confirm(c) ==
  /\ c \in aired \ acked
  /\ acked' = acked \union {c}
  /\ store' = [i \in DOMAIN store |-> IF store[i].code = c
                                      THEN [store[i] EXCEPT !.status = "delivered"] ELSE store[i]]
  /\ Publish([message |-> NoMsg, ack |-> c])
  /\ UNCHANGED <<session, now, heard, ins>>

Tick == /\ now < MaxClock
        /\ now' = now + 1
        /\ UNCHANGED <<session, store, heard, feed, acked, ins>>

Outside == /\ (\E t \in Texts, sec \in 0..MaxClock : Receive(t, sec)) \/ (\E c \in 1..MaxMsgs : Confirm(c)) \/ Tick
           /\ UNCHANGED <<stream, loading, screen, sender, out, aired, quit, crashed, outs>>

-----------------------------------------------------------------------------
(* The stream: watch and push.                                              *)

push(ev) == \/ Len(ch) < StreamCap /\ ch' = Append(ch, ev)
            \/ quit /\ ch' = ch

WatchOpens == /\ watch = "connecting"
              /\ watch' = "on"
              /\ UNCHANGED <<feed, ch, closed>>

\* watch forwards the events that are this target's.
Forward == /\ watch = "on" /\ feed # <<>>
           /\ feed' = Tail(feed)
           /\ push(Head(feed))
           /\ UNCHANGED <<watch, closed>>

\* Watch failed, the backend went away or the context is done: watch returns
\* and its deferred close runs.
WatchEnds == /\ \/ watch = "connecting"
                \/ watch = "on" /\ (feed = <<>> \/ quit)
             /\ watch' = "ended" /\ closed' = TRUE /\ feed' = <<>>
             /\ UNCHANGED ch

Watching == /\ WatchOpens \/ Forward \/ WatchEnds
            /\ UNCHANGED <<session, now, store, heard, acked, ins>>
            /\ UNCHANGED <<loading, screen, sender, out, aired, quit, crashed, outs>>

-----------------------------------------------------------------------------
(* The model: addMessage, addOrUpdateOutgoing, setOutgoingStatus.  A shown  *)
(* state is [msgs, seen].                                                   *)

Key(m) == <<m.mine, m.sec, m.text>>

addMessage(s, m) == IF Key(m) \in s.seen THEN s
                    ELSE [msgs |-> Append(s.msgs, m), seen |-> s.seen \union {Key(m)}]

\* Messages added one after the other.
addHistory(s, list) ==
  LET upTo[n \in 0..Len(list)] == IF n = 0 THEN s ELSE addMessage(upTo[n - 1], list[n])
  IN upTo[Len(list)]

\* The last message of ours with this text.
LastMine(s, text) == LET mine == {i \in DOMAIN s.msgs : s.msgs[i].mine /\ s.msgs[i].text = text}
                 IN IF mine = {} THEN 0 ELSE Max(mine)

addOrUpdateOutgoing(s, m) ==
  LET i == LastMine(s, m.text) IN
  IF i # 0 /\ s.msgs[i].status \in {"queued", "failed"}
  THEN [s EXCEPT !.msgs[i].status = m.status, !.msgs[i].code = m.code, !.msgs[i].sec = m.sec]
  ELSE addMessage(s, m)

setOutgoingStatus(s, text, status) ==
  LET i == LastMine(s, text) IN IF i = 0 THEN s ELSE [s EXCEPT !.msgs[i].status = status]

\* Faulty variant: a confirmation marks every message of ours.
Acknowledge_All(s, c) ==
  [s EXCEPT !.msgs = [i \in DOMAIN s.msgs |->
     IF s.msgs[i].mine /\ c # 0 THEN [s.msgs[i] EXCEPT !.status = "delivered"] ELSE s.msgs[i]]]

Acknowledge(s, c) ==
  [s EXCEPT !.msgs = [i \in DOMAIN s.msgs |->
     IF s.msgs[i].mine /\ c # 0 /\ s.msgs[i].code = c
     THEN [s.msgs[i] EXCEPT !.status = "delivered"] ELSE s.msgs[i]]]

applyStream(s, ev) ==
  Acknowledge(IF ev.message = NoMsg THEN s
              ELSE IF ev.message.mine THEN addOrUpdateOutgoing(s, ev.message)
              ELSE addMessage(s, ev.message), ev.ack)

Shown == [msgs |-> msgs, seen |-> seen]
Show(s) == msgs' = s.msgs /\ seen' = s.seen

-----------------------------------------------------------------------------
(* Update.                                                                  *)

Loads == /\ load = "running"
         /\ load' = "loaded"
         /\ history' = [i \in DOMAIN store |-> chatMessageFromRecord(store[i])]
         /\ UNCHANGED <<screen, sender, out, outs>>

\* chatLoadErrMsg
LoadFails == /\ load = "running"
             /\ load' = "done"
             /\ UNCHANGED <<history, screen, sender, out, outs>>

\* chatLoadedMsg: the list starts anew, the keys seen do not.
ApplyLoaded == /\ load = "loaded"
               /\ load' = "done" /\ history' = <<>>
               /\ Show(addHistory([Shown EXCEPT !.msgs = <<>>], history))
               /\ UNCHANGED <<listen, sending, sender, out, outs>>

\* chatStreamMsg
ApplyStream == /\ listen /\ ch # <<>>
               /\ ch' = Tail(ch)
               /\ Show(applyStream(Shown, Head(ch)))
               /\ UNCHANGED <<watch, closed, listen, sending, sender, out, loading, outs>>

\* chatClosedMsg: nobody listens any more.
ApplyClosed == /\ listen /\ ch = <<>> /\ closed
               /\ listen' = FALSE
               /\ UNCHANGED <<sending, msgs, seen, loading, sender, out, outs>>

\* Enter
Type(t) == /\ ins + outs < MaxMsgs /\ ~sending
           /\ outs' = outs + 1
           /\ sending' = TRUE /\ sender' = "queue"
           /\ out' = Ours(Trim(t), now, outs')
           /\ Show(addMessage(Shown, out'))
           /\ UNCHANGED <<listen, loading>>

\* chatSentMsg
ApplySent == /\ sender \in {"ok", "failed"}
             /\ sender' = "idle" /\ sending' = FALSE
             /\ Show(IF sender = "failed" THEN setOutgoingStatus(Shown, out.text, "failed") ELSE Shown)
             /\ UNCHANGED <<listen, out, loading, outs>>

Quit == /\ quit' = TRUE
        /\ UNCHANGED <<backend, stream, loading, screen, sender, out, aired, crashed, outs>>

Update == /\ \/ (\E t \in Texts : Type(t)) \/ ApplySent \/ ApplyClosed
             \/ ApplyLoaded \/ Loads \/ LoadFails
          /\ UNCHANGED <<backend, stream, aired, quit, crashed>>

-----------------------------------------------------------------------------
(* send: the backend stores the message, the radio takes it or does not.    *)

Queues == /\ sender = "queue"
          /\ sender' = "radio"
          /\ store' = IF HasStore THEN Append(store, [out EXCEPT !.sec = now]) ELSE store
          /\ UNCHANGED <<out, aired, ch, crashed>>

Stored(status, code) ==
  store' = [i \in DOMAIN store |-> IF store[i].mine /\ store[i].id = out.id
                                   THEN [store[i] EXCEPT !.status = status, !.code = code] ELSE store[i]]

Accepts == /\ sender = "radio"
           /\ sender' = "echo"
           /\ LET code == IF OnChannel THEN 0 ELSE out.id IN
              /\ out' = [out EXCEPT !.status = "sent", !.code = code]
              /\ Stored("sent", code)
              /\ aired' = IF OnChannel THEN aired ELSE aired \union {code}
           /\ UNCHANGED <<ch, crashed>>

Refuses == /\ sender = "radio"
           /\ sender' = "failed"
           /\ Stored("failed", 0)
           /\ UNCHANGED <<out, aired, ch, crashed>>

\* The echo onto the stream; on a closed one the send panics.
Echo == /\ sender = "echo"
        /\ IF closed THEN /\ sender' = "ok" /\ ch' = ch
                          /\ crashed' \in IF quit THEN BOOLEAN ELSE {TRUE}
           ELSE /\ push([message |-> [out EXCEPT !.sec = now], ack |-> 0])
                /\ sender' = "ok" /\ crashed' = FALSE
        /\ UNCHANGED <<out, aired, store>>

Sending == /\ Queues \/ Accepts \/ Refuses \/ Echo
           /\ UNCHANGED <<session, now, heard, feed, acked, ins, watch, closed>>
           /\ UNCHANGED <<loading, screen, quit, outs>>

Next == \/ ~crashed /\ ~quit /\ Outside
        \/ ~crashed /\ Watching
        \/ ~crashed /\ Sending
        \/ ~crashed /\ ~quit /\ (Update \/ Quit)
        \/ ~crashed /\ ~quit /\ ApplyStream /\ UNCHANGED <<backend, aired, quit, crashed>>

Spec == Init /\ [][Next]_vars

-----------------------------------------------------------------------------
Incoming == {i \in DOMAIN msgs : ~msgs[i].mine}

\* The stored and the streamed copy of a message have the same key: it has a
\* time, and a channel text names its sender or has no white space around it.
Plain(raw) == raw.sec # NoTime /\ (OnChannel => raw.text.author \/ ~raw.text.spaced)

\* Whatever the order of the history load, the live stream and the sends, no
\* received message is on the screen twice, except one whose two copies the
\* program cannot tell to be the same (Plain), and a message marked delivered
\* carries a code the mesh has confirmed (the conversions, addMessage's keys,
\* applyStream's match by code).
ScreenIsHonest ==
  /\ \A i, j \in Incoming : msgs[i].raw = msgs[j].raw /\ Plain(msgs[i].raw) => i = j
  /\ \A i \in DOMAIN msgs : msgs[i].status = "delivered" => msgs[i].code \in acked

\* addMessage skips a message only if "an identical one was already recorded",
\* to guard "against the same message arriving via both the initial load and
\* the live stream": once both have been applied, every message received
\* since the chat began to watch is on the screen.
ReceivedIsShown ==
  load = "done" /\ feed = <<>> /\ ch = <<>> /\ ~quit /\ ~crashed
    => \A m \in heard : \E i \in DOMAIN msgs : Key(msgs[i]) = Key(m)
=============================================================================
