------------------------------ MODULE Repeaters ------------------------------
(***************************************************************************)
(* Requests whose answer comes over the mesh, long after the radio accepted *)
(* them: repeater_login, repeater_status, repeater_exec and node discovery. *)
(* The radio lock lets one run at a time, but the channels they wait on     *)
(* live as long as the connection: what nobody took stays in them.  The     *)
(* sessions of the store are hints; the radio's connection table decides.   *)
(* A repeater is [name, key], both numbers that stand for texts (the key    *)
(* for its 6-byte prefix), so that a name may read like somebody's key; a   *)
(* query is a name or a key.                                                *)
(***************************************************************************)
EXTENDS Naturals, Sequences, SequencesExt, FiniteSets

CONSTANTS
  Remotes,     \* repeaters in the contact replica: [name, key]
  Nodes,       \* keys of the nodes that answer a discovery; NoKey: without one
  EventCap,    \* capacity of the client's event channel (64)
  DiscoverCap, \* capacity of the discoveries channel
  MaxOps,      \* bound: requests
  MaxHeard     \* bound: answers to a discovery before the mesh repeats none

NoKey == 0
Names == {r.name : r \in Remotes}
Row == [key |-> 0, active |-> FALSE]    \* no row, or one that has expired

VARIABLES
  table,     \* the radio: keys of the repeaters it is connected to
  admitted,  \* keys of the repeaters that ever accepted a login
  air,       \* answers under way, some of them for ever: [kind, key, of, ok]
  inbox,     \* the radio: CLI replies nobody has fetched
  events,    \* the client's event channel
  found,     \* the client's discoveries channel: [node, of]
  rows,      \* store: repeater_sessions by name
  files,     \* repeaters with an active session file in the configuration
  unsaved,   \* repeaters the command line logged in to and has no file of yet
  op,        \* request under way: [id, kind, remote, byKey, good, cli]
  pc,        \* idle | ensure | send | wait
  nodes,     \* nodes of the current or last discovery
  givenUp,   \* requests that reached the radio and ended without an answer
  answer,    \* last answer: [kind, id, of, key, ok]
  ops        \* requests so far

radio == <<table, admitted, air, inbox>>
sessions == <<files, unsaved>>
vars == <<radio, events, found, rows, sessions, op, pc, nodes, givenUp, answer, ops>>

Init == /\ files \in {{}} \union {{r} : r \in Remotes} /\ unsaved = {}
        /\ table \in {{}, {r.key : r \in Remotes}}
        /\ admitted = table \union {r.key : r \in files}
        /\ air = {} /\ inbox = <<>> /\ events = <<>> /\ found = <<>>
        /\ rows = [n \in Names |-> Row]
        /\ op = [id |-> 0] /\ pc = "idle"
        /\ nodes = <<>> /\ givenUp = {} /\ answer = [id |-> 0] /\ ops = 0

\* Dispatcher.Emit: a full channel loses its oldest event.
Emit(evs) == events' = LET all == events \o evs
                       IN SubSeq(all, IF Len(all) > EventCap THEN Len(all) - EventCap + 1 ELSE 1,
                                 Len(all))

-----------------------------------------------------------------------------
(* The mesh and the radio.  translate makes a login result and a status an  *)
(* event, a reply waits in the inbox, a discovery answer goes to a channel  *)
(* that drops it when full.                                                 *)
Arrive(m) ==
  /\ m \in air
  /\ air' = air \ {m}
  /\ table' = IF m.kind = "login" /\ m.ok THEN table \union {m.key} ELSE table
  /\ admitted' = IF m.kind = "login" /\ m.ok THEN admitted \union {m.key} ELSE admitted
  /\ IF m.kind \in {"login", "status"} THEN Emit(<<m>>) ELSE UNCHANGED events
  /\ inbox' = IF m.kind = "exec" THEN Append(inbox, m) ELSE inbox
  /\ found' = IF m.kind = "discover" /\ Len(found) < DiscoverCap
              THEN Append(found, m) ELSE found
  /\ UNCHANGED <<rows, sessions, op, pc, nodes, givenUp, answer, ops>>

Forgets(k) == /\ k \in table /\ pc = "idle"
              /\ table' = table \ {k}
              /\ UNCHANGED <<admitted, air, inbox, events, found, rows, sessions, op, pc,
                             nodes, givenUp, answer, ops>>

\* RepeaterSession.Active: the session's expiry passes.
Expires(n) == /\ rows[n].active /\ pc = "idle"
              /\ rows' = [rows EXCEPT ![n] = Row]
              /\ UNCHANGED <<radio, events, found, sessions, op, pc, nodes, givenUp, answer, ops>>

\* The drain loop, whenever it gets the radio.
Drain == /\ pc = "idle" /\ inbox # <<>>
         /\ Emit(inbox)
         /\ inbox' = <<>>
         /\ UNCHANGED <<table, admitted, air, found, rows, sessions, op, pc, nodes, givenUp,
                        answer, ops>>

-----------------------------------------------------------------------------
(* The requests.                                                           *)
\* replicaContact: a name finds the first contact of that name.
Resolve(r, byKey) ==
  IF byKey THEN r
  ELSE CHOOSE s \in Remotes : s.name = r.name /\ \A t \in Remotes : t.name = r.name => s.key <= t.key

Begin(kind, r, byKey, good, cli) ==
  /\ pc = "idle" /\ ops < MaxOps
  /\ ops' = ops + 1
  /\ op' = [id |-> ops', kind |-> kind, remote |-> Resolve(r, byKey), byKey |-> byKey,
            good |-> good, cli |-> cli]
  /\ pc' = IF kind \in {"status", "exec"} THEN "ensure" ELSE "send"
  /\ nodes' = IF kind = "discover" THEN <<>> ELSE nodes
  /\ UNCHANGED <<radio, events, found, rows, unsaved, givenUp, answer>>

Start(kind, r, byKey, good) == Begin(kind, r, byKey, good, FALSE) /\ UNCHANGED files

repeaterLogin(r, byKey) == \E good \in BOOLEAN : Start("login", r, byKey, good)
repeaterStatus(r, byKey) == Start("status", r, byKey, TRUE)
repeaterExec(r, byKey) == Start("exec", r, byKey, TRUE)
discoverNodes == Start("discover", CHOOSE r \in Remotes : TRUE, TRUE, TRUE)

\* The command line keeps a session file of its own.  Before a query it logs
\* in unless it has one (or has_connection succeeds and says there is no
\* need); after a query that failed it drops the file and logs in again.  The
\* file is found by key, the login is sent by name.
ensureRepeaterLogin(r, force) ==
  /\ force \/ r \notin files
  /\ \E good \in BOOLEAN : Begin("login", r, FALSE, good, TRUE)
  /\ files' = files \ {r}

runRepeaterQuery(r) == \/ ensureRepeaterLogin(r, FALSE)
                       \/ ensureRepeaterLogin(r, TRUE)

SaveRepeaterSession(r) ==
  /\ r \in unsaved
  /\ files' = files \union {r} /\ unsaved' = unsaved \ {r}
  /\ UNCHANGED <<radio, events, found, rows, op, pc, nodes, givenUp, answer, ops>>

FileExpires(r) ==
  /\ r \in files /\ pc = "idle"
  /\ files' = files \ {r}
  /\ UNCHANGED <<radio, events, found, rows, unsaved, op, pc, nodes, givenUp, answer, ops>>

\* UpsertRepeaterSession and ClearRepeaterSession; rows are named by the
\* repeater's name, a query by key names none.
Upserted(r) == [rows EXCEPT ![r.name] = [key |-> r.key, active |-> TRUE]]
Cleared == IF op.byKey THEN rows ELSE [rows EXCEPT ![op.remote.name] = Row]

CachedSession == ~op.byKey /\ rows[op.remote.name].active
FileSessions == {r \in files : IF op.byKey THEN r.key = op.remote.key
                               ELSE r.name = op.remote.name}

\* ensureRepeaterSession without a password: the stored session, a session
\* file, or the radio's connection table; it never fails.
Ensure ==
  /\ pc = "ensure"
  /\ pc' = "send"
  /\ IF CachedSession THEN UNCHANGED rows
     ELSE IF FileSessions # {} THEN \E r \in FileSessions : rows' = Upserted(r)
     ELSE \/ op.remote.key \in table /\ rows' = Upserted(op.remote)
          \/ UNCHANGED rows      \* not connected, or the request failed
  /\ UNCHANGED <<radio, events, found, sessions, op, nodes, givenUp, answer, ops>>

Answers == IF op.kind = "discover"
           THEN {[kind |-> "discover", key |-> n, of |-> op.id, ok |-> TRUE] : n \in Nodes}
           ELSE {[kind |-> op.kind, key |-> op.remote.key, of |-> op.id, ok |-> op.good]}

Transmit(kind) == /\ pc = "send" /\ op.kind = kind
                  /\ air' = air \union Answers
                  /\ pc' = "wait"
                  /\ UNCHANGED <<table, admitted, inbox, events, found, rows, sessions, op, nodes,
                                 givenUp, answer, ops>>

RepeaterLoginContact == Transmit("login")
RepeaterStatusContact == Transmit("status")
RepeaterExecContact == Transmit("exec")
DiscoverNodes == Transmit("discover")

\* Faulty variant: a failed login keeps the stored session.
Fails_KeepsRow == pc' = "idle" /\ UNCHANGED rows

\* A login that fails in any way clears the session named by the query.
Fails == /\ pc' = "idle"
         /\ rows' = IF op.kind = "login" THEN Cleared ELSE rows

\* The request for the radio fails, before the command has reached the radio
\* or after it: SENT was lost, came too late, or another answer was taken for
\* it.
SendFails ==
  /\ pc = "send"
  /\ Fails
  /\ \/ UNCHANGED <<air, givenUp>>
     \/ air' = air \union Answers /\ givenUp' = givenUp \union {op}
  /\ UNCHANGED <<table, admitted, inbox, events, found, sessions, op, nodes, answer, ops>>

-----------------------------------------------------------------------------
(* waitForRepeaterLogin, waitForRepeaterStatus, RepeaterExecContact: the    *)
(* first event of the right kind and sender is the answer, every other one  *)
(* is dropped.                                                              *)
\* Faulty variant: the sender is not looked at.
Matches_AnySender(e) == e.kind = op.kind

\* loginPrefixMatches, repeaterSenderMatches: the sender is the repeater's key
\* or reads like its name.
Matches(e) == e.kind = op.kind /\ e.key \in {op.remote.key, op.remote.name}

Answered(e) ==
  /\ answer' = [id |-> op.id, kind |-> op.kind, asked |-> op.remote.key,
                of |-> e.of, key |-> e.key, ok |-> e.ok]
  /\ IF op.kind = "login" /\ ~e.ok THEN Fails
     ELSE /\ pc' = "idle"
          /\ rows' = IF op.kind = "login" THEN Upserted(op.remote) ELSE rows
  /\ unsaved' = IF op.cli /\ e.ok THEN unsaved \union {op.remote} ELSE unsaved

TakeEvent(kind) ==
  /\ pc = "wait" /\ op.kind = kind /\ events # <<>>
  /\ events' = Tail(events)
  /\ IF Matches(Head(events)) THEN Answered(Head(events))
     ELSE UNCHANGED <<pc, rows, unsaved, answer>>
  /\ UNCHANGED <<radio, found, files, op, nodes, givenUp, ops>>

waitForRepeaterLogin == TakeEvent("login")
waitForRepeaterStatus == TakeEvent("status")
ExecEvent == TakeEvent("exec")

\* The ticker: SyncMessages empties the inbox, every message also becomes an
\* event, and the first one that matches is the answer.
Poll ==
  /\ pc = "wait" /\ op.kind = "exec" /\ inbox # <<>>
  /\ Emit(inbox)
  /\ inbox' = <<>>
  /\ LET matching == SelectSeq(inbox, Matches)
     IN IF matching # <<>> THEN Answered(Head(matching))
        ELSE UNCHANGED <<pc, rows, unsaved, answer>>
  /\ UNCHANGED <<table, admitted, air, found, files, op, nodes, givenUp, ops>>

TimesOut ==
  /\ pc = "wait" /\ op.kind # "discover"
  /\ givenUp' = givenUp \union {op}
  /\ Fails
  /\ UNCHANGED <<radio, events, found, sessions, op, nodes, answer, ops>>

\* The client is closed, and another one takes its place with empty channels.
\* A request under way fails (a session is ensured before or after that).
ConnectionCloses ==
  /\ pc # "ensure" /\ (pc # "idle" \/ events # <<>> \/ found # <<>>)
  /\ events' = <<>> /\ found' = <<>>
  /\ IF pc = "idle" THEN UNCHANGED <<pc, rows>> ELSE Fails
  /\ givenUp' = IF pc = "wait" THEN givenUp \union {op} ELSE givenUp
  /\ UNCHANGED <<radio, sessions, op, nodes, answer, ops>>

\* DiscoverNodes: other tags are skipped, and nodes already seen if they have a
\* key.
TakeNode ==
  /\ pc = "wait" /\ op.kind = "discover" /\ found # <<>>
  /\ found' = Tail(found)
  /\ LET n == Head(found).key
     IN nodes' = IF Head(found).of = op.id /\ (n = NoKey \/ ~Contains(nodes, n))
                 THEN Append(nodes, n) ELSE nodes
  /\ UNCHANGED <<radio, events, rows, sessions, op, pc, givenUp, answer, ops>>

WindowEnds == /\ pc = "wait" /\ op.kind = "discover"
              /\ pc' = "idle"
              /\ answer' = [id |-> op.id, kind |-> "discover"]
              /\ UNCHANGED <<radio, events, found, rows, sessions, op, nodes, givenUp, ops>>

\* The mesh repeats an answer to a discovery.
Heard(n) == /\ pc = "wait" /\ op.kind = "discover" /\ Len(found) < DiscoverCap
            /\ Len(nodes) + Len(found) < MaxHeard
            /\ found' = Append(found, [kind |-> "discover", key |-> n, of |-> op.id, ok |-> TRUE])
            /\ UNCHANGED <<radio, events, rows, sessions, op, pc, nodes, givenUp, answer, ops>>

Serve == \/ Ensure \/ SendFails \/ Poll \/ TimesOut \/ TakeNode \/ WindowEnds
         \/ RepeaterLoginContact \/ RepeaterStatusContact \/ RepeaterExecContact
         \/ DiscoverNodes
         \/ waitForRepeaterLogin \/ waitForRepeaterStatus \/ ExecEvent

Next == \/ \E m \in air : Arrive(m)
        \/ \E k \in table : Forgets(k)
        \/ \E n \in Names : Expires(n)
        \/ Drain \/ ConnectionCloses
        \/ \E r \in Remotes, byKey \in BOOLEAN :
             repeaterLogin(r, byKey) \/ repeaterStatus(r, byKey) \/ repeaterExec(r, byKey)
        \/ discoverNodes
        \/ \E r \in Remotes : runRepeaterQuery(r) \/ SaveRepeaterSession(r) \/ FileExpires(r)
        \/ Serve
        \/ \E n \in Nodes : Heard(n)

Spec == Init /\ [][Next]_vars

-----------------------------------------------------------------------------
\* No other repeater's key reads like the name of the repeater with key k.
Plain(k) == \A r, s \in Remotes : r.key = k /\ r.name = s.key => s.key = k

(* A login or a status is answered by the repeater it was sent to, unless   *)
(* that repeater's name reads like another one's key; and with the answer   *)
(* to an earlier request only if an earlier request of the kind (to that    *)
(* repeater) reached the radio and ended without an answer: it timed out,   *)
(* its SENT was lost, or the connection was closed.  (From then on every    *)
(* answer may be the one to the request before.)                            *)
AnswerIsOwn ==
  (answer.id # 0 /\ answer.kind \in {"login", "status"})
     => /\ Plain(answer.asked) => answer.key = answer.asked
        /\ answer.of # answer.id =>
             \E g \in givenUp :
               /\ g.id < answer.id
               /\ g.kind = answer.kind
               /\ Plain(answer.asked) => g.remote.key = answer.asked

(* repeater_exec "sends a command to a remote repeater CLI and waits for a   *)
(* text response": the text is the reply to this command, unless an earlier *)
(* command timed out before its reply came.                                 *)
ExecAnswersCommand ==
  (answer.id # 0 /\ answer.kind = "exec" /\ givenUp = {}) => answer.of = answer.id

\* A login was accepted by the repeater with key k, or by one whose key reads
\* like its name.
Vouched(k) == \/ k \in admitted
              \/ \E r \in Remotes : r.key = k /\ r.name \in admitted

(* A session the store calls active, and one the command line has on file,   *)
(* belongs to a repeater that accepted a login; and a login that failed for *)
(* a repeater queried by name, because it was refused, could not be sent,   *)
(* was not answered in time or lost its connection, leaves none in the      *)
(* store, whatever was there before.                                        *)
SessionIsReal ==
  /\ \A n \in Names : rows[n].active => Vouched(rows[n].key)
  /\ \A r \in files : Vouched(r.key)
  /\ (/\ pc = "idle" /\ op.id # 0 /\ op.kind = "login" /\ ~op.byKey
      /\ ~(answer.id = op.id /\ answer.ok))
       => ~rows[op.remote.name].active

(* A discovery lists a node that has a key once, whatever the mesh repeats  *)
(* and whatever earlier discoveries have left in the channel.               *)
NodesOnce ==
  \A i, j \in 1..Len(nodes) : nodes[i] = nodes[j] /\ nodes[i] # NoKey => i = j

(* Both: what the command line and the store keep about repeaters is true   *)
(* of the mesh.                                                             *)
RemotesAreReal == SessionIsReal /\ NodesOnce
=============================================================================
