----------------------------- MODULE MCBackend ------------------------------
(***************************************************************************)
(* The backend and the programs that use it, one part at a time: the       *)
(* daemon's sessions (Daemon), repeater commands (Repeaters), a chat       *)
(* (Chat) and invocations of the command line (CommandLine).  Which part a *)
(* behaviour is about is chosen at the start; the others stay in Init.     *)
(* Safety only.                                                            *)
(***************************************************************************)
EXTENDS Daemon, TLC

CONSTANTS
  Remotes, Nodes, EventCap, DiscoverCap, MaxOps,    \* Repeaters
  MaxHeard,
  Sessions, Texts, StreamCap, MaxMsgs, MaxClock,    \* Chat
  Procs, Profiles, MaxDaemons                       \* CommandLine

ASSUME MCBackendAssumption ==
  /\ EventCap \in Nat /\ MaxDaemons \in Nat
  /\ Remotes # {} /\ Remotes \subseteq [name : Nat, key : Nat]
  /\ Texts \subseteq [body : Nat, author : BOOLEAN, spaced : BOOLEAN]

\* Two repeaters of the same name, which reads like the key of one of them.
TwoRemotes == {[name |-> 2, key |-> 1], [name |-> 2, key |-> 2]}

\* A text without a sender's name and with white space around it: on a channel
\* its stored and its streamed copy differ.
OneText == {[body |-> 1, author |-> FALSE, spaced |-> TRUE]}

\* Invocations are interchangeable: nothing tells them apart, and all the
\* properties are invariants.
Interchangeable == Permutations(Procs)

VARIABLES
  which,
  table, admitted, air, replies, events, found, rows, files, unsaved, request,
  step, nodes, givenUp, answer, ops,
  session, now, store, heard, feed, watch, ch, closed, load, history, listen,
  sender, out, sending, msgs, seen, aired, acked, quit, crashed, ins, outs,
  cfg, file, socket, daemon, holder, proc

Remote == INSTANCE Repeaters WITH inbox <- replies, op <- request, pc <- step
Talk == INSTANCE Chat
Cli == INSTANCE CommandLine WITH Devices <- Profiles, radio <- holder

remoteVars == <<table, admitted, air, replies, events, found, rows, files,
                unsaved, request, step, nodes, givenUp, answer, ops>>
talkVars == <<session, now, store, heard, feed, watch, ch, closed, load,
              history, listen, sender, out, sending, msgs, seen, aired, acked,
              quit, crashed, ins, outs>>
cliVars == <<cfg, file, socket, daemon, holder, proc>>
mcVars == <<which, vars, remoteVars, talkVars, cliVars>>

\* A part that is not chosen has one initial state.
MCInit ==
  /\ which \in {"daemon", "repeaters", "chat", "cli"}
  /\ Init /\ Remote!Init /\ Talk!Init /\ Cli!Init
  /\ which # "repeaters" => files = {} /\ table = {}
  /\ which # "chat" => session = "direct" /\ store = <<>>
  /\ which # "cli" => cfg.current = CHOOSE d \in Profiles : TRUE

MCNext ==
  \/ /\ which = "daemon" /\ Next
     /\ UNCHANGED <<which, remoteVars, talkVars, cliVars>>
  \/ /\ which = "repeaters" /\ Remote!Next
     /\ UNCHANGED <<which, vars, talkVars, cliVars>>
  \/ /\ which = "chat" /\ Talk!Next
     /\ UNCHANGED <<which, vars, remoteVars, cliVars>>
  \/ /\ which = "cli" /\ Cli!Next
     /\ UNCHANGED <<which, vars, remoteVars, talkVars>>

MCSpec == MCInit /\ [][MCNext]_mcVars

-----------------------------------------------------------------------------
(* The parts' properties; the daemon's has its own name.                   *)

\* repeaters.go (Repeaters): logins and statuses are answered by the repeater
\* that was asked, with a late answer only once a request was given up.
AnswerIsOwn == Remote!AnswerIsOwn

\* repeaters.go, repeater.go, node_discover.go (Repeaters): sessions are of
\* repeaters that accepted a login, a failed login leaves none, and a node that
\* has a key is discovered once.
RemotesAreReal == Remote!RemotesAreReal

\* chat_model.go (Chat): no message is shown twice, unless its stored and its
\* streamed copy differ, or shown as delivered without a confirmation.
ScreenIsHonest == Talk!ScreenIsHonest

\* connect.go, backend_cmd.go (CommandLine): selections are saved profiles, and
\* a stopped daemon is stopped.
CommandsTellTruth == Cli!CommandsTellTruth
=============================================================================
