----------------------------- MODULE MCSession ------------------------------
(***************************************************************************)
(* Who gets the radio in the end: the session's own goroutines and bridges *)
(* (DeviceSession), or the requests of IPC clients (Ipc), whichever is     *)
(* chosen at the start; the other stays in Init.                           *)
(***************************************************************************)
EXTENDS DeviceSession, FiniteSets

CONSTANTS Handlers, MaxGen    \* Ipc

\* The lock's "none" is no handler.
ASSUME MCSessionAssumption == IsFiniteSet(Handlers) /\ "none" \notin Handlers

VARIABLES
  which,
  current, last, infoOK, pc, method, gone, gen, lock, active, waiters, clients

Requests == INSTANCE Ipc WITH client <- current

ipcVars == <<current, last, infoOK, pc, method, gone, gen, lock, active,
             waiters, clients>>
mcVars == <<which, vars, ipcVars>>

MCInit ==
  /\ which \in {"session", "ipc"}
  /\ Init /\ Requests!Init
  /\ which # "ipc" => infoOK

MCNext ==
  \/ which = "session" /\ Next /\ UNCHANGED <<which, ipcVars>>
  \/ which = "ipc" /\ Requests!Next /\ UNCHANGED <<which, vars>>

\* The fairness of DeviceSession, owed only when it is chosen: its poll and
\* drain have work in Init, the requests have none.
SessionFairness ==
  /\ WF_vars(which = "session" /\ (PollStep \/ ReconnectStep(Poll)))
  /\ \A r \in Reconnectors \ {Poll} :
       WF_vars(which = "session" /\ ReconnectStep(r))
  /\ SF_vars(/\ which = "session"
             /\ DrainStep \/ \E w \in Workers : WorkStep(w))

MCSpec == MCInit /\ [][MCNext]_mcVars /\ SessionFairness /\ Requests!Fairness

-----------------------------------------------------------------------------
(* The properties of Ipc; the session's have their own names.              *)

\* server.go (Ipc): the load that status shows is the real one.
StatusIsTrue == Requests!StatusIsTrue

\* server.go (Ipc): requests return, those that need no radio without it.
RequestsReturn == which = "ipc" => Requests!RequestsReturn
=============================================================================
