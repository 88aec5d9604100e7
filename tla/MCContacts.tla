----------------------------- MODULE MCContacts -----------------------------
(***************************************************************************)
(* What the host knows of contacts and channels, one part at a time: the   *)
(* contact replica (ContactSync), listings and names (ContactBook), the    *)
(* paths of traces (TracePath) and the channel slots (Channels).  Which    *)
(* part a behaviour is about is chosen at the start; the others stay in    *)
(* Init.                                                                   *)
(***************************************************************************)
EXTENDS ContactSync

CONSTANTS
  Book, MaxList, Now, NoDistance,                              \* ContactBook
  PathMetas, Hints, HexHops, HexDigits, MaxTraces, TracesCap,  \* TracePath
  N, RadioSlots, Keys, MaxMisreads, MaxFaults, MaxOps                      \* Channels

\* out_path_len is a byte, lengths, times and numbers are natural, and a radio
\* has channel slots.
ASSUME MCContactsAssumption ==
  /\ MaxList \in Nat /\ Now \in Nat
  /\ PathMetas \subseteq 0..255
  /\ Hints \subseteq Nat /\ HexHops \subseteq Nat /\ HexDigits \subseteq Nat
  /\ MaxTraces \in Nat /\ TracesCap \in Nat
  /\ N \in Nat /\ N > 0 /\ RadioSlots \in Nat /\ RadioSlots > 0

\* What a listing sorts by is a number or is missing, and no two contacts have
\* both name and key in common.
ASSUME BookAssumption ==
  /\ \A c \in Book : /\ c.name \in Nat /\ c.key \in Nat /\ c.type \in Nat
                     /\ c.last \in Nat /\ c.enc \in Nat
                     /\ c.dist = NoDistance \/ c.dist \in Nat
  /\ \A c, d \in Book : c.name = d.name /\ c.key = d.key => c = d

\* Contacts that tie in name, time, distance or key, and that lack a name, a
\* key, an advert or a position.
Entry(name, key, type, last, enc, dist) ==
  [name |-> name, key |-> key, type |-> type, last |-> last, enc |-> enc,
   dist |-> dist]
TiedBook ==
        {Entry(1, 1, 1, 5, 255, 3), Entry(1, 2, 2, 9, 0, 9),
         Entry(2, 0, 1, 0, 65, NoDistance), Entry(2, 3, 1, 5, 130, 3),
         Entry(0, 4, 2, 11, 64, NoDistance)}

\* Channel names that differ in the leading # only, the number of a slot that is
\* probed and of one that is not, and a number that does not fit a byte.
ChannelName(base, hash, num) == [base |-> base, hash |-> hash, num |-> num]
Names == {ChannelName(7, FALSE, FALSE), ChannelName(7, TRUE, FALSE),
          ChannelName(1, FALSE, TRUE), ChannelName(2, FALSE, TRUE),
          ChannelName(256, FALSE, TRUE)}

VARIABLES
  which,
  bookList, shown, query, match, asked,
  tracePc, target, plan, tag, mesh, traces, traced,
  slots, store, op, slotPc, mirrored, sent, misreads, faults, ops

Listing == INSTANCE ContactBook WITH list <- bookList
Trace == INSTANCE TracePath WITH pc <- tracePc, result <- traced
Slots == INSTANCE Channels WITH pc <- slotPc

bookVars == <<bookList, shown, query, match, asked>>
traceVars == <<tracePc, target, plan, tag, mesh, traces, traced>>
slotVars == <<slots, store, op, slotPc, mirrored, sent, misreads, faults, ops>>
mcVars == <<which, vars, bookVars, traceVars, slotVars>>

\* A part that is not chosen has one initial state.
MCInit ==
  /\ which \in {"sync", "book", "trace", "channels"}
  /\ Init /\ Listing!Init /\ Trace!Init /\ Slots!Init
  /\ which # "channels" => \A i \in DOMAIN slots : slots[i] = Slots!None

MCNext ==
  \/ which = "sync" /\ Next /\ UNCHANGED <<which, bookVars, traceVars, slotVars>>
  \/ which = "book" /\ Listing!Next /\ UNCHANGED <<which, vars, traceVars, slotVars>>
  \/ which = "trace" /\ Trace!Next /\ UNCHANGED <<which, vars, bookVars, slotVars>>
  \/ which = "channels" /\ Slots!Next /\ UNCHANGED <<which, vars, bookVars, traceVars>>

\* Init enables no fair step of the contact sync.
MCSpec == MCInit /\ [][MCNext]_mcVars /\ Fairness

-----------------------------------------------------------------------------
(* The parts' properties; the contact sync's have their own names.         *)

\* contacts.go, resolve (ContactBook): listings and names do not depend on
\* the order of the radio's list.
OrderFree == Listing!OrderFree

\* pathhash.go, trace.go (TracePath): a plan names the route's nodes.
PlanFollowsRoute == Trace!PlanFollowsRoute

\* client.go, trace.go (TracePath): a trace's answer is its own.
TraceIsOwn == Trace!TraceIsOwn

\* channels.go (Channels): replica and message rows name the radio's slots.
SlotsAgree == Slots!SlotsAgree

\* channels.go (Channels): an operation changes the slot it was asked for.
OnlyAsked == Slots!OnlyAsked
=============================================================================
