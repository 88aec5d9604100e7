------------------------------- MODULE Channels -------------------------------
(***************************************************************************)
(* The channel slots of the radio and their replica in the store: adding,   *)
(* removing, sending on and syncing channels.  Every operation holds the    *)
(* radio and reads the slots one request at a time; a request may fail, or  *)
(* be given the late answer to an earlier one.  A name is what the user     *)
(* typed: base is what is left of it without '#' and case; if num, base is  *)
(* a number and the name means a slot in a query.  Contents of a slot: a    *)
(* name and a key, or None.                                                 *)
(***************************************************************************)
EXTENDS Naturals, FiniteSets, FiniteSetsExt

CONSTANTS
  N,           \* slots that are probed (maxChannels, 8 in the code)
  RadioSlots,  \* slots of the radio
  Names,       \* [base, hash, num]
  Keys,        \* channel secrets
  MaxMisreads, \* bound: requests given another request's answer
  MaxFaults,   \* bound: requests that fail
  MaxOps       \* bound: operations

None == [name |-> "none"]
Slots == 0..(RadioSlots - 1)
NoSlot == N + RadioSlots
Content == {None} \union [name : Names, key : Keys]

VARIABLES
  slots,     \* the radio: contents of each slot
  store,     \* the replica: a set of [index, content] with distinct indices
  op,        \* the operation under way: what, name, key, at (slot to read
             \* next), existing, free (slots found, or NoSlot),
             \* list (named slots read so far), clean (no misread)
  pc,        \* idle | scan | act | sync | insert
  mirrored,  \* the store was filled by a clean sync and the radio is as it was
  sent,      \* last channel message: [slot, recorded], or None
  misreads, faults, ops

vars == <<slots, store, op, pc, mirrored, sent, misreads, faults, ops>>
counters == <<misreads, faults, ops>>

\* strings.EqualFold keeps the '#', a query drops it.
EqualFold(a, b) == a.base = b.base /\ a.hash = b.hash
Matches(name, query) == name.base = query.base

\* Channels: the named slots among those that are probed.
Entries(s) == {[index |-> i, content |-> s[i]] : i \in {j \in Slots : j < N /\ s[j] # None}}

\* Channel and SQLiteStateStore.Channel: the slot with that number, or the
\* first with that name.
Lookup(entries, query) ==
  {e \in entries :
     IF query.num THEN e.index = query.base
     ELSE /\ Matches(e.content.name, query)
          /\ \A f \in entries : Matches(f.content.name, query) => e.index <= f.index}

NoOp == [what |-> "none"]

Init == /\ slots \in {[i \in Slots |-> IF i = 0 THEN c ELSE None] : c \in Content}
        /\ store = {} /\ op = NoOp /\ pc = "idle"
        /\ mirrored = FALSE /\ sent = None
        /\ misreads = 0 /\ faults = 0 /\ ops = 0

-----------------------------------------------------------------------------
(* The requests: channel_add, channel_remove, send_channel_text and         *)
(* channels with refresh, also run by the initial sync.  A number as a      *)
(* query asks for one slot only, truncated to a byte.                       *)
Start(what, name, key) ==
  /\ pc = "idle" /\ ops < MaxOps
  /\ ops' = ops + 1
  /\ op' = [what |-> what, name |-> name, key |-> key, clean |-> TRUE,
            at |-> IF what \in {"remove", "send"} /\ name.num
                   THEN name.base % 256 ELSE 0,
            existing |-> NoSlot, free |-> NoSlot, list |-> {},
            recorded |-> Lookup(store, name)]
  /\ pc' = IF what = "sync" THEN "sync" ELSE "scan"
  /\ UNCHANGED <<slots, store, mirrored, sent, misreads, faults>>

\* Another client, through a bridge, changes a slot.
OtherClient(i, c) ==
  /\ pc = "idle" /\ ops < MaxOps
  /\ ops' = ops + 1
  /\ slots' = [slots EXCEPT ![i] = c]
  /\ mirrored' = FALSE
  /\ UNCHANGED <<store, op, pc, sent, misreads, faults>>

\* channelAt: ChannelInfo for a slot the radio has, otherwise an error
\* message, which counts as no channel.
Answer(i) == IF i \in Slots THEN [ok |-> TRUE, index |-> i, content |-> slots[i]]
             ELSE [ok |-> FALSE]
Answers == {[ok |-> FALSE]} \union {Answer(i) : i \in Slots}

Reads(a) == \/ a = Answer(op.at) /\ UNCHANGED misreads
            \/ a # Answer(op.at) /\ misreads < MaxMisreads /\ misreads' = misreads + 1

Named(a) == a.ok /\ a.content # None
Clean(a) == op.clean /\ a = Answer(op.at)
Listed(a) ==
  IF Named(a) THEN op.list \union {[index |-> a.index, content |-> a.content]}
  ELSE op.list

Finish == op' = NoOp /\ pc' = "idle"

\* Faulty variant: a slot with a name counts as free.
AddScan_AnySlot(a) ==
  /\ pc = "scan" /\ op.what = "add" /\ op.at < N
  /\ Reads(a)
  /\ IF Named(a) /\ EqualFold(a.content.name, op.name)
     THEN /\ op' = [op EXCEPT !.existing = op.at, !.clean = Clean(a)]
          /\ pc' = "act"
     ELSE /\ op' = [op EXCEPT !.at = @ + 1, !.clean = Clean(a),
                              !.free = IF @ = NoSlot THEN op.at ELSE @]
          /\ pc' = IF op.at + 1 = N THEN "act" ELSE "scan"
  /\ UNCHANGED <<slots, store, mirrored, sent, faults, ops>>

\* AddChannel: one slot of its loop.
AddScan(a) ==
  /\ pc = "scan" /\ op.what = "add" /\ op.at < N
  /\ Reads(a)
  /\ IF Named(a) /\ EqualFold(a.content.name, op.name)
     THEN /\ op' = [op EXCEPT !.existing = op.at, !.clean = Clean(a)]
          /\ pc' = "act"
     ELSE /\ op' = [op EXCEPT !.at = @ + 1, !.clean = Clean(a),
                              !.free = IF ~Named(a) /\ @ = NoSlot THEN op.at ELSE @]
          /\ pc' = IF op.at + 1 = N THEN "act" ELSE "scan"
  /\ UNCHANGED <<slots, store, mirrored, sent, faults, ops>>

\* Channel: the numbered slot, named or not, or all slots, then the first match.
LookupScan(a) ==
  /\ pc = "scan" /\ op.what \in {"remove", "send"}
  /\ Reads(a)
  /\ IF op.name.num
     THEN IF a.ok THEN /\ op' = [op EXCEPT !.existing = a.index, !.clean = Clean(a)]
                       /\ pc' = "act"
                  ELSE Finish
     ELSE LET list == Listed(a)
              found == Lookup(list, op.name)
          IN IF op.at + 1 < N
             THEN op' = [op EXCEPT !.at = @ + 1, !.list = list, !.clean = Clean(a)]
                  /\ UNCHANGED pc
             ELSE IF found = {} THEN Finish
             ELSE /\ op' = [op EXCEPT !.existing = (CHOOSE e \in found : TRUE).index,
                                      !.clean = Clean(a)]
                  /\ pc' = "act"
  /\ UNCHANGED <<slots, store, mirrored, sent, faults, ops>>

Fault == faults < MaxFaults /\ faults' = faults + 1

ScanFails == /\ pc \in {"scan", "sync"}
             /\ Fault
             /\ Finish
             /\ UNCHANGED <<slots, store, mirrored, sent, misreads, ops>>

-----------------------------------------------------------------------------
Target == IF op.existing # NoSlot THEN op.existing ELSE op.free

\* No slot is free, or it is one the radio does not have and will not write.
NoFreeSlot == /\ pc = "act" /\ Target \notin Slots
              /\ Finish
              /\ UNCHANGED <<slots, store, mirrored, sent, counters>>

\* SetChannelAt; what follows on success is the sync of the request.
SetChannelAt ==
  /\ pc = "act" /\ op.what \in {"add", "remove"} /\ Target \in Slots
  /\ slots' = [slots EXCEPT ![Target] =
                 IF op.what = "add" THEN [name |-> op.name, key |-> op.key] ELSE None]
  /\ mirrored' = FALSE
  /\ \/ pc' = "sync" /\ op' = [op EXCEPT !.at = 0, !.list = {}, !.clean = TRUE]
        /\ UNCHANGED faults
     \/ Fault /\ Finish      \* written, but the answer was lost
  /\ UNCHANGED <<store, sent, misreads, ops>>

ActRejected == /\ pc = "act"
               /\ Fault
               /\ Finish
               /\ UNCHANGED <<slots, store, mirrored, sent, misreads, ops>>

\* SendChannelText, after the message was stored under what the replica says.
SendOn == /\ pc = "act" /\ op.what = "send"
          /\ sent' = [slot |-> op.existing, recorded |-> op.recorded, clean |-> op.clean,
                      mirrored |-> mirrored, name |-> op.name, content |-> slots[op.existing]]
          /\ Finish
          /\ UNCHANGED <<slots, store, mirrored, counters>>

-----------------------------------------------------------------------------
(* syncChannels: Channels, then UpsertChannels replaces the stored set.     *)
SyncScan(a) ==
  /\ pc = "sync"
  /\ Reads(a)
  /\ op' = [op EXCEPT !.at = @ + 1, !.list = Listed(a), !.clean = Clean(a)]
  /\ pc' = IF op.at + 1 = N THEN "insert" ELSE "sync"
  /\ UNCHANGED <<slots, store, mirrored, sent, faults, ops>>

\* Faulty variant: slots that are gone keep their rows.
UpsertChannels_NoDelete ==
  /\ pc = "insert"
  /\ store' = op.list \union
                {e \in store : \A f \in op.list : f.index # e.index}
  /\ mirrored' = op.clean
  /\ Finish
  /\ UNCHANGED <<slots, sent, counters>>

\* Of two entries for a slot the later one stays; which one that is needs a
\* misread, so either may.
UpsertChannels ==
  /\ pc = "insert"
  /\ \E kept \in SUBSET op.list :
       /\ \A e \in op.list : Cardinality({k \in kept : k.index = e.index}) = 1
       /\ store' = kept
  /\ mirrored' = op.clean
  /\ Finish
  /\ UNCHANGED <<slots, sent, counters>>

StoreFails == /\ pc = "insert"
              /\ Fault
              /\ Finish
              /\ UNCHANGED <<slots, store, mirrored, sent, misreads, ops>>

Next == \/ \E what \in {"add", "remove", "send"}, n \in Names, k \in Keys : Start(what, n, k)
        \/ \E n \in Names, k \in Keys : Start("sync", n, k)
        \/ \E i \in Slots, c \in Content : OtherClient(i, c)
        \/ \E a \in Answers : AddScan(a) \/ LookupScan(a) \/ SyncScan(a)
        \/ ScanFails \/ NoFreeSlot \/ SetChannelAt \/ ActRejected \/ SendOn
        \/ UpsertChannels \/ StoreFails

Spec == Init /\ [][Next]_vars

-----------------------------------------------------------------------------
(* After a sync without a misread the replica holds exactly the radio's     *)
(* named slots that are probed: a channel that was removed or renamed is    *)
(* gone, until the radio is changed behind the session's back.              *)
ReplicaIsRadio == mirrored => store = Entries(slots)

(* A channel operation changes only the slot that was asked for: channel_add *)
(* never overwrites a slot that holds another channel, and channel_remove   *)
(* clears only a slot its query names, unless an answer was misread or the  *)
(* number does not fit a byte.                                              *)
AddKeeps(i) == slots[i] = None \/ EqualFold(slots[i].name, op.name)
RemoveKeeps(i) == IF op.name.num THEN i = op.name.base
                  ELSE slots[i] # None /\ Matches(slots[i].name, op.name)
OnlyAsked == [][\A i \in Slots :
                  (pc = "act" /\ op.clean /\ op.name.base < 256 /\ slots'[i] # slots[i])
                    => IF op.what = "add" THEN AddKeeps(i) ELSE RemoveKeeps(i)]_vars

(* A channel message goes out on the slot it was stored under, as long as    *)
(* the replica mirrored the radio and the slot is one that is probed.       *)
SentAsRecorded ==
  (sent # None /\ sent.mirrored /\ sent.clean /\ sent.content # None /\ sent.slot < N)
     => (sent.name.base < 256 => sent.slot \in {e.index : e \in sent.recorded})

(* Both: the replica and the message rows name the slots the radio uses.    *)
SlotsAgree == ReplicaIsRadio /\ SentAsRecorded
=============================================================================
