------------------------------ MODULE TracePath ------------------------------
(***************************************************************************)
(* Tracing a route: how a target becomes the path of a SEND_TRACE_PATH      *)
(* command (pathhash, paths.go), and the wait for the TRACE_DATA push that  *)
(* answers it, with the answers of earlier attempts still on their way.     *)
(* A byte of a node's hash is named by where it comes from: <<hop, k>> is   *)
(* byte k of the hop-th node's key.                                         *)
(***************************************************************************)
EXTENDS Naturals, Sequences, FiniteSets

CONSTANTS
  PathMetas,  \* values of a contact's out_path_len byte
  Hints,      \* byte lengths of the key prefix a target was given by
  HexHops,    \* numbers of hops of a target given as a hash path
  HexDigits,  \* hex digits per hop of such a target
  MaxTraces,  \* bound: attempts in a behaviour
  TracesCap   \* capacity of the client's traces channel (8 in the code)

OutPathUnknown == 255
MaxPathSize == 64
KeySize == 32

HashSizeFromTraceFlags(flags) == 2^flags
TraceSizes == {1, 2, 4, 8}
TraceFlagsFromHashSize(size) == CHOOSE flags \in 0..3 : 2^flags = size
HashSizeFromPathMeta(encoded) == encoded \div 64 + 1
HopCountFromPathMeta(encoded) == encoded % 64

\* The first n bytes of nodes 0, 1, 2 ... hashed to `size` bytes each.
HashBytes(n, size) == [i \in 1..n |-> <<(i - 1) \div size, (i - 1) % size>>]

\* raw is the length of the stored path: 64, or 0 from a short contact frame.
PathBytes(encoded, raw) ==
  LET n == HopCountFromPathMeta(encoded) * HashSizeFromPathMeta(encoded)
  IN HashBytes(IF n > raw THEN raw ELSE n, HashSizeFromPathMeta(encoded))

NearestTraceHashSize(n) ==
  IF n <= 1 THEN 1 ELSE IF n <= 2 THEN 2 ELSE IF n <= 4 THEN 4 ELSE 8

IsDirectOutPath(encoded) ==
  encoded # OutPathUnknown /\ HopCountFromPathMeta(encoded) = 0

HasStoredOutPath(encoded, raw) ==
  /\ encoded # OutPathUnknown
  /\ HopCountFromPathMeta(encoded) # 0
  /\ PathBytes(encoded, raw) # <<>>

Plan(path, size, source) ==
  [ok |-> TRUE, path |-> path, size |-> size,
   flags |-> TraceFlagsFromHashSize(size), source |-> source]
PlanError == [ok |-> FALSE, path |-> <<>>, size |-> 1, flags |-> 0, source |-> "none"]

\* Faulty variant: 3-byte hops are not cut to two bytes.
TracePathFromOutPath_Unspread(encoded, raw) ==
  LET path == PathBytes(encoded, raw)
      size == HashSizeFromPathMeta(encoded)
  IN IF path = <<>> THEN PlanError
     ELSE Plan(path, IF size = 3 THEN 2 ELSE size, "contact_out_path")

\* Packets route by 1 to 4 byte hashes, traces by 1, 2, 4 or 8: the first two
\* bytes of each whole (or nearly whole) 3-byte hop are kept.
TracePathFromOutPath(encoded, raw) ==
  LET path == PathBytes(encoded, raw)
      size == HashSizeFromPathMeta(encoded)
      hops == {i \in 0..(HopCountFromPathMeta(encoded) - 1) :
                 i * 3 + 2 <= Len(path)}
  IN IF path = <<>> THEN PlanError
     ELSE IF size # 3 THEN Plan(path, size, "contact_out_path")
     ELSE Plan([i \in 1..(2 * Cardinality(hops)) |->
                  path[((i - 1) \div 2) * 3 + ((i - 1) % 2) + 1]],
               2, "contact_out_path")

\* The node's own key stands for a route nobody has stored.
traceKeyFallback(ct, hint, source) ==
  LET wanted == NearestTraceHashSize(IF hint <= 0 THEN 2 ELSE hint)
      size   == IF wanted > ct.key THEN NearestTraceHashSize(ct.key) ELSE wanted
  IN IF ct.key = 0 THEN PlanError ELSE Plan(HashBytes(size, size), size, source)

PlanTraceContact(ct, hint) ==
  LET hasPath == ct.enc # OutPathUnknown
  IN IF hasPath /\ HasStoredOutPath(ct.enc, ct.raw)
     THEN TracePathFromOutPath(ct.enc, ct.raw)
     ELSE IF hasPath /\ IsDirectOutPath(ct.enc)
     THEN traceKeyFallback(ct, IF hint <= 0 THEN HashSizeFromPathMeta(ct.enc)
                               ELSE hint, "contact_direct_path")
     ELSE traceKeyFallback(ct, hint, "contact_key_fallback")

\* A list of `hops` hex strings; ragged: the last one has two digits more.
ParsePath(t) ==
  LET size == t.digits \div 2
  IN IF \/ t.hops = 0
        \/ t.digits % 2 # 0
        \/ size \notin TraceSizes
        \/ t.ragged /\ t.hops > 1
        \/ t.hops * size > MaxPathSize
     THEN PlanError ELSE Plan(HashBytes(t.hops * size, size), size, "explicit_path")

Targets ==
  [kind : {"contact"}, enc : PathMetas, raw : {0, MaxPathSize},
   key : {0, KeySize}, hint : Hints]
  \union
  [kind : {"hex"}, hops : HexHops, digits : HexDigits, ragged : BOOLEAN]

planTrace(t) == IF t.kind = "hex" THEN ParsePath(t) ELSE PlanTraceContact(t, t.hint)

Split(path, size) ==
  IF path = <<>> \/ Len(path) % size # 0 THEN <<>>
  ELSE [h \in 1..(Len(path) \div size) |->
          SubSeq(path, (h - 1) * size + 1, h * size)]

hopCount(path, size) == Len(path) \div size

-----------------------------------------------------------------------------
VARIABLES
  pc,      \* idle | send | wait | done | failed
  target,  \* what the caller asked for
  plan,    \* the resolved plan
  tag,     \* the attempt's tag: attempts are numbered (tags are random)
  mesh,    \* tags of the traces whose answer may still arrive
  traces,  \* the client's traces channel
  result   \* the TRACE_DATA returned to the caller, or NoResult

vars == <<pc, target, plan, tag, mesh, traces, result>>

NoResult == [tag |-> 0, path |-> <<>>, size |-> 1, snrs |-> 0]
NoTarget == [kind |-> "hex", hops |-> 0, digits |-> 0, ragged |-> FALSE]

Init == /\ pc = "idle"
        /\ target = NoTarget
        /\ plan = PlanError
        /\ tag = 0
        /\ mesh = {}
        /\ traces = <<>>
        /\ result = NoResult

\* Trace, TraceContactWithHint
Start == /\ pc = "idle"
         /\ target' \in Targets
         /\ plan' = planTrace(target')
         /\ IF plan'.ok THEN pc' = "send" /\ tag' = 1
                        ELSE pc' = "failed" /\ tag' = tag
         /\ UNCHANGED <<mesh, traces, result>>

\* The command reaches the radio; its SENT answer may or may not be seen.
Sent == /\ pc = "send"
        /\ mesh' = mesh \union {tag}
        /\ pc' \in {"wait", "failed"}
        /\ UNCHANGED <<target, plan, tag, traces, result>>

\* The command is refused, or the write fails.
SendErr == /\ pc = "send"
           /\ pc' = "failed"
           /\ UNCHANGED <<target, plan, tag, mesh, traces, result>>

\* The device reports the path it was given, one SNR per hop and a last one;
\* handleAsync drops the push when the channel is full.
Answer(g) == [tag |-> g, path |-> plan.path, size |-> HashSizeFromTraceFlags(plan.flags),
              snrs |-> Len(plan.path) \div 2^plan.flags + 1]
Arrive(g) == /\ g \in mesh
             /\ mesh' = mesh \ {g}
             /\ traces' = IF Len(traces) < TracesCap THEN Append(traces, Answer(g))
                                                     ELSE traces
             /\ UNCHANGED <<pc, target, plan, tag, result>>

Lost(g) == /\ g \in mesh
           /\ mesh' = mesh \ {g}
           /\ UNCHANGED <<pc, target, plan, tag, traces, result>>

\* Faulty variant: a trace with another tag is taken.
Receive_AnyTag == /\ pc = "wait"
                  /\ traces # <<>>
                  /\ traces' = Tail(traces)
                  /\ pc' = "done" /\ result' = Head(traces)
                  /\ UNCHANGED <<target, plan, tag, mesh>>

\* tracePath's loop: answers to other tags are skipped.
Receive == /\ pc = "wait"
           /\ traces # <<>>
           /\ traces' = Tail(traces)
           /\ IF Head(traces).tag = tag
              THEN pc' = "done" /\ result' = Head(traces)
              ELSE UNCHANGED <<pc, result>>
           /\ UNCHANGED <<target, plan, tag, mesh>>

Timeout == /\ pc = "wait"
           /\ pc' = "failed"
           /\ UNCHANGED <<target, plan, tag, mesh, traces, result>>

\* The caller tries the same target again.
Retry == /\ pc \in {"done", "failed"}
         /\ plan.ok
         /\ tag < MaxTraces
         /\ pc' = "send"
         /\ tag' = tag + 1
         /\ result' = NoResult
         /\ UNCHANGED <<target, plan, mesh, traces>>

Next == \/ Start \/ Sent \/ SendErr \/ Receive \/ Timeout \/ Retry
        \/ \E g \in 1..MaxTraces : Arrive(g) \/ Lost(g)

Spec == Init /\ [][Next]_vars

-----------------------------------------------------------------------------
(* The path of a plan is a whole number of hops that fits the packet, and  *)
(* hop h of it is a prefix of the h-th node of the stored route (or of the *)
(* target itself), also when 3-byte hops are cut to two or the stored path *)
(* is longer than its 64 bytes.                                            *)
PlanFollowsRoute ==
  plan.ok =>
    LET hops == Split(plan.path, plan.size)
    IN /\ hopCount(plan.path, plan.size) >= 1
       /\ Len(plan.path) <= MaxPathSize
       /\ Len(plan.path) % plan.size = 0
       /\ HashSizeFromTraceFlags(plan.flags) = plan.size
       /\ \A h \in DOMAIN hops : \A k \in 1..plan.size :
            hops[h][k] = <<h - 1, k - 1>>

(* A trace that is returned answers this very attempt, however many        *)
(* answers to earlier attempts were waiting in the channel, and carries    *)
(* one measurement per hop of the plan and one for the way back.           *)
TraceIsOwn ==
  pc = "done" => /\ result.tag = tag
                 /\ result.path = plan.path
                 /\ result.snrs = hopCount(plan.path, plan.size) + 1
=============================================================================
