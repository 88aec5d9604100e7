----------------------------- MODULE StreamFrame -----------------------------
(***************************************************************************)
(* MeshCore stream framing: a marker, a length and a payload, written by    *)
(* one end and read byte by byte by the other, which looks for the marker   *)
(* between frames.  Bytes are 0..BadLength and the two bytes of the length  *)
(* are taken as one of them: lengths up to MaxLen are plausible, BadLength  *)
(* is not.  A byte of the stream may be lost or altered once on its way.    *)
(***************************************************************************)
EXTENDS Naturals, Sequences

CONSTANTS
  Marker,     \* the direction marker, which is also a possible length
  MaxLen,     \* longest plausible payload (8192 in the code)
  Payloads,   \* payloads that are sent
  Noise,      \* what may precede the first frame: sequences of bytes
  MaxFrames   \* bound: frames sent

BadLength == MaxLen + 1
Bytes == 0..BadLength

VARIABLES
  resync,  \* ReadResync instead of Read
  stream,  \* all bytes that were written, as they arrive
  sent,    \* frames written: [at, payload], at: position of the marker
  hit,     \* position of the damaged byte, 0: none
  pos,     \* bytes read so far
  want,    \* the reader: "marker", "length", "payload" or "error"
  begin,   \* position of the marker of the frame being read
  need,    \* length of the frame being read
  got      \* frames returned: [at, payload]

vars == <<resync, stream, sent, hit, pos, want, begin, need, got>>
reader == <<pos, want, begin, need, got>>

Init == /\ resync \in BOOLEAN
        /\ stream \in Noise
        /\ sent = <<>>
        /\ hit = 0
        /\ pos = 0 /\ want = "marker" /\ begin = 0 /\ need = 0
        /\ got = <<>>

\* The header and the payload are two writes to the same stream; a payload that
\* is too long is an error and nothing is written.
Write(payload) ==
  /\ Len(sent) < MaxFrames
  /\ Len(payload) <= MaxLen
  /\ stream' = stream \o <<Marker, Len(payload)>> \o payload
  /\ sent' = Append(sent, [at |-> Len(stream) + 1, payload |-> payload])
  /\ UNCHANGED <<resync, hit, reader>>

\* The link alters a byte the reader has not seen.
Corrupt(i, b) ==
  /\ hit = 0
  /\ i \in (pos + 1)..Len(stream) /\ b \in Bytes \ {stream[i]}
  /\ stream' = [stream EXCEPT ![i] = b]
  /\ hit' = i
  /\ UNCHANGED <<resync, sent, reader>>

\* The link loses a byte: what was sent behind it arrives one place earlier.
Lose(i) ==
  /\ hit = 0
  /\ i \in (pos + 1)..Len(stream)
  /\ stream' = SubSeq(stream, 1, i - 1) \o SubSeq(stream, i + 1, Len(stream))
  /\ sent' = [k \in DOMAIN sent |->
                IF sent[k].at > i THEN [sent[k] EXCEPT !.at = @ - 1] ELSE sent[k]]
  /\ hit' = i
  /\ UNCHANGED <<resync, reader>>

ReadByte == pos < Len(stream) /\ pos' = pos + 1

SkipToMarker ==
  /\ want = "marker"
  /\ ReadByte
  /\ IF stream[pos'] = Marker THEN want' = "length" /\ begin' = pos'
                              ELSE UNCHANGED <<want, begin>>
  /\ UNCHANGED <<resync, stream, sent, hit, need, got>>

\* Faulty variant: the largest length counts as out of range.
ReadLength_Strict ==
  /\ want = "length"
  /\ ReadByte
  /\ need' = stream[pos']
  /\ want' = IF need' < MaxLen THEN "payload"
             ELSE IF resync THEN "marker" ELSE "error"
  /\ UNCHANGED <<resync, stream, sent, hit, begin, got>>

ReadLength ==
  /\ want = "length"
  /\ ReadByte
  /\ need' = stream[pos']
  /\ want' = IF need' <= MaxLen THEN "payload"
             ELSE IF resync THEN "marker" ELSE "error"
  /\ UNCHANGED <<resync, stream, sent, hit, begin, got>>

ReadPayload ==
  /\ want = "payload"
  /\ pos + need <= Len(stream)
  /\ pos' = pos + need
  /\ got' = Append(got, [at |-> begin, payload |-> SubSeq(stream, pos + 1, pos')])
  /\ want' = "marker"
  /\ UNCHANGED <<resync, stream, sent, hit, begin, need>>

Next == \/ \E p \in Payloads : Write(p)
        \/ \E i \in 1..Len(stream) : Lose(i) \/ \E b \in Bytes : Corrupt(i, b)
        \/ SkipToMarker \/ ReadLength \/ ReadPayload

Spec == Init /\ [][Next]_vars

-----------------------------------------------------------------------------
Drained == want = "marker" /\ pos = Len(stream)

(* Over an undamaged stream the reader returns the frames that were        *)
(* written, in order and whole, whatever bytes they hold, behind any noise *)
(* that holds no marker.                                                   *)
CleanStream ==
  hit = 0 /\ (\A i \in 1..Len(stream) :
                stream[i] = Marker => \E k \in DOMAIN sent : i >= sent[k].at)
    => /\ want # "error"
       /\ Len(got) <= Len(sent)
       /\ got = SubSeq(sent, 1, Len(got))
       /\ Drained => got = sent

(* Frames that hold the marker nowhere but in front.                       *)
Calm(f) == Len(f.payload) # Marker /\ \A i \in DOMAIN f.payload : f.payload[i] # Marker

(* A damaged byte costs the frames that begin within a frame's length of   *)
(* it and no others: the reader that resynchronises, and the one that does *)
(* not as long as it has not failed, returns every later frame, if no      *)
(* payload or length looks like a marker.                                  *)
DamageBounded ==
  hit # 0 /\ Drained /\ (\A k \in DOMAIN sent : Calm(sent[k])) =>
    \A k \in DOMAIN sent :
      sent[k].at > hit + MaxLen + 1 =>
        \E g \in DOMAIN got : got[g] = sent[k]

(* Both: frames arrive whole and in order, and damage stays local.         *)
FramesArrive == CleanStream /\ DamageBounded
=============================================================================
