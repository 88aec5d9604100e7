------------------------------- MODULE MCLink -------------------------------
(***************************************************************************)
(* The layers between a command and its answer, one at a time: which one a *)
(* behaviour is about is chosen at the start and the others stay in their  *)
(* initial state.  The layers share no state in the code either: they meet *)
(* in one packet or one request.                                           *)
(***************************************************************************)
EXTENDS RequestQueue

CONSTANTS
  Transports, BootLoss, LineCap, MaxQuery, MaxPushes,   \* Handshake
  Kinds, Capacity, MaxFrames, MaxWrites,                \* PacketConn
  Marker, MaxLen, MaxSent,                              \* StreamFrame
  MaxBody, TraceBytes, ArgLengths                       \* CompanionCodec

\* The packet channels are buffered; the marker is a byte, and a payload may be
\* two bytes long; lengths are numbers.
ASSUME MCLinkAssumption ==
  /\ Capacity \in Nat /\ Capacity > 0
  /\ MaxLen \in Nat /\ MaxLen >= 2
  /\ Marker \in 0..(MaxLen + 1)
  /\ MaxBody \in Nat /\ TraceBytes \subseteq Nat /\ ArgLengths \subseteq Nat

\* Payloads without, with and like a marker, one that is too long when MaxLen is
\* 2, and noise before the first frame.
Payloads == {<<>>, <<0, 0>>, <<Marker, 0>>, <<0>>, <<0, 0, 0>>}
Noise == {<<>>, <<0>>, <<Marker>>}

VARIABLES
  which,
  transport, hsPc, out, line, buffered, past, boot, tries, version, pushes,
  late, wrong,
  connKind, stage, scan, linked, closing, done, frames, packets, hand, feeder,
  readErr, connReader, connGot, writes, current, flying, gaveUp, air,
  resync, stream, framed, hit, pos, want, begin, need, unframed,
  at, pkt, cmd

Hs == INSTANCE Handshake WITH pc <- hsPc
Conn == INSTANCE PacketConn
          WITH kind <- connKind, reader <- connReader, got <- connGot

Framing == INSTANCE StreamFrame
             WITH MaxFrames <- MaxSent, sent <- framed, got <- unframed
Codec == INSTANCE CompanionCodec

hsVars == <<transport, hsPc, out, line, buffered, past, boot, tries, version,
            pushes, late, wrong>>
connVars == <<connKind, stage, scan, linked, closing, done, frames, packets,
              hand, feeder, readErr, connReader, connGot, writes, current,
              flying, gaveUp, air>>
frameVars == <<resync, stream, framed, hit, pos, want, begin, need, unframed>>
codecVars == <<at, pkt, cmd>>
mcVars == <<which, vars, hsVars, connVars, frameVars, codecVars>>

\* A layer that is not chosen has one initial state.
MCInit ==
  /\ which \in {"queue", "handshake", "conn", "frames", "codec"}
  /\ Init /\ Hs!Init /\ Conn!Init /\ Framing!Init /\ Codec!Init
  /\ which # "handshake" => transport = "tcp" /\ boot = 0
  /\ which # "conn" => connKind = "serial"
  /\ which # "frames" => stream = <<>> /\ resync

MCNext ==
  \/ /\ which = "queue" /\ Next
     /\ UNCHANGED <<which, hsVars, connVars, frameVars, codecVars>>
  \/ /\ which = "handshake" /\ Hs!Next
     /\ UNCHANGED <<which, vars, connVars, frameVars, codecVars>>
  \/ /\ which = "conn" /\ Conn!Next
     /\ UNCHANGED <<which, vars, hsVars, frameVars, codecVars>>
  \/ /\ which = "frames" /\ Framing!Next
     /\ UNCHANGED <<which, vars, hsVars, connVars, codecVars>>
  \/ /\ which = "codec" /\ Codec!Next
     /\ UNCHANGED <<which, vars, hsVars, connVars, frameVars>>

\* Each layer's own fairness.  In Init no fair step of the queue or of a
\* connection is possible; those of the handshake are, and they are owed only
\* when it is chosen.
HsFairness ==
  /\ WF_hsVars(which = "handshake" /\ Hs!Boot)
  /\ WF_hsVars(which = "handshake" /\ Hs!Answer)
  /\ WF_hsVars(which = "handshake" /\ Hs!Host)

MCSpec ==
  /\ MCInit /\ [][MCNext]_mcVars
  /\ Fairness /\ HsFairness /\ Conn!Fairness

-----------------------------------------------------------------------------
(* The layers' properties; the queue's have their own names.               *)

\* handshake (Handshake): over a serial port it ends.
SerialHandshakeEnds == Hs!SerialHandshakeEnds

\* handshake (Handshake): a request gets another command's answer only after
\* something was given up.
StaleOnlyAfterTimeout == Hs!StaleOnlyAfterTimeout

\* serial.go, ble.go (PacketConn): packets keep their order both ways, and
\* neither a failed Open nor Close leaves a port, a device or a scan that had
\* begun behind.
LinkIsOrderly == Conn!LinkIsOrderly

\* serial.go, ble.go (PacketConn): Close returns and ends the goroutines.
CloseEnds == Conn!CloseEnds

\* streamframe.go (StreamFrame): frames arrive whole and in order, and damage
\* stays local.
FramesArrive == Framing!FramesArrive

\* decode.go, encode.go (CompanionCodec): every field lies inside its frame,
\* where both sides expect it.
FieldsAreSound == Codec!FieldsAreSound

\* client.go, decode.go (CompanionCodec): pushes and answers are told apart.
PushesNeverAnswer == Codec!PushesNeverAnswer
=============================================================================
