------------------------------ MODULE PacketConn ------------------------------
(***************************************************************************)
(* The serial and the BLE connection.  Inbound packets pass through a       *)
(* bounded channel: the serial reader goroutine waits for room in it, the   *)
(* BLE notification callback drops the oldest packet instead.  Open, Close  *)
(* and WritePacket hold the connection's mutex; a BLE write runs in a       *)
(* goroutine of its own, which goes on when its caller has given up.        *)
(* Packets are numbered in the order in which the device sends them.        *)
(***************************************************************************)
EXTENDS Naturals, Sequences, SequencesExt

CONSTANTS
  Kinds,      \* {"serial", "ble"}
  Capacity,   \* of the packet channel (16 for serial, 32 for BLE)
  MaxFrames,  \* bound: packets the device sends
  MaxWrites   \* bound: packets the host writes

VARIABLES
  kind,    \* the transport of this connection
  stage,   \* new | scan | found | linked | open | failed | closed
  scan,    \* the BLE scan: off | starting (its goroutine has not begun) | on |
           \* stopping (a match was reported) | late (not begun, and StopScan
           \* has been called already) | left (on, with nobody to stop it)
  linked,  \* the port is open, the BLE device connected
  closing, \* Close was called
  done,    \* the done channel is closed
  frames,  \* packets the device has sent
  packets, \* the packet channel
  hand,    \* what the reader goroutine or the callback is delivering, or <<>>
  feeder,  \* that goroutine: off | read | put | drop | last | ended
  readErr, \* a read error waits for ReadPacket
  reader,  \* the client's read loop: none | wait | ended
  got,     \* packets ReadPacket has returned
  writes,  \* packets given to WritePacket
  current, \* the write whose caller holds the mutex, or 0
  flying,  \* writes under way, with or without a caller
  gaveUp,  \* writes whose caller has given up
  air      \* writes in the order in which they reached the device

inbound == <<frames, packets, hand, feeder, readErr, reader, got>>
outbound == <<writes, current, flying, gaveUp, air>>
opening == <<stage, scan, linked>>
vars == <<kind, opening, closing, done, inbound, outbound>>

Init == /\ kind \in Kinds
        /\ stage = "new" /\ scan = "off" /\ linked = FALSE
        /\ closing = FALSE /\ done = FALSE
        /\ frames = 0 /\ packets = <<>> /\ hand = <<>>
        /\ feeder = "off" /\ readErr = FALSE
        /\ reader = "none" /\ got = <<>>
        /\ writes = 0 /\ current = 0 /\ flying = {} /\ gaveUp = {} /\ air = <<>>

MutexFree == current = 0 /\ stage \in {"new", "open", "failed", "closed"}

-----------------------------------------------------------------------------
(* Open.  The client starts its read loop when it has returned.            *)
Opened == /\ stage' = "open"
          /\ feeder' = "read"
          /\ reader' = "wait"
          /\ UNCHANGED <<frames, packets, hand, readErr, got>>

OpenSerial == /\ kind = "serial" /\ stage = "new" /\ ~closing
              /\ \/ linked' = TRUE /\ Opened
                 \/ stage' = "failed" /\ UNCHANGED <<linked, inbound>>
              /\ UNCHANGED <<kind, scan, closing, done, outbound>>

OpenBle == /\ kind = "ble" /\ stage = "new" /\ ~closing
           /\ stage' = "scan"
           /\ scan' = "starting"
           /\ UNCHANGED <<kind, linked, closing, done, inbound, outbound>>

\* findDevice runs adapter.Scan in a goroutine, which starts when it likes.
ScanStarts == /\ scan \in {"starting", "late"}
              /\ scan' = IF scan = "late" THEN "left" ELSE "on"
              /\ UNCHANGED <<kind, stage, linked, closing, done, inbound, outbound>>

\* The scan callback reports the match, then stops the scan.
ScanMatch == /\ stage = "scan" /\ scan = "on"
             /\ stage' = "found"
             /\ scan' = "stopping"
             /\ UNCHANGED <<kind, linked, closing, done, inbound, outbound>>

\* So does the callback of a scan nobody waits for.
LeftMatch == /\ scan = "left"
             /\ scan' = "stopping"
             /\ UNCHANGED <<kind, stage, linked, closing, done, inbound, outbound>>

StopScan == /\ scan = "stopping"
            /\ scan' = "off"
            /\ UNCHANGED <<kind, stage, linked, closing, done, inbound, outbound>>

\* The adapter refuses or ends the scan with an error.
ScanFails == /\ scan \in {"starting", "on", "late", "left"}
             /\ scan' = "off"
             /\ stage' = IF stage = "scan" THEN "failed" ELSE stage
             /\ UNCHANGED <<kind, linked, closing, done, inbound, outbound>>

\* Nothing is found in time: StopScan ends a scan that runs, and fails for one
\* that has not begun.
ScanTimeout == /\ stage = "scan"
               /\ stage' = "failed"
               /\ scan' = IF scan = "starting" THEN "late" ELSE "off"
               /\ UNCHANGED <<kind, linked, closing, done, inbound, outbound>>

Connect == /\ stage = "found"
           /\ \/ stage' = "linked" /\ linked' = TRUE
              \/ stage' = "failed" /\ UNCHANGED linked
           /\ UNCHANGED <<kind, scan, closing, done, inbound, outbound>>

\* The service, its characteristics and the subscription: what is missing
\* disconnects the device again.
Subscribe == /\ stage = "linked"
             /\ \/ Opened /\ UNCHANGED linked
                \/ stage' = "failed" /\ linked' = FALSE /\ UNCHANGED inbound
             /\ UNCHANGED <<kind, scan, closing, done, outbound>>

-----------------------------------------------------------------------------
(* Inbound: readLoop of the serial port, onNotify of the BLE device.       *)
Feed(h, f) == hand' = h /\ feeder' = f
FeederOnly == UNCHANGED <<kind, opening, closing, done, reader, got, outbound>>

Receive == /\ linked /\ feeder = "read"
           /\ frames < MaxFrames
           /\ frames' = frames + 1
           /\ Feed(<<frames'>>, "put")
           /\ UNCHANGED <<packets, readErr>> /\ FeederOnly

\* readFrame fails: the device is gone or the port was closed.
ReadFails == /\ kind = "serial" /\ feeder = "read"
             /\ readErr' = TRUE
             /\ Feed(<<>>, "ended")
             /\ UNCHANGED <<frames, packets>> /\ FeederOnly

Stored == /\ Len(packets) < Capacity
          /\ packets' = packets \o hand
          /\ Feed(<<>>, "read")

\* Faulty variant: the reader does not look at done.
Put_Blocks == /\ feeder = "put"
              /\ \/ Stored
                 \/ kind = "ble" /\ ~done /\ Len(packets) = Capacity
                    /\ Feed(hand, "drop") /\ UNCHANGED packets
              /\ UNCHANGED <<frames, readErr>> /\ FeederOnly

Put == /\ feeder = "put"
       /\ \/ Stored
          \/ done /\ Feed(<<>>, IF kind = "serial" THEN "ended" ELSE "read")
             /\ UNCHANGED packets
          \/ kind = "ble" /\ ~done /\ Len(packets) = Capacity
             /\ Feed(hand, "drop") /\ UNCHANGED packets
       /\ UNCHANGED <<frames, readErr>> /\ FeederOnly

\* Faulty variant: the newest packet is dropped, not the oldest.
DropOldest_Newest == /\ feeder = "drop"
                     /\ packets' = packets
                     /\ Feed(<<>>, "read")
                     /\ UNCHANGED <<frames, readErr>> /\ FeederOnly

DropOldest == /\ feeder = "drop"
              /\ packets' = IF packets = <<>> THEN packets ELSE Tail(packets)
              /\ Feed(hand, "last")
              /\ UNCHANGED <<frames, readErr>> /\ FeederOnly

PutLast == /\ feeder = "last"
           /\ \/ Stored
              \/ Len(packets) = Capacity /\ Feed(<<>>, "read") /\ UNCHANGED packets
           /\ UNCHANGED <<frames, readErr>> /\ FeederOnly

(* ReadPacket: select picks any of the cases that are ready.                *)
ReadPacket == /\ reader = "wait" /\ packets # <<>>
              /\ got' = Append(got, Head(packets))
              /\ packets' = Tail(packets)
              /\ UNCHANGED <<kind, opening, closing, done, frames, hand, feeder,
                             readErr, reader, outbound>>

\* An error, the closed connection or the cancelled context ends the loop.
ReadEnds == /\ reader = "wait"
            /\ readErr \/ done \/ closing
            /\ reader' = "ended"
            /\ readErr' = (readErr /\ (done \/ closing))
            /\ UNCHANGED <<kind, opening, closing, done, frames, packets, hand,
                           feeder, got, outbound>>

-----------------------------------------------------------------------------
(* Outbound.                                                               *)
WritePacket == /\ stage = "open" /\ MutexFree
               /\ writes < MaxWrites
               /\ writes' = writes + 1
               /\ current' = writes'
               /\ flying' = flying \union {writes'}
               /\ UNCHANGED <<kind, opening, closing, done, inbound, gaveUp, air>>

\* The write goroutine (for serial: the caller itself) ends; what it wrote
\* reaches a device that is still connected.
WriteEnds(w) == /\ w \in flying
                /\ flying' = flying \ {w}
                /\ \/ linked /\ air' = Append(air, w)
                   \/ UNCHANGED air
                /\ UNCHANGED <<kind, opening, closing, done, inbound, writes,
                               current, gaveUp>>

WriteReturns == /\ current # 0 /\ current \notin flying
                /\ current' = 0
                /\ UNCHANGED <<kind, opening, closing, done, inbound, writes,
                               flying, gaveUp, air>>

WriteGivenUp == /\ kind = "ble" /\ current \in flying
                /\ gaveUp' = gaveUp \union {current}
                /\ current' = 0
                /\ UNCHANGED <<kind, opening, closing, done, inbound, writes,
                               flying, air>>

-----------------------------------------------------------------------------
(* Close waits for the mutex: the done case of a pending BLE write cannot   *)
(* be what ends it.                                                         *)
CallClose == /\ ~closing
             /\ closing' = TRUE
             /\ UNCHANGED <<kind, opening, done, inbound, outbound>>

Close == /\ closing /\ ~done /\ MutexFree
         /\ done' = TRUE
         /\ linked' = FALSE
         /\ stage' = "closed"
         /\ UNCHANGED <<kind, scan, closing, inbound, outbound>>

Terminated == /\ done /\ reader \in {"none", "ended"}
              /\ feeder \in {"off", "ended"} \/ (kind = "ble" /\ feeder = "read")
              /\ flying = {} /\ scan \in {"off", "left"}

Next == \/ OpenSerial \/ OpenBle \/ ScanStarts \/ ScanMatch \/ LeftMatch \/ StopScan
        \/ ScanFails \/ ScanTimeout \/ Connect \/ Subscribe
        \/ Receive \/ ReadFails \/ Put \/ DropOldest \/ PutLast
        \/ ReadPacket \/ ReadEnds
        \/ WritePacket \/ (\E w \in 1..MaxWrites : WriteEnds(w))
        \/ WriteReturns \/ WriteGivenUp
        \/ CallClose \/ Close
        \/ Terminated /\ UNCHANGED vars

\* Go runs every goroutine that can run, a scan and a BLE write end at their
\* deadline, and a write to the port ends.
Running == \/ ScanStarts \/ ScanMatch \/ StopScan \/ ScanTimeout \/ Connect \/ Subscribe
           \/ WriteReturns \/ WriteGivenUp \/ Close

Fairness == /\ WF_vars(Running) /\ WF_vars(ReadEnds)
            /\ WF_vars(Put \/ DropOldest \/ PutLast)
            /\ WF_vars(done /\ ReadFails)
            /\ \A w \in 1..MaxWrites : WF_vars(WriteEnds(w))

Spec == Init /\ [][Next]_vars /\ Fairness

-----------------------------------------------------------------------------
(* Packets reach the read loop in the order in which the device sent them: *)
(* over serial without a gap, over BLE with the newest always among them    *)
(* as long as the connection is open.                                       *)
Delivered == got \o packets \o hand
SerialLosesNothing ==
  kind = "serial" => \A i \in DOMAIN Delivered : Delivered[i] = i
BleKeepsNewest ==
  /\ \A i, j \in DOMAIN Delivered : i < j => Delivered[i] < Delivered[j]
  /\ (frames > 0 /\ ~done) => Last(Delivered) = frames
PacketsInOrder == SerialLosesNothing /\ BleKeepsNewest

(* Two packets reach the device out of the order in which they were        *)
(* written only if the caller of the first had given up waiting for it.    *)
WritesInOrder ==
  \A i, j \in DOMAIN air : (i < j /\ air[i] > air[j]) => air[j] \in gaveUp

(* A connection that is not open, or being opened, holds no device, and a   *)
(* scan is on only while Open waits for it; but for a scan that had not      *)
(* begun when Open gave up and called StopScan: it stays on until it meets   *)
(* a device that matches.                                                    *)
NothingLeftOpen == /\ linked => stage \in {"linked", "open"}
                   /\ scan \in {"starting", "on"} => stage = "scan"

(* All three: a connection keeps the order of packets in both directions    *)
(* and leaves no device and no scan that had begun behind.                  *)
LinkIsOrderly == PacketsInOrder /\ WritesInOrder /\ NothingLeftOpen

(* Close always returns, and after it the read loop and the reader          *)
(* goroutine end, even when the packet channel is full.                     *)
CloseEnds == []<>(closing => Terminated)
=============================================================================
