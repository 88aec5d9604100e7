------------------------------ MODULE Handshake ------------------------------
(***************************************************************************)
(* Client.Connect: open the transport, send APP_START until a SelfInfo      *)
(* answers, ask for the firmware up to three times, then start the read     *)
(* loop; and the first requests of the new connection, which meet what the  *)
(* handshake has left on the line.  The device loses commands while it      *)
(* boots, and answers the others in order.  On TCP the goroutine that       *)
(* watches an attempt's context moves the read deadline of the connection   *)
(* into the past, and nothing moves it back.                                *)
(***************************************************************************)
EXTENDS Naturals, Sequences

CONSTANTS
  Transports, \* {"serial", "tcp"}
  BootLoss,   \* bound: commands lost while the device boots
  LineCap,    \* bound: packets on the line in each direction
  MaxQuery,   \* attempts of deviceQueryWithRetry (3 in the code)
  MaxPushes   \* bound: pushes of the device in a behaviour

VARIABLES
  transport, \* the transport of the connection
  pc,        \* start | self (wait for SelfInfo) | query | info (wait for
             \* DeviceInfo) | up | asked, requested (the application's
             \* DeviceInfo or another request) | failed | down (the read loop
             \* has ended)
  out,       \* commands on their way to the device
  line,      \* packets on their way to the host
  buffered,  \* how many of them the TCP reader already holds
  past,      \* the connection's read deadline has passed for good
  boot,      \* commands the device will still lose
  tries,     \* DEVICE_QUERY attempts so far
  version,   \* the firmware version is known
  pushes,    \* pushes so far
  late,      \* some attempt or request was given up before its answer
  wrong      \* a request of the application got another command's answer

vars == <<transport, pc, out, line, buffered, past, boot, tries, version,
          pushes, late, wrong>>
link == <<out, line, buffered, past>>
device == <<transport, boot, pushes>>

Init == /\ transport \in Transports
        /\ pc = "start"
        /\ out = <<>> /\ line = <<>>
        /\ buffered = 0 /\ past = FALSE
        /\ boot \in 0..BootLoss
        /\ tries = 0 /\ version = FALSE
        /\ pushes = 0
        /\ late = FALSE /\ wrong = FALSE

\* A device that is not reading loses what its buffer cannot hold.
Write(cmd) == out' = IF Len(out) < LineCap THEN Append(out, cmd) ELSE out

-----------------------------------------------------------------------------
(* The device.                                                             *)
Boot == /\ boot > 0 /\ out # <<>>
        /\ boot' = boot - 1
        /\ out' = Tail(out)
        /\ UNCHANGED <<transport, pc, line, buffered, past, tries, version, pushes,
                       late, wrong>>

Answer == /\ boot = 0 /\ out # <<>> /\ Len(line) < LineCap
          /\ line' = Append(line, CASE Head(out) = "AppStart" -> "SelfInfo"
                                    [] Head(out) = "DeviceQuery" -> "DeviceInfo"
                                    [] Head(out) = "Request" -> "Reply")
          /\ out' = Tail(out)
          /\ UNCHANGED <<pc, buffered, past, device, tries, version, late, wrong>>

Push == /\ pushes < MaxPushes /\ Len(line) < LineCap
        /\ pushes' = pushes + 1
        /\ line' = Append(line, "push")
        /\ UNCHANGED <<transport, pc, out, buffered, past, boot, tries, version,
                       late, wrong>>

-----------------------------------------------------------------------------
(* ReadPacket: a packet is there and can be read.  A TCP read that goes to  *)
(* the socket brings everything that has arrived into the reader's buffer.  *)
(* When the packet was there at once, an attempt's context may be cancelled *)
(* before the watching goroutine has run, which may then still move the     *)
(* deadline; the context of the read loop is not cancelled between reads.   *)
Readable == /\ line # <<>>
            /\ transport = "tcp" => buffered > 0 \/ ~past

TakePacket(attempt) ==
  /\ Readable
  /\ line' = Tail(line)
  /\ IF transport = "tcp"
     THEN /\ buffered' = IF buffered > 0 THEN buffered - 1 ELSE Len(line) - 1
          /\ past' \in {past, past \/ attempt}
     ELSE UNCHANGED <<buffered, past>>

\* The attempt's context expires with nothing to read.
GiveUp == /\ line = <<>>
          /\ past' = (past \/ transport = "tcp")
          /\ late' = TRUE
          /\ UNCHANGED <<out, line, buffered>>

\* Every read that reaches the socket fails at once.
PastDeadline == /\ transport = "tcp" /\ past /\ buffered = 0
                /\ late' = TRUE
                /\ UNCHANGED link

-----------------------------------------------------------------------------
(* handshake                                                               *)
SendAppStart == /\ pc = "start"
                /\ Write("AppStart")
                /\ pc' = "self"
                /\ UNCHANGED <<line, buffered, past, device, tries, version, late, wrong>>

\* Faulty variant: a push makes the loop send again.
ReadSelf_PushResends == /\ pc = "self"
                        /\ TakePacket(TRUE)
                        /\ pc' = IF Head(line) = "SelfInfo" THEN "query" ELSE "start"
                        /\ UNCHANGED <<out, device, tries, version, late, wrong>>

\* readNext skips pushes; any other answer makes the loop send again.
ReadSelf == /\ pc = "self"
            /\ TakePacket(TRUE)
            /\ pc' = CASE Head(line) = "push" -> "self"
                       [] Head(line) = "SelfInfo" -> "query"
                       [] OTHER -> "start"
            /\ UNCHANGED <<out, device, tries, version, late, wrong>>

\* Faulty variant: the loop goes on waiting without sending again.
SelfTimeout_NoResend == /\ pc = "self"
                        /\ GiveUp \/ PastDeadline
                        /\ pc' = "self"
                        /\ UNCHANGED <<device, tries, version, wrong>>

SelfTimeout == /\ pc = "self"
               /\ GiveUp \/ PastDeadline
               /\ pc' = "start"
               /\ UNCHANGED <<device, tries, version, wrong>>

\* The handshake's context expires, or the command cannot be written: Connect
\* closes the transport and fails.
Fail == /\ pc \in {"start", "self"}
        /\ pc' = "failed"
        /\ UNCHANGED <<link, device, tries, version, late, wrong>>

(* deviceQueryWithRetry: best effort, three times.                         *)
SendQuery == /\ pc = "query"
             /\ tries < MaxQuery
             /\ Write("DeviceQuery")
             /\ tries' = tries + 1
             /\ pc' = "info"
             /\ UNCHANGED <<line, buffered, past, device, version, late, wrong>>

ReadInfo == /\ pc = "info"
            /\ TakePacket(TRUE)
            /\ version' = (Head(line) = "DeviceInfo")
            /\ pc' = CASE Head(line) = "push" -> "info"
                       [] Head(line) = "DeviceInfo" -> "up"
                       [] OTHER -> "query"
            /\ UNCHANGED <<out, device, tries, late, wrong>>

InfoTimeout == /\ pc = "info"
               /\ GiveUp \/ PastDeadline
               /\ pc' = "query"
               /\ UNCHANGED <<device, tries, version, wrong>>

QueryGivenUp == /\ pc = "query" /\ tries = MaxQuery
                /\ pc' = "up"
                /\ UNCHANGED <<link, device, tries, version, late, wrong>>

-----------------------------------------------------------------------------
(* On the open connection: DeviceInfo asks again while the version is       *)
(* unknown, and any other request.  The read loop gives every answer to the *)
(* active request.                                                          *)
Ask == /\ pc = "up"
       /\ \/ ~version /\ Write("DeviceQuery") /\ pc' = "asked"
          \/ Write("Request") /\ pc' = "requested"
       /\ UNCHANGED <<line, buffered, past, device, tries, version, late, wrong>>

Waiting == pc \in {"asked", "requested"}
Wanted == IF pc = "asked" THEN "DeviceInfo" ELSE "Reply"

Deliver == /\ pc = "up" \/ Waiting
           /\ TakePacket(FALSE)
           /\ IF Waiting /\ Head(line) # "push"
              THEN /\ pc' = "up"
                   /\ version' = (version \/ (pc = "asked" /\ Head(line) = Wanted))
                   /\ wrong' = (wrong \/ Head(line) # Wanted)
              ELSE UNCHANGED <<pc, version, wrong>>
           /\ UNCHANGED <<out, device, tries, late>>

AskTimeout == /\ Waiting /\ line = <<>>
              /\ pc' = "up"
              /\ late' = TRUE
              /\ UNCHANGED <<link, device, tries, version, wrong>>

\* A read error ends the read loop and with it the connection.
ReadLoopFails == /\ pc = "up" \/ Waiting
                 /\ PastDeadline
                 /\ pc' = "down"
                 /\ UNCHANGED <<device, tries, version, wrong>>

Host == \/ SendAppStart \/ ReadSelf \/ SelfTimeout
        \/ SendQuery \/ ReadInfo \/ InfoTimeout \/ QueryGivenUp
        \/ Deliver \/ AskTimeout

Next == Boot \/ Answer \/ Push \/ Host \/ Ask \/ Fail \/ ReadLoopFails

\* A device that has booted answers, and the host runs; a request never has
\* to be made.
Fairness == /\ WF_vars(Boot) /\ WF_vars(Answer) /\ WF_vars(Host)

Spec == Init /\ [][Next]_vars /\ Fairness

-----------------------------------------------------------------------------
(* handshake "repeatedly sends APP_START until a SelfInfo response arrives  *)
(* or ctx is done": once a SelfInfo is on the line, the handshake takes it,  *)
(* however many commands were lost or answered late before.                  *)
Replied == \E i \in DOMAIN line : line[i] = "SelfInfo"
ReplyIsTaken == Replied ~> pc \notin {"start", "self"}

(* Over a serial port, whose reads leave no deadline behind, the handshake   *)
(* ends, whatever is lost in the boot window and however late answers are,   *)
(* if the device answers once it has booted.                                 *)
SerialHandshakeEnds ==
  []<>(transport = "serial" => pc \notin {"start", "self"})

(* A request is given the answer of another command only if the handshake, *)
(* or a request before it, was given up before its answer came.            *)
StaleOnlyAfterTimeout == wrong => late
=============================================================================
