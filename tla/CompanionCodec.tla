--------------------------- MODULE CompanionCodec ---------------------------
(***************************************************************************)
(* The companion protocol's codec and the place where the read loop uses   *)
(* it.  A packet is its code byte, the number of bytes behind it and the   *)
(* few bytes decoding branches on; the contents of the others do not       *)
(* matter, only which of them each field of the decoded message is read    *)
(* from.  A decoder is therefore a set of rows <<field, need, from, to>>:  *)
(* when the body holds at least `need` bytes (the length the code tests)   *)
(* the field is taken from body[from:to].                                  *)
(***************************************************************************)
EXTENDS Naturals, FiniteSets

CONSTANTS
  MaxBody,     \* bound: bytes behind the code byte of a packet
  TraceBytes,  \* values of the path-length byte of a trace packet
  ArgLengths   \* lengths of the keys, names and texts in commands

-----------------------------------------------------------------------------
(* codes.go.  The codes no decoder exists for, and one unknown code.       *)
respOnly == 0..18 \union {24}
pushOnly == 128..138 \union {142}
Codes == respOnly \union pushOnly \union {77, 200}

isPush(code) == code >= 128

StatsTypeCore == 0
StatsTypeRadio == 1
StatsTypePackets == 2
controlNodeDiscoverResp == 9  \* the high nibble of the sub-type, 0x90

-----------------------------------------------------------------------------
(* Rows a body of n bytes satisfies, as the fields they yield.             *)
Take(n, rows) == {[field |-> r[1], from |-> r[3], to |-> r[4]] :
                    r \in {q \in rows : n >= q[2]}}

\* A text behind the fixed fields: body[from:], when there is any of it.
Rest(f, n, from) == {<<f, from + 1, from, n>>}

decodeStatsResponse(n, sub) ==
  LET Rows == CASE sub = StatsTypeCore ->
                     {<<"BatteryMV", 10, 1, 3>>, <<"UptimeSecs", 10, 3, 7>>,
                      <<"ErrorFlags", 10, 7, 9>>, <<"QueueLen", 10, 9, 10>>}
                [] sub = StatsTypeRadio ->
                     {<<"NoiseFloor", 13, 1, 3>>, <<"LastRSSI", 13, 3, 4>>,
                      <<"LastSNR", 13, 4, 5>>, <<"TxAirSecs", 13, 5, 9>>,
                      <<"RxAirSecs", 13, 9, 13>>}
                [] sub = StatsTypePackets ->
                     {<<"counter", 29, 1 + 4 * i, 5 + 4 * i>> : i \in 0..6}
                [] OTHER -> {}
  IN Take(n, Rows \union {<<"Type", 1, 0, 1>>})

decodeSelfInfo(n) ==
  Take(n, {<<"AdvType", 1, 0, 1>>, <<"TxPower", 2, 1, 2>>,
           <<"MaxTxPower", 3, 2, 3>>, <<"PublicKey", 35, 3, 35>>,
           <<"AdvLat", 39, 35, 39>>, <<"AdvLon", 43, 39, 43>>,
           <<"RadioFreq", 51, 47, 51>>, <<"RadioBW", 55, 51, 55>>,
           <<"RadioSF", 56, 55, 56>>, <<"RadioCR", 57, 56, 57>>}
          \union Rest("Name", n, 57))

\* The strings of DeviceInfo are whatever printable runs the body holds; the
\* header byte may begin one, so nothing but its own position is fixed.
decodeDeviceInfo(n) == Take(n, {<<"FirmwareCode", 1, 0, 1>>})

\* A body without a whole key is taken for a name.
decodeAdvert(n) ==
  IF n >= 32
  THEN Take(n, {<<"PublicKey", 32, 0, 32>>, <<"Name", 32, 32, n>>})
  ELSE Take(n, {<<"Name", 0, 0, n>>})

decodeContact(n) ==
  Take(n, {<<"PublicKey", 32, 0, 32>>, <<"Type", 33, 32, 33>>,
           <<"Flags", 34, 33, 34>>, <<"OutPathEnc", 35, 34, 35>>,
           <<"OutPath", 99, 35, 99>>, <<"Name", 131, 99, 131>>,
           <<"LastAdvert", 135, 131, 135>>, <<"Latitude", 139, 135, 139>>,
           <<"Longitude", 143, 139, 143>>, <<"LastMod", 147, 143, 147>>})

\* A NEW_ADVERT is a contact frame; the flags are dropped.
advertFromContact(fields) == {f \in fields : f.field # "Flags"}

decodeSendConfirmed(n) == Take(n, {<<"Code", 4, 0, 4>>, <<"RoundTrip", 8, 4, 8>>})

decodeChannelInfo(n) ==
  Take(n, {<<"Index", 1, 0, 1>>, <<"Name", 33, 1, 33>>, <<"Secret", 49, 33, 49>>})

decodeSent(n) ==
  Take(n, {<<"Result", 1, 0, 1>>, <<"ExpectedAck", 5, 1, 5>>,
           <<"SuggestedTimeout", 9, 5, 9>>})

\* The link measurement in front of the fields of the V3 frames.
SnrPrefix(v3) == IF v3 THEN {<<"SNR", 1, 0, 1>>} ELSE {}

\* A signature, present when txt_type is 2, is skipped if the frame has it.
decodeContactMessage(n, v3, sub) ==
  LET off     == IF v3 THEN 3 ELSE 0
      signed  == n > off + 7 /\ sub = 2 /\ n >= off + 16
      textOff == IF signed THEN off + 16 ELSE off + 12
  IN Take(n, {<<"SenderPrefix", off + 6, off, off + 6>>,
              <<"PathLen", off + 7, off + 6, off + 7>>,
              <<"TxtType", off + 8, off + 7, off + 8>>,
              <<"Timestamp", off + 12, off + 8, off + 12>>}
             \union SnrPrefix(v3) \union Rest("Text", n, textOff))

decodeChannelMessage(n, v3) ==
  LET off == IF v3 THEN 3 ELSE 0
  IN Take(n, {<<"Channel", off + 1, off, off + 1>>,
              <<"PathLen", off + 2, off + 1, off + 2>>,
              <<"TxtType", off + 3, off + 2, off + 3>>,
              <<"Timestamp", off + 7, off + 3, off + 7>>}
             \union SnrPrefix(v3) \union Rest("Text", n, off + 7))

Least(a, b) == IF a <= b THEN a ELSE b

\* Faulty variant: the path length of the frame is believed.
decodeTraceData_Unclamped(n, pathByteLen, pathSZ) ==
  IF n < 11 THEN {} ELSE Take(n, {<<"Path", 11, 11, 11 + pathByteLen>>})

\* body[1] is the length of the path in bytes, the low bits of body[2] the
\* logarithm of the hash size; both ends are clamped to the frame.
decodeTraceData(n, pathByteLen, pathSZ) ==
  LET pathEnd == Least(11 + pathByteLen, n)
      snrEnd  == Least(pathEnd + pathByteLen \div 2^pathSZ, n)
  IN IF n < 11 THEN {}
     ELSE Take(n, {<<"Flags", 11, 2, 3>>, <<"Tag", 11, 3, 7>>,
                   <<"Auth", 11, 7, 11>>, <<"Path", 11, 11, pathEnd>>}
                  \union {<<"SNR", 11, i, i + 1>> : i \in pathEnd..(snrEnd - 1)}
                  \union {<<"SNR", snrEnd + 1, snrEnd, snrEnd + 1>>})

decodeLoginSuccess(n) ==
  Take(n, {<<"Permissions", 1, 0, 1>>, <<"PublicKeyPrefix", 7, 1, 7>>,
           <<"Tag", 11, 7, 11>>, <<"NewPermissions", 12, 11, 12>>})

decodeLoginFail(n) == Take(n, {<<"PublicKeyPrefix", 7, 1, 7>>})

\* The widths of a repeater's counters, in the order of the 56-byte struct.
StatsWidth == <<2, 2, 2, 2, 4, 4, 4, 4, 4, 4, 4, 4, 2, 2, 2, 2, 4, 4>>
RepeaterStatsSize == 56
StatsOffset[i \in 1..18] == IF i = 1 THEN 0
                            ELSE StatsOffset[i - 1] + StatsWidth[i - 1]

ParseRepeaterStats(at) ==
  {<<"stats", at + RepeaterStatsSize, at + StatsOffset[i],
     at + StatsOffset[i] + StatsWidth[i]>> : i \in 1..18}

\* Binary counters if the data is long enough for them, else text.
decodeStatusData(n, at) ==
  IF n - at >= RepeaterStatsSize THEN ParseRepeaterStats(at)
                                 ELSE Rest("Text", n, at)

decodeStatusResponse(n) ==
  Take(n, {<<"PublicKeyPrefix", 7, 1, 7>>}
          \union (IF n > 7 THEN decodeStatusData(n, 7) ELSE {}))

decodeNodeDiscoverResp(n) ==
  LET keyEnd == IF n - 9 >= 32 THEN 41 ELSE IF n - 9 >= 8 THEN 17 ELSE n
  IN {<<"NodeType", 4, 3, 4>>, <<"SNRUp", 5, 4, 5>>, <<"Tag", 9, 5, 9>>}
     \union (IF n > 9 THEN {<<"PublicKey", 10, 9, keyEnd>>} ELSE {})

decodeControlData(n, sub) ==
  Take(n, {<<"SNR", 4, 0, 1>>, <<"RSSI", 4, 1, 2>>, <<"PathLen", 4, 2, 3>>}
          \union IF sub = controlNodeDiscoverResp
                 THEN decodeNodeDiscoverResp(n)
                 ELSE {<<"PayloadType", 4, 3, 4>>, <<"Payload", 4, 4, n>>})

-----------------------------------------------------------------------------
(* The message types, and whether they announce themselves as pushes.      *)
Async(kind) ==
  kind \in {"Advert", "SendConfirmed", "MsgWaiting", "LoginSuccess", "LoginFail",
            "StatusResponse", "TraceData", "ControlData", "NodeDiscoverResp"}

\* Faulty variant: a raw frame is always an answer.
Raw_Unasked(p) == [kind |-> "Raw", async |-> FALSE,
                   fields |-> {[field |-> "Payload", from |-> 0, to |-> p.len]}]

Raw(p) == [kind |-> "Raw", async |-> isPush(p.code),
           fields |-> {[field |-> "Payload", from |-> 0, to |-> p.len]}]

Typed(kind, fields) == [kind |-> kind, async |-> Async(kind), fields |-> fields]

\* p.len counts the bytes behind the code; a packet without even a code byte
\* decodes to a raw message of type 0.
decode(p) ==
  LET c == p.code   n == p.len   sub == p.sub
  IN IF p.empty THEN [kind |-> "Raw", async |-> FALSE, fields |-> {}] ELSE
     CASE c = 0  -> Typed("OK", {})
       [] c = 1  -> Typed("Err", Take(n, {<<"Code", 1, 0, 1>>}))
       [] c = 2  -> Typed("ContactsStart", Take(n, {<<"Count", 4, 0, 4>>}))
       [] c = 3  -> Typed("Contact", decodeContact(n))
       [] c = 4  -> Typed("EndOfContacts", Take(n, {<<"MostRecentLastMod", 4, 0, 4>>}))
       [] c = 5  -> Typed("SelfInfo", decodeSelfInfo(n))
       [] c = 6  -> Typed("Sent", decodeSent(n))
       [] c \in {7, 16} -> Typed("ContactMessage", decodeContactMessage(n, c = 16, sub))
       [] c \in {8, 17} -> Typed("ChannelMessage", decodeChannelMessage(n, c = 17))
       [] c = 9 /\ n >= 4  -> Typed("CurrentTime", Take(n, {<<"Time", 4, 0, 4>>}))
       [] c = 10 -> Typed("NoMoreMessages", {})
       [] c = 12 /\ n >= 2 -> Typed("BatteryVoltage", Take(n, {<<"Millivolts", 2, 0, 2>>}))
       [] c = 13 -> Typed("DeviceInfo", decodeDeviceInfo(n))
       [] c = 18 -> Typed("ChannelInfo", decodeChannelInfo(n))
       [] c = 24 -> Typed("StatsResponse", decodeStatsResponse(n, sub))
       [] c = 128 -> Typed("Advert", decodeAdvert(n))
       [] c = 130 -> Typed("SendConfirmed", decodeSendConfirmed(n))
       [] c = 131 -> Typed("MsgWaiting", {})
       [] c = 133 -> Typed("LoginSuccess", decodeLoginSuccess(n))
       [] c = 134 -> Typed("LoginFail", decodeLoginFail(n))
       [] c = 135 -> Typed("StatusResponse", decodeStatusResponse(n))
       [] c = 137 -> Typed("TraceData", decodeTraceData(n, p.path, p.flags))
       [] c = 138 -> Typed("Advert", advertFromContact(decodeContact(n)))
       [] c = 142 /\ n >= 4 ->
            Typed(IF sub = controlNodeDiscoverResp THEN "NodeDiscoverResp"
                  ELSE "ControlData", decodeControlData(n, sub))
       [] OTHER -> Raw(p)

-----------------------------------------------------------------------------
(* encode: the parts of a command's frame, each with its length.  A command *)
(* is [op, key, text, rest]: the length of its public key, of its name,     *)
(* text, password or packet, and of its path or channel secret.             *)
opcode == [AppStart |-> 1, SendTextMessage |-> 2, SendChannelTextMessage |-> 3,
           GetContacts |-> 4, GetDeviceTime |-> 5, SetDeviceTime |-> 6,
           SendSelfAdvert |-> 7, SyncNextMessage |-> 10, Reboot |-> 19,
           GetBatteryVoltage |-> 20, DeviceQuery |-> 22, SendLogin |-> 26,
           SendStatusReq |-> 27, HasConnection |-> 28, Logout |-> 29,
           GetChannel |-> 31, SetChannel |-> 32, SendTracePath |-> 36,
           SendNodeDiscoverReq |-> 55, GetStats |-> 56, SendMeshPacket |-> 65]

KeyNeeded(op) ==
  CASE op = "SendTextMessage" -> 6
    [] op \in {"SendLogin", "SendStatusReq", "HasConnection", "Logout"} -> 32
    [] OTHER -> 0

Rejected(c) == \/ c.key < KeyNeeded(c.op)
               \/ c.op = "SendMeshPacket" /\ c.text = 0

Part(f, from, to) == [field |-> f, from |-> from, to |-> to]

encode(c) ==
  LET text == c.text   rest == c.rest
  IN CASE c.op = "AppStart" -> {Part("target", 1, 2), Part("reserved", 2, 8),
                                Part("name", 8, 8 + IF text = 0 THEN 2 ELSE text)}
       [] c.op \in {"DeviceQuery", "GetStats", "SendSelfAdvert", "GetChannel"} ->
            {Part("arg", 1, 2)}
       [] c.op = "SetDeviceTime" -> {Part("time", 1, 5)}
       [] c.op = "GetContacts" -> IF rest = 0 THEN {} ELSE {Part("since", 1, 5)}
       [] c.op = "SetChannel" -> {Part("Index", 1, 2), Part("Name", 2, 34),
                                  Part("Secret", 34, 50)}
       [] c.op = "SendTextMessage" ->
            {Part("TxtType", 1, 2), Part("Attempt", 2, 3), Part("Timestamp", 3, 7),
             Part("Dest", 7, 13), Part("Text", 13, 13 + text)}
       [] c.op = "SendLogin" -> {Part("key", 1, 33), Part("password", 33, 33 + text)}
       [] c.op \in {"SendStatusReq", "HasConnection", "Logout"} -> {Part("key", 1, 33)}
       [] c.op = "SendChannelTextMessage" ->
            {Part("TxtType", 1, 2), Part("Channel", 2, 3), Part("Timestamp", 3, 7),
             Part("Text", 7, 7 + text)}
       [] c.op = "SendTracePath" ->
            {Part("Tag", 1, 5), Part("Auth", 5, 9), Part("Flags", 9, 10),
             Part("Path", 10, IF rest = 0 THEN 11 ELSE 10 + rest)}
       [] c.op = "SendNodeDiscoverReq" ->
            {Part("control", 1, 2), Part("Filter", 2, 3), Part("Tag", 3, 7)}
       [] c.op = "SendMeshPacket" ->
            {Part("Priority", 1, 2), Part("Packet", 2, 2 + text)}
       [] OTHER -> {}

FrameLength(fields) == IF fields = {} THEN 1
                       ELSE CHOOSE n \in {f.to : f \in fields} :
                              \A f \in fields : f.to <= n

-----------------------------------------------------------------------------
(* The packets and commands of the instance.                               *)
SubTypes(code) == CASE code = 24 -> 0..3
                    [] code \in {7, 16} -> {0, 2}
                    [] code = 142 -> {8, 9}
                    [] OTHER -> {0}

\* The high bits of the path length and of the flags are free in a trace only.
Packet(code, n, sub, path, flags) ==
  [code |-> code, empty |-> FALSE, len |-> n, sub |-> sub, path |-> path,
   flags |-> flags]

Packets ==
  {[Packet(0, 0, 0, 0, 0) EXCEPT !.empty = TRUE]}
  \union (UNION {{Packet(c, n, s, 0, 0) : n \in 0..MaxBody, s \in SubTypes(c)} :
                  c \in Codes \ {137}})
  \union {Packet(137, n, 0, b, f) : n \in 0..MaxBody, b \in TraceBytes, f \in 0..3}

Commands == [op : DOMAIN opcode, key : ArgLengths, text : ArgLengths,
             rest : ArgLengths]

NoPacket == Packet(0, 0, 0, 0, 0)
NoCommand == [op |-> "GetDeviceTime", key |-> 0, text |-> 0, rest |-> 0]

VARIABLES
  at,   \* idle | received | pushed | answered (given to the request queue) |
        \* written | rejected
  pkt,  \* the packet ReadPacket returned
  cmd   \* the command being sent

vars == <<at, pkt, cmd>>

Init == at = "idle" /\ pkt = NoPacket /\ cmd = NoCommand

Receive == /\ at = "idle"
           /\ at' = "received"
           /\ pkt' \in Packets
           /\ UNCHANGED cmd

\* readLoop: decode never fails; a push goes to handleAsync, everything else
\* to the request that is waiting.
Route == /\ at = "received"
         /\ at' = IF decode(pkt).async THEN "pushed" ELSE "answered"
         /\ UNCHANGED <<pkt, cmd>>

\* request: a command that cannot be encoded is not written.
Send == /\ at = "idle"
        /\ cmd' \in Commands
        /\ at' = IF Rejected(cmd') THEN "rejected" ELSE "written"
        /\ UNCHANGED pkt

Again == /\ at \in {"pushed", "answered", "written", "rejected"}
         /\ at' = "idle"
         /\ pkt' = NoPacket
         /\ cmd' = NoCommand

Next == Receive \/ Route \/ Send \/ Again

Spec == Init /\ [][Next]_vars

-----------------------------------------------------------------------------
(* Every slice the decoder takes lies inside the packet, whatever its      *)
(* length and whatever its control bytes say (a slice outside would panic  *)
(* and take the read loop down), and no byte is read into two fields.      *)
FieldsInFrame ==
  at = "received" =>
    LET fields == decode(pkt).fields
    IN /\ \A f \in fields : f.from <= f.to /\ f.to <= pkt.len
       /\ \A f, g \in fields : f = g \/ f.to <= g.from \/ g.to <= f.from

(* The places where one more byte makes the decoder read a packet          *)
(* differently: a raw packet that is now long enough, a name that becomes  *)
(* a key, a text that becomes counters, a text that becomes a signature.   *)
Reinterpreted(p) ==
  \/ p.code = 9 /\ p.len = 4
  \/ p.code = 12 /\ p.len = 2
  \/ p.code = 142 /\ p.len = 4
  \/ p.code = 128 /\ p.len = 32
  \/ p.code = 135 /\ p.len = 7 + RepeaterStatsSize
  \/ p.code = 7 /\ p.sub = 2 /\ p.len = 16
  \/ p.code = 16 /\ p.sub = 2 /\ p.len = 19

(* decode "stays tolerant of firmware that adds fields": a byte appended   *)
(* to a packet leaves every field where it was (a text or path that runs   *)
(* to the end only grows), except at the lengths listed above.             *)
FieldsStay ==
  at = "received" /\ pkt.len > 0 /\ ~Reinterpreted(pkt) =>
    \A f \in decode([pkt EXCEPT !.len = @ - 1]).fields :
      \E g \in decode(pkt).fields :
        /\ g.field = f.field /\ g.from = f.from
        /\ g.to = f.to \/ g.to = pkt.len

(* What the read loop hands to the waiting request is never a push, and    *)
(* what it hands to handleAsync is always one, for the empty, the short    *)
(* and the unknown packets too: the message types' Async methods and the   *)
(* high bit of the code agree.                                             *)
PushesNeverAnswer ==
  /\ at = "answered" => pkt.empty \/ ~isPush(pkt.code)
  /\ at = "pushed" => isPush(pkt.code)

Shift(fields, k) == {[f EXCEPT !.from = @ + k, !.to = @ + k] : f \in fields}

(* Layouts written down twice agree: SET_CHANNEL has the fields of         *)
(* CHANNEL_INFO one byte later, and a V3 message is the old frame behind   *)
(* three bytes.  A written frame has no holes, and a trace frame has more  *)
(* than ten bytes, below which the firmware rejects it.                    *)
LayoutsAgree ==
  /\ at = "written" =>
       LET fields == encode(cmd)
           end == FrameLength(fields)
       IN /\ 1..(end - 1) = UNION {f.from..(f.to - 1) : f \in fields}
          /\ cmd.op = "SetChannel" => fields = Shift(decodeChannelInfo(end - 1), 1)
          /\ cmd.op = "SendTracePath" => end > 10
  /\ at = "received" /\ pkt.len >= 3 =>
       LET n == pkt.len - 3
           NoSnr(fields) == {f \in fields : f.field # "SNR"}
       IN /\ pkt.code = 16 => NoSnr(decode(pkt).fields)
                                = Shift(decodeContactMessage(n, FALSE, pkt.sub), 3)
          /\ pkt.code = 17 => NoSnr(decode(pkt).fields)
                                = Shift(decodeChannelMessage(n, FALSE), 3)

(* All three: decoder and encoder agree on where every field lies, inside   *)
(* the frame, for every length of it.                                      *)
FieldsAreSound == FieldsInFrame /\ FieldsStay /\ LayoutsAgree
=============================================================================
