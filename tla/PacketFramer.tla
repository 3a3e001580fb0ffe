---------------------------- MODULE PacketFramer ----------------------------
(***************************************************************************)
(* How the ends of a tunnel find packets (module Packets) in a stream of   *)
(* bytes.  The host reads chunks of any size, in which packets are mixed   *)
(* with debug messages of the device (parse_buffer in lib/tunnel/          *)
(* protocol.py).  The board reads one byte after another and gives up      *)
(* after a time (readPacket in firmware/src/tunnel/socket.cpp).            *)
(***************************************************************************)
EXTENDS Packets

CONSTANTS
  Messages,       \* for each reading end, what the other may write: [category, args]
  Formats,        \* the format keys of each category
  DebugBytes,     \* what a device prints between two packets
  MaxPackets,     \* bound on the packets sent
  MaxDebug,       \* bound on the bytes of a debug message
  MaxTimeouts     \* bound on the times the board gives up

Readers == {"host", "board"}

\* A device prints text: no message has the control characters a packet starts with.  One
\* of them may get there by a fault on the line.
ASSUME FramerAssumption ==
  /\ DebugBytes \subseteq Byte /\ ~ {PACKET_START_0, PACKET_START_1} \subseteq DebugBytes
  /\ MaxPackets \in Nat /\ MaxDebug \in Nat /\ MaxTimeouts \in Nat
  /\ Fitting(MaxPackets, 4, FALSE)

PacketOf(m, num) == MakePacket(0, num, m.category, Formats[m.category], m.args)

\* What make_packet and makePacket are called with; the length of a packet has two bytes.
ASSUME MessagesAssumption ==
  \A r \in Readers : \A m \in Messages[r] :
    /\ m.category \in Seq(Byte \ {PACKET_SEP}) /\ ReadableCategory(r, m.category)
    /\ m.category \in DOMAIN Formats /\ Formats[m.category] \in Seq(Keys)
    /\ m.args \in Seq(Range(m.args)) /\ Len(m.args) = Len(Formats[m.category])
    /\ \A i \in DOMAIN m.args : Fits(Formats[m.category][i], m.args[i])
    /\ Fitting(Len(PacketOf(m, 0)) - 5, 2, FALSE)

\* No packet to the host holds a string, and no string to a board the byte 0 or more bytes
\* than its array.
ASSUME StringsAssumption ==
  \A r \in Readers : \A m \in Messages[r] : \A i \in DOMAIN m.args :
    Readable(r, Formats[m.category][i], m.args[i])

VARIABLES
  reader,    \* the end that reads
  sent,      \* history: the messages sent
  wire,      \* bytes under way
  text,      \* the debug message since the last packet
  buffer,    \* the host's self.buffer, the board's _read_buffer
  found,     \* history: the results without error
  spoiled,   \* history: numbers of packets with a stray start byte in front, or during
             \* which the board gave up
  timeouts   \* how often the board has given up

vars == <<reader, sent, wire, text, buffer, found, spoiled, timeouts>>

Num == Len(sent)

Init ==
  /\ reader \in Readers
  /\ sent = << >> /\ wire = << >> /\ text = << >> /\ buffer = << >> /\ found = << >>
  /\ spoiled = {} /\ timeouts = 0

\* Start bytes in front of a packet pair up; one that is left takes the packet's along.
Masks(bytes) ==
  \E k \in DOMAIN bytes :
    /\ (Len(bytes) - k) % 2 = 0
    /\ \A i \in k .. Len(bytes) : bytes[i] = PACKET_START_0
    /\ k = 1 \/ bytes[k - 1] # PACKET_START_0

\* make_packet raises for the others.  What a board writes is always short enough.
Writable(m) ==
  reader = "board" =>
    /\ Len(PacketOf(m, Num)) <= MAX_PACKET_LEN
    /\ \A i \in DOMAIN m.args :
         Formats[m.category][i] = "s" => Len(m.args[i]) < MAX_SEGMENT_LEN

SendPacket ==
  /\ Num < MaxPackets
  /\ \E m \in Messages[reader] :
       /\ Writable(m)
       /\ wire' = wire \o PacketOf(m, Num)
       /\ sent' = Append(sent, m)
  /\ spoiled' = IF Masks(text) THEN spoiled \cup {Num} ELSE spoiled
  /\ text' = << >>
  /\ UNCHANGED <<reader, buffer, found, timeouts>>

Debug ==
  /\ reader = "host" /\ Num < MaxPackets /\ Len(text) < MaxDebug
  /\ \E byte \in DebugBytes : wire' = Append(wire, byte) /\ text' = Append(text, byte)
  /\ UNCHANGED <<reader, sent, buffer, found, spoiled, timeouts>>

\* What is found in a packet: one result, or none.
Results(packet) == IF Parses(reader, packet) THEN <<Parsed(reader, packet)>> ELSE << >>

-----------------------------------------------------------------------------
(* parse_buffer. *)

LengthAt(b, i) == FromBytes(SubSeq(b, i, i + 1), FALSE)

\* The index goes to the next byte to look at.  A start byte that begins no packet takes
\* the byte behind it along, and a header without a stop byte the first byte of its body.
\* Mutant of NextIndex: a byte of a debug message takes the next one along, too.
NextIndexByTwo(b, i) ==
  IF b[i] # PACKET_START_0 \/ b[i + 1] # PACKET_START_1 THEN i + 2 ELSE i + 5
NextIndex(b, i) ==
  IF b[i] # PACKET_START_0 THEN i + 1
  ELSE IF b[i + 1] # PACKET_START_1 THEN i + 2
  ELSE i + 5

\* The bytes that tell what is at index i have not all arrived.
Incomplete(b, i) ==
  /\ b[i] = PACKET_START_0
  /\ \/ i + 1 > Len(b)
     \/ /\ b[i + 1] = PACKET_START_1
        /\ i + 4 > Len(b) \/ i + 4 + LengthAt(b, i + 2) > Len(b)

\* The last index of the packet that begins at i.
StopIndex(b, i) == i + 4 + LengthAt(b, i + 2)

PacketAt(b, i) ==
  /\ b[i] = PACKET_START_0 /\ b[i + 1] = PACKET_START_1
  /\ b[StopIndex(b, i)] = PACKET_STOP

\* A packet in front of what is found in the rest.
Before(b, i, rest) ==
  [results |-> Results(SubSeq(b, i, StopIndex(b, i))) \o rest.results,
   last |-> IF rest.last = 0 THEN StopIndex(b, i) ELSE rest.last]

\* What scanning b from index i finds: the results, and where the last packet ends.
Scan(b) ==
  LET scan[i \in 1 .. Len(b) + 5] ==
        IF i > Len(b) \/ Incomplete(b, i) THEN [results |-> << >>, last |-> 0]
        ELSE IF PacketAt(b, i) THEN Before(b, i, scan[StopIndex(b, i) + 1])
        ELSE scan[NextIndex(b, i)]
  IN  scan[1]

\* Mutant of ParseBuffer: the rest of the buffer is not what is left.
KeepsAll(b) == [results |-> Scan(b).results, buffer |-> b]
ParseBuffer(b) ==
  [results |-> Scan(b).results, buffer |-> SubSeq(b, Scan(b).last + 1, Len(b))]

\* update reads a chunk and parses it together with what the last round left over.
Update ==
  /\ reader = "host"
  /\ \E k \in 1 .. Len(wire) :
       LET parsed == ParseBuffer(buffer \o SubSeq(wire, 1, k)) IN
       /\ wire' = SubSeq(wire, k + 1, Len(wire))
       /\ buffer' = parsed.buffer
       /\ found' = found \o parsed.results
  /\ UNCHANGED <<reader, sent, text, spoiled, timeouts>>

-----------------------------------------------------------------------------
(* readPacket.  Between two calls the buffer counts as empty. *)

Begun(c) == IF c = PACKET_START_0 THEN <<c>> ELSE << >>
Started(c) == IF c = PACKET_START_1 THEN Append(buffer, c) ELSE << >>

\* packet_len, once the two bytes of it are there.
Announced(b) == LengthAt(b, 3)
\* The call ends without a look at the packet.
GivesUp(b) ==
  \/ Len(b) >= MAX_PACKET_LEN
  \/ Len(b) > 4 /\ Announced(b) >= MAX_PACKET_LEN
Ends(b) == Len(b) > 4 /\ Len(b) - 4 > Announced(b)

Consume(b) ==
  IF GivesUp(b) THEN buffer' = << >> /\ UNCHANGED found
  ELSE IF Ends(b) THEN buffer' = << >> /\ found' = found \o Results(b)
  ELSE buffer' = b /\ UNCHANGED found

BoardReads ==
  /\ reader = "board" /\ wire # << >>
  /\ LET c == Head(wire)
     IN  CASE Len(buffer) = 0 -> buffer' = Begun(c) /\ UNCHANGED found
           [] Len(buffer) = 1 -> buffer' = Started(c) /\ UNCHANGED found
           [] OTHER -> Consume(Append(buffer, c))
  /\ wire' = Tail(wire)
  /\ UNCHANGED <<reader, sent, text, spoiled, timeouts>>

Length(num) == Len(PacketOf(sent[num + 1], num))
\* How many bytes the first packets have.
Total(n) ==
  LET total[i \in 0 .. n] == IF i = 0 THEN 0 ELSE total[i - 1] + Length(i - 1) IN total[n]
\* The packet whose byte was read last.
Current ==
  LET read == Total(Num) - Len(wire)
  IN  CHOOSE num \in 0 .. Num - 1 : Total(num) < read /\ read <= Total(num + 1)

\* PACKET_STOP_TIMEOUT: what has been read is parsed as it is, if there are both start
\* bytes.  The rest of the packet is read by later calls.
BoardTimesOut ==
  /\ reader = "board" /\ buffer # << >> /\ timeouts < MaxTimeouts
  /\ found' = IF Len(buffer) = 1 THEN found ELSE found \o Results(buffer)
  /\ buffer' = << >>
  /\ spoiled' = spoiled \cup {Current}
  /\ timeouts' = timeouts + 1
  /\ UNCHANGED <<reader, sent, wire, text>>

Next == SendPacket \/ Debug \/ Update \/ BoardReads \/ BoardTimesOut

Spec == Init /\ [][Next]_vars

-----------------------------------------------------------------------------
(* Properties. *)

\* Whatever bytes the packets contain and however the stream is cut, interrupted or mixed
\* with text: what an end finds are packets that were sent, each at most once, in order.
FoundInOrder ==
  /\ \A i \in DOMAIN found :
       /\ found[i].num < Num
       /\ found[i].category = sent[found[i].num + 1].category
  /\ \A i, j \in DOMAIN found : i < j => found[i].num < found[j].num

\* The getters give the arguments make_packet or makePacket was called with, and no byte
\* of the data is left.
ReadBack ==
  \A i \in DOMAIN found :
    Get(reader, found[i].data, Formats[found[i].category]) =
      [values |-> sent[found[i].num + 1].args, rest |-> << >>]

\* A body with the two start bytes in it, which may be taken for another packet's.
Deceptive(num) ==
  LET packet == PacketOf(sent[num + 1], num)
  IN  \E i \in 3 .. Len(packet) - 1 : SubSeq(packet, i, i + 1) = <<PACKET_START_0, PACKET_START_1>>

\* The host writes packets of a length the board does not read any more.
TooLong(num) == reader = "board" /\ Length(num) = MAX_PACKET_LEN

\* A stray start byte, or a time-out in the middle of a packet, costs no packet but the one
\* it hits, unless there are start bytes in that packet's body; and what has arrived in full
\* does not wait for more.
AllFound ==
  wire = << >> /\ (\A num \in spoiled : ~ Deceptive(num)) =>
    \A num \in (0 .. Num - 1) \ spoiled :
      TooLong(num) \/ \E i \in DOMAIN found : found[i].num = num
=============================================================================
