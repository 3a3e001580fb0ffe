------------------------------ MODULE Packets ------------------------------
(***************************************************************************)
(* What is in a packet of the tunnel, as both ends write and read it:      *)
(* make_packet, parse_packet and the getters of PacketResult in            *)
(* lib/tunnel, makePacket, parsePacket and PacketResult in firmware/src/   *)
(* tunnel/protocol.cpp.  A packet is a sequence of bytes:                  *)
(*                                                                         *)
(*   START_0 START_1 length length | type number*4 category TAB data |     *)
(*   checksum*2 STOP                                                       *)
(*                                                                         *)
(* where length counts what follows it up to the STOP, and the checksum is *)
(* of what is between the bars.  A float is the sequence of its bytes in   *)
(* memory, which both ends copy as they are.                               *)
(***************************************************************************)
EXTENDS Integers, SequencesExt

CONSTANT MAX_PACKET_LEN  \* the most the host writes; the board reads less than that

ASSUME LengthAssumption == MAX_PACKET_LEN \in Nat

PACKET_START_0 == 18
PACKET_START_1 == 19
PACKET_STOP == 10
PACKET_SEP == 9

Byte == 0 .. 255
Types == 0 .. 2  \* PACKET_TYPE_NORMAL, _HANDSHAKE, _CONFIRMING
Widths == [d |-> 4, u |-> 4, h |-> 2, g |-> 2, b |-> 1, c |-> 1, f |-> 4, e |-> 8]
Keys == DOMAIN Widths \cup {"s"}
Floats == {"f", "e"}

\* Mutant of IsSigned: get_int with its default, for every key.
AllSigned(key) == TRUE
IsSigned(key) == key \in {"d", "h", "b"}

-----------------------------------------------------------------------------
(* Numbers. *)

\* Big-endian.  Python raises for a number that does not fit, the firmware cuts it off.
ToBytes(n, width) == [i \in 1 .. width |-> (n \div 256 ^ (width - i)) % 256]

\* A number fits if what its first byte stands for is in range.
Fitting(n, width, signed) ==
  n \div 256 ^ (width - 1) \in IF signed THEN -128 .. 127 ELSE Byte

FromBytes(bytes, signed) ==
  LET first == IF signed /\ bytes[1] >= 128 THEN bytes[1] - 256 ELSE bytes[1]
  IN  FoldLeft(LAMBDA n, byte : n * 256 + byte, first, Tail(bytes))

Checksum(bytes) == FoldLeft(LAMBDA sum, byte : (sum + byte) % 256, 0, bytes)

\* "%02x"
HexDigit(n) == IF n < 10 THEN 48 + n ELSE 87 + n
Hex(n) == <<HexDigit(n \div 16), HexDigit(n % 16)>>

-----------------------------------------------------------------------------
(* Writing. *)

\* A string has its length in front.
Segment(key, arg) ==
  CASE key = "s" -> ToBytes(Len(arg), 2) \o arg
    [] key \in Floats -> arg
    [] OTHER -> ToBytes(arg, Widths[key])

\* The arguments make_packet takes for a key without raising.
Fits(key, arg) ==
  /\ key = "s" => arg \in Seq(Byte) /\ Fitting(Len(arg), 2, FALSE)
  /\ key \in Floats => arg \in [1 .. Widths[key] -> Byte]
  /\ key \notin Floats \cup {"s"} =>
       arg \in Int /\ Fitting(arg, Widths[key], key \in {"d", "h", "b"})

Data(formats, args) == FlattenSeq([i \in DOMAIN formats |-> Segment(formats[i], args[i])])

\* packet_header
Header(type, num, category) == <<type>> \o ToBytes(num, 4) \o category \o <<PACKET_SEP>>

\* packet_footer, with the start and length it puts in front.
Framed(content) ==
  LET body == content \o Hex(Checksum(content))
  IN  <<PACKET_START_0, PACKET_START_1>> \o ToBytes(Len(body), 2) \o body \o <<PACKET_STOP>>

MakePacket(type, num, category, formats, args) ==
  Framed(Header(type, num, category) \o Data(formats, args))

-----------------------------------------------------------------------------
(* Reading, in which the ends differ. *)

MIN_PACKET_LEN == [host |-> 14, board |-> 13]

White == 9 .. 13 \cup {32}
Digit(c) ==
  CASE c \in 48 .. 57 -> c - 48
    [] c \in 97 .. 102 -> c - 87
    [] c \in 65 .. 70 -> c - 55
    [] OTHER -> 16

\* int(.., 16), with -1 for what is no number; strtol(.., 16) in 8 bits, which stops at the
\* first byte that is no digit.
FromHex(end, a, b) ==
  CASE Digit(a) < 16 /\ Digit(b) < 16 -> 16 * Digit(a) + Digit(b)
    [] a \in White \cup {43} /\ Digit(b) < 16 -> Digit(b)
    [] Digit(a) < 16 /\ Digit(b) = 16 /\ (end = "board" \/ b \in White) -> Digit(a)
    [] end = "board" /\ a = 45 /\ Digit(b) < 16 -> (256 - Digit(b)) % 256
    [] OTHER -> IF end = "host" THEN -1 ELSE 0

Content(packet) == SubSeq(packet, 5, Len(packet) - 3)
RightChecksum(end, packet) ==
  FromHex(end, packet[Len(packet) - 2], packet[Len(packet) - 1]) = Checksum(Content(packet))

\* The category starts behind type and number and ends at the separator, or with what is
\* searched for one: the host searches the content, the board the rest of the packet.
Searched(end, packet) ==
  IF end = "host" THEN Content(packet) ELSE SubSeq(packet, 5, Len(packet))
SepIndex(bytes) == SelectInSubSeq(bytes, 6, Len(bytes), LAMBDA c : c = PACKET_SEP)
CategoryEnd(bytes) == IF SepIndex(bytes) = 0 THEN Len(bytes) + 1 ELSE SepIndex(bytes)

\* to_string copies the bytes, with a 0 behind, into STRING_CONVERT_ARRAY, and its String
\* ends at the first 0.  The copy has no bound: what more than 15 bytes overwrite is
\* undefined in C++ and no part of this module.
STRING_CONVERT_LEN == 16
Zero(bytes) == SelectInSeq(bytes, LAMBDA c : c = 0)
CString(bytes) == IF Zero(bytes) = 0 THEN bytes ELSE SubSeq(bytes, 1, Zero(bytes) - 1)

Category(end, packet) ==
  LET bytes == Searched(end, packet)
      segment == SubSeq(bytes, 6, CategoryEnd(bytes) - 1)
  IN  IF end = "host" THEN segment ELSE CString(segment)

\* UTF-8: what may follow the first byte of a character.
Later == 128 .. 191
Behind(c) ==
  CASE c \in 194 .. 223 -> <<Later>>
    [] c = 224 -> <<160 .. 191, Later>>
    [] c = 237 -> <<128 .. 159, Later>>
    [] c \in 225 .. 239 \ {237} -> <<Later, Later>>
    [] c = 240 -> <<144 .. 191, Later, Later>>
    [] c \in 241 .. 243 -> <<Later, Later, Later>>
    [] c = 244 -> <<128 .. 143, Later, Later>>
    [] OTHER -> << >>

\* bytes.decode raises for the others.
Decodes(bytes) ==
  \A i \in DOMAIN bytes :
    IF bytes[i] \in Later
    THEN \E j \in 1 .. i - 1 : i - j <= Len(Behind(bytes[j]))
    ELSE /\ bytes[i] \notin {192, 193} \cup 245 .. 255
         /\ \A k \in DOMAIN Behind(bytes[i]) :
              i + k <= Len(bytes) /\ bytes[i + k] \in Behind(bytes[i])[k]
Characters(bytes) == Cardinality({i \in DOMAIN bytes : bytes[i] \notin Later})

\* max_segment_len, unless a packet may have 64 kB.
MAX_SEGMENT_LEN == MAX_PACKET_LEN - MIN_PACKET_LEN["host"]

\* The categories that are no PACKET_CATEGORY_ERROR.
IsCategory(end, category) ==
  /\ category # << >>
  /\ end = "host" => Decodes(category) /\ Characters(category) <= MAX_SEGMENT_LEN

\* parse_packet and parsePacket give a result that is no error for these; both ends only
\* call them with the two start bytes in front.
Parses(end, packet) ==
  /\ Len(packet) >= MIN_PACKET_LEN[end]
  /\ packet[Len(packet)] = PACKET_STOP
  /\ RightChecksum(end, packet)
  /\ end = "host" => Content(packet)[1] \in Types
  /\ IsCategory(end, Category(end, packet))

Parsed(end, packet) ==
  LET content == Content(packet)
  IN  [type |-> content[1], num |-> FromBytes(SubSeq(content, 2, 5), FALSE),
       category |-> Category(end, packet),
       data |-> SubSeq(content, CategoryEnd(Searched(end, packet)) + 1, Len(content))]

\* get_string takes the length for the first two bytes of the string; getString goes past.
GetString(end, rest) ==
  LET length == FromBytes(SubSeq(rest, 1, 2), FALSE)
  IN  IF end = "host" THEN [value |-> SubSeq(rest, 1, length), width |-> length]
      ELSE [value |-> CString(SubSeq(rest, 3, length + 2)), width |-> length + 2]

GetNumber(key, rest) ==
  LET bytes == SubSeq(rest, 1, Widths[key])
  IN  [value |-> IF key \in Floats THEN bytes ELSE FromBytes(bytes, IsSigned(key)),
       width |-> Widths[key]]

\* A getter takes its bytes and moves on.
GetNext(end, got, key) ==
  LET next == IF key = "s" THEN GetString(end, got.rest) ELSE GetNumber(key, got.rest)
  IN  [values |-> Append(got.values, next.value),
       rest |-> SubSeq(got.rest, next.width + 1, Len(got.rest))]

\* The getters, one after another.
Get(end, data, formats) ==
  LET got[i \in 0 .. Len(formats)] ==
        IF i = 0 THEN [values |-> << >>, rest |-> data] ELSE GetNext(end, got[i - 1], formats[i])
  IN  got[Len(formats)]

-----------------------------------------------------------------------------
(* What can be read back as it was written. *)

\* A board's String holds all of the bytes.
FitsString(bytes) == 0 \notin Range(bytes) /\ Len(bytes) < STRING_CONVERT_LEN

\* The host reads no strings.
Readable(end, key, arg) == key = "s" => end = "board" /\ FitsString(arg)

ReadableCategory(end, category) ==
  IsCategory(end, category) /\ (end = "board" => FitsString(category))
=============================================================================
