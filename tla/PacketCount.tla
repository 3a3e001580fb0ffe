---------------------------- MODULE PacketCount ----------------------------
(***************************************************************************)
(* The packet counts by which both ends of a tunnel notice that packets    *)
(* went missing: parse_packet and parse_buffer of TunnelProtocol on the    *)
(* host (lib/tunnel/protocol.py), parsePacket on the board (firmware/src/  *)
(* tunnel/protocol.cpp).  The two differ: the host adopts the first number *)
(* it reads and checks every packet, the board starts from zero and        *)
(* compares no handshake, for a handshake may be written again.            *)
(*                                                                         *)
(* The host's TunnelProtocol lives as long as the connection, the board's  *)
(* until the board reboots.  The link keeps the order of packets; it may   *)
(* lose one or damage it so that its checksum fails.                       *)
(***************************************************************************)
EXTENDS Integers, Sequences

CONSTANTS
  MaxMade,     \* bound on the packets one protocol object makes, below 2^32
  MaxRepeats,  \* bound on the handshakes written again in one connection
  MaxLink      \* bound on the packets under way in one direction

ASSUME CountAssumption == MaxMade \in Nat /\ MaxRepeats \in Nat /\ MaxLink \in Nat

VARIABLES
  write_packet_num, read_packet_num, dropped_packet_num,  \* the host's counters
  pending,        \* numbers of the handshakes nobody has confirmed
  repeats,        \* handshakes written again in this connection
  board_write, board_read,  \* the board's _write_packet_num and _read_packet_num
  to_board, to_host,
  heard,          \* history: the host has parsed a packet without error
  lost_to_host,   \* history: packets lost since that packet
  board_heard,    \* history: the board has parsed a normal packet in this connection
  lost_to_board,  \* history: packets (no repeats) lost since that packet,
  repeats_read    \* and repeats that arrived

host_vars == <<write_packet_num, read_packet_num, dropped_packet_num, pending, repeats,
               heard, lost_to_host>>
board_vars == <<board_write, board_read, board_heard, lost_to_board, repeats_read>>
vars == <<host_vars, board_vars, to_board, to_host>>

Types == {"normal", "handshake", "confirming"}

\* repeat says whether a handshake is written again (history); data is the number a
\* confirming packet confirms.
Packets == [type : Types, num : Nat, data : Nat, intact : BOOLEAN, repeat : BOOLEAN]

Init ==
  /\ write_packet_num = 0 /\ read_packet_num = -1 /\ dropped_packet_num = 0
  /\ pending = {} /\ repeats = 0
  /\ board_write = 0 /\ board_read = 0
  /\ to_board = << >> /\ to_host = << >>
  /\ heard = FALSE /\ lost_to_host = 0
  /\ board_heard = FALSE /\ lost_to_board = 0 /\ repeats_read = 0

-----------------------------------------------------------------------------
(* Writing. *)

ToBoard(type, n, repeat) ==
  /\ Len(to_board) < MaxLink
  /\ to_board' = Append(to_board,
       [type |-> type, num |-> n, data |-> 0, intact |-> TRUE, repeat |-> repeat])

HostWrites(type) ==
  /\ write_packet_num < MaxMade
  /\ ToBoard(type, write_packet_num, FALSE)
  /\ write_packet_num' = write_packet_num + 1
  /\ pending' = IF type = "handshake" THEN pending \cup {write_packet_num} ELSE pending
  /\ UNCHANGED <<read_packet_num, dropped_packet_num, repeats, heard, lost_to_host,
                 board_vars, to_host>>

\* The same bytes, the same number.
HostWritesAgain ==
  /\ repeats < MaxRepeats
  /\ \E n \in pending : ToBoard("handshake", n, TRUE)
  /\ repeats' = repeats + 1
  /\ UNCHANGED <<write_packet_num, read_packet_num, dropped_packet_num, pending, heard,
                 lost_to_host, board_vars, to_host>>

\* makePacket, then writeBuffer.
BoardMakes(type, data) ==
  /\ board_write < MaxMade /\ Len(to_host) < MaxLink
  /\ to_host' = Append(to_host,
       [type |-> type, num |-> board_write, data |-> data, intact |-> TRUE, repeat |-> FALSE])
  /\ board_write' = board_write + 1

BoardWrites ==
  /\ BoardMakes("normal", 0)
  /\ UNCHANGED <<host_vars, board_read, board_heard, lost_to_board, repeats_read, to_board>>

-----------------------------------------------------------------------------
(* The link. *)

LoseToHost ==
  /\ to_host # << >>
  /\ to_host' = Tail(to_host)
  /\ lost_to_host' = lost_to_host + 1
  /\ UNCHANGED <<write_packet_num, read_packet_num, dropped_packet_num, pending, repeats,
                 heard, board_vars, to_board>>

LoseToBoard ==
  /\ to_board # << >>
  /\ to_board' = Tail(to_board)
  /\ lost_to_board' = IF Head(to_board).repeat THEN lost_to_board ELSE lost_to_board + 1
  /\ UNCHANGED <<host_vars, board_write, board_read, board_heard, repeats_read, to_host>>

Damaged(s) == s # << >> /\ Head(s).intact

Damage ==
  /\ \/ Damaged(to_host) /\ to_host' = [to_host EXCEPT ![1].intact = FALSE] /\ UNCHANGED to_board
     \/ Damaged(to_board) /\ to_board' = [to_board EXCEPT ![1].intact = FALSE] /\ UNCHANGED to_host
  /\ UNCHANGED <<host_vars, board_vars>>

-----------------------------------------------------------------------------
(* The host parses a packet: parse_packet, and the counting of parse_buffer. *)

received == Head(to_host)

\* Mutant of AfterError: parse_packet counts an error, as the board's does, and so does
\* parse_buffer.
CountTwice == read_packet_num + 2
AfterError == read_packet_num + 1

HostReadsError ==
  /\ to_host # << >> /\ ~ received.intact
  /\ read_packet_num' = AfterError
  /\ dropped_packet_num' = dropped_packet_num + 1
  /\ to_host' = Tail(to_host)
  /\ UNCHANGED <<write_packet_num, pending, repeats, heard, lost_to_host, board_vars, to_board>>

\* The first number is adopted; an error before it moves the count away from -1 and there
\* is nothing left to adopt it.
Adopted == IF read_packet_num = -1 THEN received.num ELSE read_packet_num
HostSynced == received.num = Adopted

\* Mutant of AfterPacket: the count goes on from where it was.
KeepCounting == Adopted + 1
AfterPacket == received.num + 1

\* A warning, too, counts as a dropped packet.
HostReads ==
  /\ to_host # << >> /\ received.intact
  /\ read_packet_num' = AfterPacket
  /\ dropped_packet_num' = IF HostSynced THEN dropped_packet_num ELSE dropped_packet_num + 1
  /\ pending' = IF received.type = "confirming" THEN pending \ {received.data} ELSE pending
  /\ to_host' = Tail(to_host)
  /\ heard' = TRUE /\ lost_to_host' = 0
  /\ UNCHANGED <<write_packet_num, repeats, board_vars, to_board>>

-----------------------------------------------------------------------------
(* The board parses a packet. *)

packet == Head(to_board)
RepeatsRead == IF packet.repeat THEN repeats_read + 1 ELSE repeats_read

BoardReadsError ==
  /\ to_board # << >> /\ ~ packet.intact
  /\ board_read' = board_read + 1
  /\ repeats_read' = RepeatsRead
  /\ to_board' = Tail(to_board)
  /\ UNCHANGED <<host_vars, board_write, board_heard, lost_to_board, to_host>>

\* Mutant of AfterHandshake: a handshake that is not compared is not counted either.
NotCounted == board_read
AfterHandshake == board_read + 1

BoardReadsHandshake ==
  /\ to_board # << >> /\ packet.intact /\ packet.type = "handshake"
  /\ board_read' = AfterHandshake
  /\ repeats_read' = RepeatsRead
  /\ to_board' = Tail(to_board)
  /\ BoardMakes("confirming", packet.num)
  /\ UNCHANGED <<host_vars, board_heard, lost_to_board>>

\* Whether parsePacket sets PACKET_COUNT_NOT_SYNCED_ERROR.
BoardWarns == packet.num # board_read

BoardReads ==
  /\ to_board # << >> /\ packet.intact /\ packet.type = "normal"
  /\ board_read' = packet.num + 1
  /\ to_board' = Tail(to_board)
  /\ board_heard' = TRUE /\ lost_to_board' = 0 /\ repeats_read' = 0
  /\ UNCHANGED <<host_vars, board_write, to_host>>

-----------------------------------------------------------------------------

\* A new connection has a new TunnelProtocol on the host; a board that rebooted counts
\* from zero, and so does, to bound it here, one that has counted past MaxMade.
Reconnect ==
  /\ write_packet_num' = 0 /\ read_packet_num' = -1 /\ dropped_packet_num' = 0
  /\ pending' = {} /\ repeats' = 0
  /\ \/ board_read <= MaxMade /\ UNCHANGED <<board_write, board_read>>
     \/ board_write' = 0 /\ board_read' = 0
  /\ to_board' = << >> /\ to_host' = << >>
  /\ heard' = FALSE /\ lost_to_host' = 0
  /\ board_heard' = FALSE /\ lost_to_board' = 0 /\ repeats_read' = 0

Next ==
  \/ \E type \in {"normal", "handshake"} : HostWrites(type)
  \/ HostWritesAgain \/ BoardWrites
  \/ LoseToHost \/ LoseToBoard \/ Damage
  \/ HostReadsError \/ HostReads
  \/ BoardReadsError \/ BoardReadsHandshake \/ BoardReads
  \/ Reconnect

Spec == Init /\ [][Next]_vars

-----------------------------------------------------------------------------
(* Properties. *)

\* Every variable has its type; the host, who counts damaged packets without a number of
\* their own, never counts further than the board.
TypeOK ==
  /\ write_packet_num \in 0 .. MaxMade /\ board_write \in 0 .. MaxMade
  /\ read_packet_num \in -1 .. board_write
  /\ dropped_packet_num \in Nat /\ board_read \in Nat
  /\ pending \subseteq 0 .. (write_packet_num - 1)
  /\ repeats \in 0 .. MaxRepeats /\ repeats_read \in Nat
  /\ to_board \in Seq(Packets) /\ to_host \in Seq(Packets)
  /\ heard \in BOOLEAN /\ board_heard \in BOOLEAN
  /\ lost_to_host \in Nat /\ lost_to_board \in Nat

\* Once the host has read a packet, the next one it reads is counted as out of sync
\* exactly when packets were lost in between, however many of them were damaged.
HostNotices ==
  [][HostReads /\ heard =>
       (dropped_packet_num' > dropped_packet_num <=> lost_to_host > 0)]_vars

\* The board warns at a normal packet exactly when the packets lost and the repeated
\* handshakes read since the last normal packet differ in number: without repeats it
\* notices every loss, with them a loss may pass unnoticed or a warning be void.
BoardNotices ==
  [][BoardReads /\ board_heard => (BoardWarns <=> lost_to_board # repeats_read)]_vars
=============================================================================
