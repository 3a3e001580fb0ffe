------------------------- MODULE PacketCountProofs -------------------------
(***************************************************************************)
(* Proofs about PacketCount, for any number of packets, losses and errors: *)
(* its type invariant, that the host notices every loss, and when the      *)
(* board does.                                                             *)
(***************************************************************************)
EXTENDS PacketCount, SequenceTheorems, TLAPS

\* What is under way to the host bears the last numbers the board has given, in order.
InOrder == \A i \in 1 .. Len(to_host) : to_host[i].num = board_write - Len(to_host) + i - 1

\* The host's count is behind the first of them by what was lost since the host last read
\* a packet; before its first packet it may be anything up to it.
Behind == read_packet_num >= 0 /\ read_packet_num + lost_to_host = board_write - Len(to_host)

CountInv ==
  /\ TypeOK
  /\ InOrder
  /\ read_packet_num <= board_write - Len(to_host)
  /\ heard => Behind

\* Both counts are at their beginning and nothing is under way.
LEMMA CountInit == Init => CountInv
<1> SUFFICES ASSUME Init PROVE CountInv
  OBVIOUS
<1>1. << >> \in Seq(Packets) /\ Len(<< >>) = 0
  BY EmptySeq
<1>2. TypeOK
  <2>1. /\ write_packet_num \in 0 .. MaxMade /\ board_write \in 0 .. MaxMade
        /\ read_packet_num \in -1 .. board_write
        /\ pending \subseteq 0 .. (write_packet_num - 1)
        /\ repeats \in 0 .. MaxRepeats
    BY CountAssumption DEF Init
  <2>2. /\ dropped_packet_num \in Nat /\ board_read \in Nat /\ repeats_read \in Nat
        /\ lost_to_host \in Nat /\ lost_to_board \in Nat
    BY DEF Init
  <2>3. heard \in BOOLEAN /\ board_heard \in BOOLEAN
    BY DEF Init
  <2>4. to_board \in Seq(Packets) /\ to_host \in Seq(Packets)
    BY <1>1 DEF Init
  <2> QED
    BY <2>1, <2>2, <2>3, <2>4 DEF TypeOK
<1>3. InOrder
  BY <1>1 DEF Init, InOrder
<1>4. read_packet_num <= board_write - Len(to_host)
  BY <1>1 DEF Init
<1>5. ~ heard
  BY DEF Init
<1> QED
  BY <1>2, <1>3, <1>4, <1>5 DEF CountInv

\* One packet less, at the front.
LEMMA TailOf ==
  ASSUME NEW s \in Seq(Packets), s # << >>
  PROVE  /\ Tail(s) \in Seq(Packets) /\ Head(s) \in Packets /\ Head(s) = s[1]
         /\ Len(s) \in Nat /\ Len(s) >= 1 /\ Len(Tail(s)) = Len(s) - 1
         /\ \A i \in 1 .. Len(Tail(s)) : Tail(s)[i] = s[i + 1]
BY HeadTailProperties

\* One packet more, at the end.
LEMMA AppendOf ==
  ASSUME NEW s \in Seq(Packets), NEW p \in Packets
  PROVE  /\ Append(s, p) \in Seq(Packets) /\ Len(s) \in Nat
         /\ Len(Append(s, p)) = Len(s) + 1
         /\ \A i \in 1 .. Len(s) : Append(s, p)[i] = s[i]
         /\ Append(s, p)[Len(s) + 1] = p
BY AppendProperties, LenProperties

\* The packet at the front is damaged.
LEMMA DamageOf ==
  ASSUME NEW s \in Seq(Packets), s # << >>
  PROVE  LET t == [s EXCEPT ![1].intact = FALSE] IN
         /\ t \in Seq(Packets) /\ Len(t) = Len(s)
         /\ \A i \in 1 .. Len(s) :
              t[i].num = s[i].num /\ t[i].type = s[i].type /\ t[i].repeat = s[i].repeat
<1> DEFINE p == [s[1] EXCEPT !.intact = FALSE]
<1>1. Len(s) \in Nat /\ 1 \in 1 .. Len(s) /\ s[1] \in Packets
  BY TailOf
<1>2. p \in Packets /\ p.num = s[1].num /\ p.type = s[1].type /\ p.repeat = s[1].repeat
  BY <1>1 DEF Packets
<1>3. [s EXCEPT ![1].intact = FALSE] = [s EXCEPT ![1] = p]
  OBVIOUS
<1> HIDE DEF p
<1>4. /\ [s EXCEPT ![1] = p] \in Seq(Packets) /\ Len([s EXCEPT ![1] = p]) = Len(s)
      /\ \A i \in 1 .. Len(s) : [s EXCEPT ![1] = p][i] = IF i = 1 THEN p ELSE s[i]
  BY <1>1, <1>2, ExceptSeq
<1> QED
  BY <1>2, <1>3, <1>4

\* A packet written to the board.
LEMMA ToBoardType ==
  ASSUME TypeOK, NEW type \in Types, NEW n \in Nat, NEW again \in BOOLEAN,
         ToBoard(type, n, again)
  PROVE  to_board' \in Seq(Packets)
<1> DEFINE p == [type |-> type, num |-> n, data |-> 0, intact |-> TRUE, repeat |-> again]
<1>1. p \in Packets /\ to_board' = Append(to_board, p)
  BY DEF Packets, ToBoard
<1> HIDE DEF p
<1> QED
  BY <1>1, AppendOf DEF TypeOK

\* A packet the board makes keeps the numbers under way in order.
LEMMA BoardMakesKeeps ==
  ASSUME CountInv, NEW type \in Types, NEW data \in Nat, BoardMakes(type, data),
         UNCHANGED <<read_packet_num, heard, lost_to_host>>
  PROVE  /\ to_host' \in Seq(Packets) /\ board_write' \in 0 .. MaxMade
         /\ read_packet_num \in -1 .. board_write'
         /\ InOrder'
         /\ read_packet_num' <= board_write' - Len(to_host')
         /\ heard' => Behind'
<1> USE CountAssumption
<1> DEFINE p == [type |-> type, num |-> board_write, data |-> data, intact |-> TRUE,
                 repeat |-> FALSE]
<1>1. /\ board_write \in Nat /\ board_write' = board_write + 1 /\ board_write' \in 0 .. MaxMade
      /\ to_host \in Seq(Packets) /\ to_host' = Append(to_host, p)
      /\ read_packet_num \in Int /\ lost_to_host \in Nat
  BY DEF CountInv, TypeOK, BoardMakes
<1>2. p \in Packets /\ p.num = board_write
  BY <1>1 DEF Packets
<1> HIDE DEF p
<1>3. /\ to_host' \in Seq(Packets) /\ Len(to_host) \in Nat /\ Len(to_host') = Len(to_host) + 1
      /\ \A i \in 1 .. Len(to_host) : to_host'[i] = to_host[i]
      /\ to_host'[Len(to_host) + 1] = p
  BY <1>1, <1>2, AppendOf
<1>4. ASSUME NEW i \in 1 .. Len(to_host')
      PROVE  to_host'[i].num = board_write' - Len(to_host') + i - 1
  <2>1. CASE i = Len(to_host) + 1
    BY <1>1, <1>2, <1>3, <2>1
  <2>2. CASE i \in 1 .. Len(to_host)
    BY <1>1, <1>3, <2>2 DEF CountInv, InOrder
  <2> QED
    BY <1>3, <2>1, <2>2
<1>5. board_write' - Len(to_host') = board_write - Len(to_host)
  BY <1>1, <1>3
<1>6. Behind => Behind'
  BY <1>1, <1>3, <1>5 DEF Behind
<1>7. heard' => Behind'
  BY <1>6 DEF CountInv
<1>8. InOrder'
  BY <1>4 DEF InOrder
<1> QED
  BY <1>1, <1>3, <1>5, <1>7, <1>8 DEF CountInv, TypeOK

\* Every step keeps the order of the numbers on their way to the host.
LEMMA CountNext == CountInv /\ [Next]_vars => CountInv'
<1> SUFFICES ASSUME CountInv, [Next]_vars PROVE CountInv'
  OBVIOUS
<1> USE CountAssumption DEF host_vars, board_vars
<1>a. TypeOK /\ Len(to_host) \in Nat /\ Len(to_board) \in Nat
  BY LenProperties DEF CountInv, TypeOK
\* Steps that leave the way to the host alone.
<1>b. ASSUME TypeOK', UNCHANGED <<to_host, board_write, read_packet_num, heard, lost_to_host>>
      PROVE  CountInv'
  <2>1. heard' => Behind'
    BY <1>b DEF CountInv, Behind
  <2> QED
    BY <1>b, <2>1 DEF CountInv, InOrder
<1>1. ASSUME NEW type \in {"normal", "handshake"}, HostWrites(type) PROVE CountInv'
  <2>1. write_packet_num \in Nat /\ write_packet_num' = write_packet_num + 1
        /\ write_packet_num' \in 0 .. MaxMade
    BY <1>1, <1>a DEF HostWrites, TypeOK
  <2>2. to_board' \in Seq(Packets)
    BY <1>1, <1>a, <2>1, ToBoardType DEF HostWrites, Types
  <2>3. pending' \subseteq 0 .. (write_packet_num' - 1)
    BY <1>1, <1>a, <2>1 DEF HostWrites, TypeOK
  <2>4. UNCHANGED <<read_packet_num, dropped_packet_num, repeats, heard, lost_to_host,
                    board_vars, to_host>>
    BY <1>1 DEF HostWrites
  <2>5. TypeOK'
    BY <1>a, <2>1, <2>2, <2>3, <2>4 DEF TypeOK
  <2> QED
    BY <1>b, <2>4, <2>5
<1>2. CASE HostWritesAgain
  <2>1. PICK n \in pending : ToBoard("handshake", n, TRUE)
    BY <1>2 DEF HostWritesAgain
  <2>2. n \in Nat
    BY <1>a, <2>1 DEF TypeOK
  <2>3. to_board' \in Seq(Packets)
    BY <1>a, <2>1, <2>2, ToBoardType DEF Types
  <2>4. TypeOK'
    BY <1>2, <1>a, <2>3 DEF HostWritesAgain, TypeOK
  <2> QED
    BY <1>2, <1>b, <2>4 DEF HostWritesAgain
<1>3. CASE BoardWrites
  BY <1>3, <1>a, BoardMakesKeeps DEF BoardWrites, CountInv, TypeOK, Types
<1>4. CASE LoseToHost
  <2>1. /\ to_host # << >> /\ to_host' = Tail(to_host) /\ lost_to_host' = lost_to_host + 1
        /\ UNCHANGED <<write_packet_num, read_packet_num, dropped_packet_num, pending, repeats,
                       heard, board_vars, to_board>>
    BY <1>4 DEF LoseToHost
  <2>2. /\ to_host' \in Seq(Packets) /\ Len(to_host) >= 1 /\ Len(to_host') = Len(to_host) - 1
        /\ \A i \in 1 .. Len(to_host') : to_host'[i] = to_host[i + 1]
    BY <1>a, <2>1, TailOf DEF TypeOK
  <2>3. TypeOK'
    BY <1>a, <2>1, <2>2 DEF TypeOK
  <2>4. InOrder'
    BY <1>a, <2>1, <2>2 DEF CountInv, InOrder, TypeOK
  <2>5. /\ board_write \in Nat /\ read_packet_num \in Int /\ lost_to_host \in Nat
        /\ board_write' - Len(to_host') = board_write - Len(to_host) + 1
    BY <1>a, <2>1, <2>2 DEF TypeOK
  <2>6. read_packet_num' <= board_write' - Len(to_host')
    BY <1>a, <2>1, <2>5 DEF CountInv
  <2>7. Behind => Behind'
    BY <2>1, <2>5 DEF Behind
  <2>8. heard' => Behind'
    BY <2>1, <2>7 DEF CountInv
  <2> QED
    BY <2>3, <2>4, <2>6, <2>8 DEF CountInv
<1>5. CASE LoseToBoard
  <2>1. to_board' \in Seq(Packets) /\ lost_to_board' \in Nat
    BY <1>5, <1>a, TailOf DEF LoseToBoard, TypeOK
  <2>2. TypeOK'
    BY <1>5, <1>a, <2>1 DEF LoseToBoard, TypeOK
  <2> QED
    BY <1>5, <1>b, <2>2 DEF LoseToBoard
<1>6. CASE Damage
  <2>1. UNCHANGED <<host_vars, board_vars>>
    BY <1>6 DEF Damage
  <2>2. CASE to_host # << >> /\ to_host' = [to_host EXCEPT ![1].intact = FALSE]
             /\ UNCHANGED to_board
    <3>1. /\ to_host' \in Seq(Packets) /\ Len(to_host') = Len(to_host)
          /\ \A i \in 1 .. Len(to_host) : to_host'[i].num = to_host[i].num
      BY <1>a, <2>2, DamageOf DEF TypeOK
    <3>2. TypeOK'
      BY <1>a, <2>1, <2>2, <3>1 DEF TypeOK
    <3>3. InOrder'
      BY <2>1, <3>1 DEF CountInv, InOrder
    <3>4. heard' => Behind'
      BY <2>1, <3>1 DEF CountInv, Behind
    <3> QED
      BY <2>1, <3>1, <3>2, <3>3, <3>4 DEF CountInv
  <2>3. CASE to_board # << >> /\ to_board' = [to_board EXCEPT ![1].intact = FALSE]
             /\ UNCHANGED to_host
    <3>1. to_board' \in Seq(Packets)
      BY <1>a, <2>3, DamageOf DEF TypeOK
    <3>2. TypeOK'
      BY <1>a, <2>1, <2>3, <3>1 DEF TypeOK
    <3> QED
      BY <1>b, <2>1, <2>3, <3>2
  <2> QED
    BY <1>6, <2>2, <2>3 DEF Damage, Damaged
<1>7. CASE HostReadsError \/ HostReads
  <2>1. /\ to_host # << >> /\ to_host' = Tail(to_host)
        /\ UNCHANGED <<write_packet_num, repeats, board_vars, to_board>>
        /\ pending' \subseteq pending
        /\ dropped_packet_num' \in {dropped_packet_num, dropped_packet_num + 1}
    BY <1>7 DEF HostReadsError, HostReads
  <2>2. /\ to_host' \in Seq(Packets) /\ Len(to_host) >= 1 /\ Len(to_host') = Len(to_host) - 1
        /\ \A i \in 1 .. Len(to_host') : to_host'[i] = to_host[i + 1]
        /\ received = to_host[1]
    BY <1>a, <2>1, TailOf DEF TypeOK, received
  <2>3. received.num = board_write - Len(to_host) /\ board_write \in Nat
    BY <1>a, <2>2 DEF CountInv, InOrder, TypeOK
  <2>4. InOrder'
    BY <1>a, <2>1, <2>2 DEF CountInv, InOrder, TypeOK
  <2>5. CASE HostReadsError
    <3>1. /\ read_packet_num' = read_packet_num + 1 /\ read_packet_num \in Int
          /\ UNCHANGED <<heard, lost_to_host>> /\ lost_to_host \in Nat
      BY <1>a, <2>5 DEF HostReadsError, AfterError, TypeOK
    <3>2. read_packet_num' <= board_write' - Len(to_host')
      BY <1>a, <2>1, <2>2, <2>3, <3>1 DEF CountInv
    <3>3. TypeOK'
      BY <1>a, <2>1, <2>2, <2>3, <3>1, <3>2 DEF TypeOK
    <3>4. Behind => Behind'
      BY <1>a, <2>1, <2>2, <2>3, <3>1 DEF Behind
    <3>5. heard' => Behind'
      BY <3>1, <3>4 DEF CountInv
    <3> QED
      BY <2>4, <3>2, <3>3, <3>5 DEF CountInv
  <2>6. CASE HostReads
    <3>1. /\ read_packet_num' = received.num + 1
          /\ heard' = TRUE /\ lost_to_host' = 0
      BY <2>6 DEF HostReads, AfterPacket
    <3>2. received.num \in Nat
      <4>1. received \in Packets
        BY <1>a, <2>1, TailOf DEF TypeOK, received
      <4> QED
        BY <4>1 DEF Packets
    <3>3. /\ read_packet_num' \in Nat
          /\ read_packet_num' + lost_to_host' = board_write' - Len(to_host')
          /\ read_packet_num' <= board_write' - Len(to_host')
      BY <1>a, <2>1, <2>2, <2>3, <3>1, <3>2
    <3>4. TypeOK'
      BY <1>a, <2>1, <2>2, <2>3, <3>1, <3>2, <3>3 DEF TypeOK
    <3>5. Behind'
      BY <3>3 DEF Behind
    <3> QED
      BY <2>4, <3>3, <3>4, <3>5 DEF CountInv
  <2> QED
    BY <1>7, <2>5, <2>6
<1>8. ASSUME to_board # << >>
      PROVE  packet \in Packets /\ Tail(to_board) \in Seq(Packets)
  BY <1>a, <1>8, TailOf DEF TypeOK, packet
<1>9. CASE BoardReadsError \/ BoardReads
  <2>1. /\ board_read' \in Nat /\ repeats_read' \in Nat /\ lost_to_board' \in Nat
        /\ to_board' \in Seq(Packets) /\ board_heard' \in BOOLEAN
    <3>1. CASE BoardReadsError
      BY <1>8, <1>a, <3>1 DEF BoardReadsError, RepeatsRead, TypeOK
    <3>2. CASE BoardReads
      <4>1. packet.num \in Nat
        BY <1>8, <3>2 DEF BoardReads, Packets
      <4> QED
        BY <1>8, <1>a, <3>2, <4>1 DEF BoardReads
    <3> QED
      BY <1>9, <3>1, <3>2
  <2>2. UNCHANGED <<host_vars, board_write, to_host>>
    BY <1>9 DEF BoardReadsError, BoardReads
  <2>3. TypeOK'
    BY <1>a, <2>1, <2>2 DEF TypeOK
  <2> QED
    BY <1>b, <2>2, <2>3
<1>10. CASE BoardReadsHandshake
  <2>1. /\ board_read' \in Nat /\ repeats_read' \in Nat /\ to_board' \in Seq(Packets)
    BY <1>8, <1>10, <1>a DEF BoardReadsHandshake, AfterHandshake, RepeatsRead, TypeOK
  <2>2. packet.num \in Nat
    BY <1>8, <1>10 DEF BoardReadsHandshake, Packets
  <2>3. UNCHANGED <<host_vars, board_heard, lost_to_board>>
        /\ BoardMakes("confirming", packet.num)
    BY <1>10 DEF BoardReadsHandshake
  <2>4. /\ to_host' \in Seq(Packets) /\ board_write' \in 0 .. MaxMade
        /\ read_packet_num \in -1 .. board_write'
        /\ InOrder' /\ read_packet_num' <= board_write' - Len(to_host')
        /\ heard' => Behind'
    BY <2>2, <2>3, BoardMakesKeeps DEF Types
  <2>5. TypeOK'
    BY <1>a, <2>1, <2>3, <2>4 DEF TypeOK
  <2> QED
    BY <2>4, <2>5 DEF CountInv
<1>11. CASE Reconnect
  <2>1. /\ write_packet_num' = 0 /\ read_packet_num' = -1 /\ dropped_packet_num' = 0
        /\ pending' = {} /\ repeats' = 0 /\ to_board' = << >> /\ to_host' = << >>
        /\ heard' = FALSE /\ lost_to_host' = 0
        /\ board_heard' = FALSE /\ lost_to_board' = 0 /\ repeats_read' = 0
    BY <1>11 DEF Reconnect
  <2>2. board_write' \in 0 .. MaxMade /\ board_read' \in Nat
    BY <1>11, <1>a DEF Reconnect, TypeOK
  <2>3. << >> \in Seq(Packets) /\ Len(<< >>) = 0
    BY EmptySeq
  <2>4. TypeOK'
    <3>1. /\ write_packet_num' \in 0 .. MaxMade
          /\ read_packet_num' \in -1 .. board_write'
          /\ pending' \subseteq 0 .. (write_packet_num' - 1)
          /\ repeats' \in 0 .. MaxRepeats
      BY <2>1, <2>2
    <3>2. /\ dropped_packet_num' \in Nat /\ repeats_read' \in Nat
          /\ lost_to_host' \in Nat /\ lost_to_board' \in Nat
      BY <2>1
    <3>3. heard' \in BOOLEAN /\ board_heard' \in BOOLEAN
      BY <2>1
    <3>4. to_board' \in Seq(Packets) /\ to_host' \in Seq(Packets)
      BY <2>1, <2>3
    <3> QED
      BY <2>2, <3>1, <3>2, <3>3, <3>4 DEF TypeOK
  <2>5. InOrder'
    BY <2>1, <2>3 DEF InOrder
  <2>6. read_packet_num' <= board_write' - Len(to_host')
    <3>1. Len(to_host') = 0 /\ Len(to_host') \in Int
      BY <2>1, <2>3
    <3>2. read_packet_num' = -1 /\ read_packet_num' \in Int
      BY <2>1
    <3>3. board_write' >= 0 /\ board_write' \in Int
      BY <2>2
    <3>4. \A n, m, k \in Int : n = -1 /\ m >= 0 /\ k = 0 => n <= m - k
      OBVIOUS
    <3> QED
      BY <3>1, <3>2, <3>3, <3>4, Zenon
  <2>7. ~ heard'
    BY <2>1
  <2> QED
    BY <2>4, <2>5, <2>6, <2>7 DEF CountInv
<1>12. CASE UNCHANGED vars
  <2>1. TypeOK'
    BY <1>12, <1>a DEF vars, TypeOK
  <2> QED
    BY <1>12, <1>b, <2>1 DEF vars
<1> QED
  BY <1>1, <1>2, <1>3, <1>4, <1>5, <1>6, <1>7, <1>9, <1>10, <1>11, <1>12 DEF Next

\* Every variable of PacketCount keeps its type, and the host's count never passes the
\* board's.
THEOREM TypeCorrect == Spec => []TypeOK
<1>1. CountInv => TypeOK
  BY DEF CountInv
<1> QED
  BY <1>1, CountInit, CountNext, PTL DEF Spec

\* The host's warning is exact: after the first packet it has read in a connection, it
\* counts a packet as out of sync just when packets were lost before it.
THEOREM LossesNoticed == Spec => HostNotices
<1>1. ASSUME CountInv, HostReads, heard
      PROVE  dropped_packet_num' > dropped_packet_num <=> lost_to_host > 0
  <2>1. to_host \in Seq(Packets) /\ to_host # << >> /\ dropped_packet_num \in Nat
        /\ lost_to_host \in Nat /\ board_write \in Nat /\ read_packet_num \in Int
    BY <1>1 DEF CountInv, TypeOK, HostReads
  <2>2. received = to_host[1] /\ Len(to_host) \in Nat /\ Len(to_host) >= 1
    BY <2>1, TailOf DEF received
  <2>3. Behind /\ InOrder
    BY <1>1 DEF CountInv
  <2>4. received.num = read_packet_num + lost_to_host /\ read_packet_num >= 0
    BY <2>1, <2>2, <2>3 DEF Behind, InOrder
  <2>5. HostSynced <=> lost_to_host = 0
    BY <2>1, <2>4 DEF HostSynced, Adopted
  <2> QED
    BY <1>1, <2>1, <2>5 DEF HostReads
<1>2. CountInv /\ [Next]_vars =>
        [HostReads /\ heard =>
           (dropped_packet_num' > dropped_packet_num <=> lost_to_host > 0)]_vars
  BY <1>1
<1> QED
  BY <1>2, CountInit, CountNext, PTL DEF Spec, HostNotices
-----------------------------------------------------------------------------
(* The way to the board. *)

\* next[i] is the first number the host has not given to a packet in front of the one at i:
\* a packet that is no repeat bears it.
Numbering == [1 .. Len(to_board) + 1 -> Nat]
Numbers(next) ==
  \A i \in 1 .. Len(to_board) :
    /\ next[i + 1] = IF to_board[i].repeat THEN next[i] ELSE next[i] + 1
    /\ ~ to_board[i].repeat => to_board[i].num = next[i]
    /\ to_board[i].type = "normal" => ~ to_board[i].repeat

\* The board's count differs from the first number under way by what was lost and what was
\* repeated since its last normal packet.
BoardCounts(n) == board_heard => board_read + lost_to_board = n + repeats_read

BoardInv ==
  \E next \in Numbering :
    Numbers(next) /\ next[Len(to_board) + 1] = write_packet_num /\ BoardCounts(next[1])

\* An empty way.
LEMMA NothingUnderWay ==
  ASSUME to_board' = << >>, write_packet_num' \in Nat, ~ board_heard'
  PROVE  BoardInv'
<1>1. Len(to_board') = 0
  BY EmptySeq
<1>2. PICK next \in [1 .. 1 -> Nat] : next[1] = write_packet_num'
  <2>1. PICK n \in Nat : n = write_packet_num'
    OBVIOUS
  <2> DEFINE next == [i \in 1 .. 1 |-> n]
  <2>2. next \in [1 .. 1 -> Nat] /\ next[1] = n
    OBVIOUS
  <2> QED
    BY <2>1, <2>2
<1>3. next \in Numbering' /\ Numbers(next)' /\ next[Len(to_board') + 1] = write_packet_num'
  BY <1>1, <1>2 DEF Numbering, Numbers
<1> QED
  BY <1>1, <1>3 DEF BoardInv, BoardCounts

\* One packet more, at the end.
LEMMA OneMoreToBoard ==
  ASSUME TypeOK, BoardInv, NEW p \in Packets, to_board' = Append(to_board, p),
         p.type = "normal" => ~ p.repeat,
         ~ p.repeat => p.num = write_packet_num,
         write_packet_num' = IF p.repeat THEN write_packet_num ELSE write_packet_num + 1,
         UNCHANGED <<board_heard, board_read, lost_to_board, repeats_read>>
  PROVE  BoardInv'
<1> DEFINE n == Len(to_board)
<1>1. /\ n \in Nat /\ Len(to_board') = n + 1
      /\ \A i \in 1 .. n : to_board'[i] = to_board[i]
      /\ to_board'[n + 1] = p
  BY AppendOf DEF TypeOK
<1>2. PICK next \in Numbering :
        Numbers(next) /\ next[n + 1] = write_packet_num /\ BoardCounts(next[1])
  BY DEF BoardInv
<1>3. write_packet_num \in Nat /\ write_packet_num' \in Nat
  BY CountAssumption DEF TypeOK
<1>4. \A i \in 1 .. n + 1 : next[i] \in Nat
  BY DEF Numbering
<1>5. \A i \in 1 .. n :
        /\ next[i + 1] = IF to_board[i].repeat THEN next[i] ELSE next[i] + 1
        /\ ~ to_board[i].repeat => to_board[i].num = next[i]
        /\ to_board[i].type = "normal" => ~ to_board[i].repeat
  BY <1>2 DEF Numbers
<1>n. n \in Nat /\ next[n + 1] = write_packet_num
  BY <1>1, <1>2
<1> HIDE DEF n
<1>6. /\ \A i \in 1 .. n + 1 : i \in 1 .. n \/ i = n + 1
      /\ \A i \in 1 .. n : i + 1 \in 1 .. n + 1 /\ i \in 1 .. n + 1
      /\ 1 \in 1 .. n + 1 /\ n + 1 \in 1 .. n + 1 /\ (n + 1) + 1 = n + 2
  BY <1>n
<1>7. PICK after \in [1 .. n + 2 -> Nat] :
        /\ \A i \in 1 .. n + 1 : after[i] = next[i]
        /\ after[n + 2] = write_packet_num'
  <2> DEFINE after == [i \in 1 .. n + 2 |-> IF i = n + 2 THEN write_packet_num' ELSE next[i]]
  <2>1. after \in [1 .. n + 2 -> Nat]
    BY <1>3, <1>4, <1>n
  <2>2. \A i \in 1 .. n + 1 : after[i] = next[i]
    BY <1>n
  <2>3. after[n + 2] = write_packet_num'
    BY <1>n
  <2> QED
    BY <2>1, <2>2, <2>3
<1>8. after \in Numbering'
  BY <1>1, <1>6, <1>7 DEF Numbering
<1>9. ASSUME NEW i \in 1 .. n + 1
      PROVE  /\ after[i + 1] = IF to_board'[i].repeat THEN after[i] ELSE after[i] + 1
             /\ ~ to_board'[i].repeat => to_board'[i].num = after[i]
             /\ to_board'[i].type = "normal" => ~ to_board'[i].repeat
  <2>1. CASE i \in 1 .. n
    <3>1. to_board'[i] = to_board[i] /\ after[i] = next[i] /\ after[i + 1] = next[i + 1]
      <4>1. i \in 1 .. n + 1 /\ i + 1 \in 1 .. n + 1
        BY <1>6, <2>1
      <4>2. after[i] = next[i] /\ after[i + 1] = next[i + 1]
        BY <1>7, <4>1
      <4> QED
        BY <1>1, <2>1, <4>2
    <3> QED
      BY <1>5, <2>1, <3>1
  <2>2. CASE i = n + 1
    <3>1. to_board'[i] = p /\ after[i] = write_packet_num /\ after[i + 1] = write_packet_num'
      BY <1>1, <1>n, <1>6, <1>7, <2>2
    <3> QED
      BY <3>1
  <2> QED
    BY <1>6, <2>1, <2>2
<1>10. Numbers(after)'
  BY <1>1, <1>9 DEF Numbers
<1>11. after[Len(to_board') + 1] = write_packet_num' /\ BoardCounts(after[1])'
  BY <1>1, <1>2, <1>6, <1>7 DEF BoardCounts
<1> QED
  BY <1>8, <1>10, <1>11 DEF BoardInv

\* The first packet is lost or read, in which case it moves the count.
LEMMA OneFewerToBoard ==
  ASSUME TypeOK, BoardInv, to_board # << >>, to_board' = Tail(to_board),
         UNCHANGED write_packet_num,
         \A n, m \in Nat : /\ packet.type = "normal" => ~ packet.repeat
                           /\ ~ packet.repeat => packet.num = n
                           /\ m = IF packet.repeat THEN n ELSE n + 1
                           /\ BoardCounts(n)
           => BoardCounts(m)'
  PROVE  BoardInv'
<1> DEFINE n == Len(to_board) - 1
<1>1. /\ n \in Nat /\ Len(to_board') = n /\ Len(to_board) = n + 1
      /\ \A i \in 1 .. n : to_board'[i] = to_board[i + 1]
      /\ packet = to_board[1]
  BY TailOf DEF TypeOK, packet
<1>2. PICK next \in Numbering :
        Numbers(next) /\ next[Len(to_board) + 1] = write_packet_num /\ BoardCounts(next[1])
  BY DEF BoardInv
<1> HIDE DEF n
<1>3. next \in [1 .. n + 2 -> Nat] /\ next[n + 2] = write_packet_num
  BY <1>1, <1>2 DEF Numbering
<1>4. \A i \in 1 .. n + 1 :
        /\ next[i + 1] = IF to_board[i].repeat THEN next[i] ELSE next[i] + 1
        /\ ~ to_board[i].repeat => to_board[i].num = next[i]
        /\ to_board[i].type = "normal" => ~ to_board[i].repeat
  BY <1>1, <1>2 DEF Numbers
<1>5. /\ \A i \in 1 .. n + 1 : i + 1 \in 1 .. n + 2
      /\ \A i \in 1 .. n : i + 1 \in 1 .. n + 1 /\ i \in 1 .. n + 1
      /\ 1 \in 1 .. n + 2 /\ 1 \in 1 .. n + 1 /\ n + 1 \in 1 .. n + 1 /\ 1 + 1 = 2
      /\ (n + 1) + 1 = n + 2 /\ 2 \in 1 .. n + 2
  BY <1>1
<1>6. PICK after \in [1 .. n + 1 -> Nat] : \A i \in 1 .. n + 1 : after[i] = next[i + 1]
  <2> DEFINE after == [i \in 1 .. n + 1 |-> next[i + 1]]
  <2>1. after \in [1 .. n + 1 -> Nat]
    BY <1>3, <1>5
  <2> QED
    BY <2>1
<1>7. after \in Numbering'
  BY <1>1, <1>6 DEF Numbering
<1>8. Numbers(after)'
  <2>1. ASSUME NEW i \in 1 .. n
        PROVE  /\ after[i + 1] = IF to_board'[i].repeat THEN after[i] ELSE after[i] + 1
               /\ ~ to_board'[i].repeat => to_board'[i].num = after[i]
               /\ to_board'[i].type = "normal" => ~ to_board'[i].repeat
    <3>1. /\ to_board'[i] = to_board[i + 1] /\ i + 1 \in 1 .. n + 1
          /\ after[i] = next[i + 1] /\ after[i + 1] = next[(i + 1) + 1]
      BY <1>1, <1>5, <1>6
    <3> QED
      BY <1>4, <3>1
  <2> QED
    BY <1>1, <2>1 DEF Numbers
<1>9. next[1] \in Nat /\ next[2] \in Nat /\ next[2] = IF packet.repeat THEN next[1] ELSE next[1] + 1
  BY <1>1, <1>3, <1>4, <1>5
<1>10. BoardCounts(next[2])'
  BY <1>1, <1>2, <1>4, <1>5, <1>9
<1>11. after[1] = next[2] /\ after[n + 1] = write_packet_num'
  BY <1>3, <1>5, <1>6
<1> QED
  BY <1>1, <1>7, <1>8, <1>10, <1>11 DEF BoardInv

\* Every step keeps the numbering of the way to the board.
LEMMA BoardNext == TypeOK /\ TypeOK' /\ BoardInv /\ [Next]_vars => BoardInv'
<1> SUFFICES ASSUME TypeOK, TypeOK', BoardInv, [Next]_vars PROVE BoardInv'
  OBVIOUS
<1> USE DEF host_vars, board_vars
<1>a. ASSUME UNCHANGED <<to_board, write_packet_num, board_heard, board_read, lost_to_board,
                         repeats_read>>
      PROVE  BoardInv'
  BY <1>a DEF BoardInv, Numbering, Numbers, BoardCounts
<1>b. /\ write_packet_num \in Nat /\ board_read \in Nat /\ lost_to_board \in Nat
      /\ repeats_read \in Nat
  BY CountAssumption DEF TypeOK
<1>c. to_board # << >> => packet \in Packets
  BY TailOf DEF TypeOK, packet
<1>1. ASSUME NEW type \in {"normal", "handshake"}, HostWrites(type) PROVE BoardInv'
  <2> DEFINE p == [type |-> type, num |-> write_packet_num, data |-> 0, intact |-> TRUE,
                   repeat |-> FALSE]
  <2>1. /\ to_board' = Append(to_board, p) /\ write_packet_num' = write_packet_num + 1
        /\ UNCHANGED <<board_heard, board_read, lost_to_board, repeats_read>>
    BY <1>1 DEF HostWrites, ToBoard
  <2>2. p \in Packets /\ ~ p.repeat /\ p.num = write_packet_num
    BY <1>b DEF Packets, Types
  <2> HIDE DEF p
  <2> QED
    BY <2>1, <2>2, OneMoreToBoard
<1>2. CASE HostWritesAgain
  <2>1. PICK n \in pending : ToBoard("handshake", n, TRUE)
    BY <1>2 DEF HostWritesAgain
  <2> DEFINE p == [type |-> "handshake", num |-> n, data |-> 0, intact |-> TRUE, repeat |-> TRUE]
  <2>2. /\ to_board' = Append(to_board, p) /\ n \in Nat
        /\ UNCHANGED <<write_packet_num, board_heard, board_read, lost_to_board, repeats_read>>
    BY <1>2, <1>b, <2>1 DEF HostWritesAgain, ToBoard, TypeOK
  <2>3. p \in Packets /\ p.repeat /\ p.type # "normal"
    BY <2>2 DEF Packets, Types
  <2> HIDE DEF p
  <2> QED
    BY <2>2, <2>3, OneMoreToBoard
<1>3. CASE BoardWrites \/ LoseToHost \/ HostReadsError \/ HostReads \/ UNCHANGED vars
  BY <1>3, <1>a DEF BoardWrites, LoseToHost, HostReadsError, HostReads, vars
<1>4. CASE LoseToBoard
  <2>1. /\ to_board # << >> /\ to_board' = Tail(to_board)
        /\ lost_to_board' = IF packet.repeat THEN lost_to_board ELSE lost_to_board + 1
        /\ UNCHANGED <<write_packet_num, board_heard, board_read, repeats_read>>
    BY <1>4 DEF LoseToBoard, packet
  <2>2. \A n, m \in Nat : m = (IF packet.repeat THEN n ELSE n + 1) /\ BoardCounts(n)
          => BoardCounts(m)'
    BY <1>b, <2>1 DEF BoardCounts
  <2> QED
    BY <2>1, <2>2, OneFewerToBoard
<1>5. CASE Damage
  <2>1. UNCHANGED <<host_vars, board_vars>>
    BY <1>5 DEF Damage
  <2>2. CASE UNCHANGED to_board
    BY <1>a, <2>1, <2>2
  <2>3. CASE to_board # << >> /\ to_board' = [to_board EXCEPT ![1].intact = FALSE]
    <3>1. /\ Len(to_board') = Len(to_board)
          /\ \A i \in 1 .. Len(to_board) :
               /\ to_board'[i].num = to_board[i].num
               /\ to_board'[i].repeat = to_board[i].repeat
               /\ to_board'[i].type = to_board[i].type
      BY <2>3, DamageOf DEF TypeOK
    <3> QED
      BY <2>1, <3>1, ZenonT(30) DEF BoardInv, Numbering, Numbers, BoardCounts
  <2> QED
    BY <1>5, <2>2, <2>3 DEF Damage, Damaged
<1>6. CASE BoardReadsError \/ BoardReadsHandshake
  <2>1. /\ to_board # << >> /\ to_board' = Tail(to_board)
        /\ board_read' = board_read + 1 /\ repeats_read' = RepeatsRead
        /\ UNCHANGED <<write_packet_num, board_heard, lost_to_board>>
    BY <1>6 DEF BoardReadsError, BoardReadsHandshake, AfterHandshake
  <2>2. \A n, m \in Nat : m = (IF packet.repeat THEN n ELSE n + 1) /\ BoardCounts(n)
          => BoardCounts(m)'
    BY <1>b, <2>1 DEF BoardCounts, RepeatsRead
  <2> QED
    BY <2>1, <2>2, OneFewerToBoard
<1>7. CASE BoardReads
  <2>1. /\ to_board # << >> /\ to_board' = Tail(to_board) /\ packet.type = "normal"
        /\ board_read' = packet.num + 1 /\ lost_to_board' = 0 /\ repeats_read' = 0
        /\ UNCHANGED write_packet_num
    BY <1>7 DEF BoardReads
  <2>2. \A n, m \in Nat : /\ packet.type = "normal" => ~ packet.repeat
                          /\ ~ packet.repeat => packet.num = n
                          /\ m = IF packet.repeat THEN n ELSE n + 1
          => BoardCounts(m)'
    BY <2>1 DEF BoardCounts
  <2> QED
    BY <2>1, <2>2, OneFewerToBoard
<1>8. CASE Reconnect
  BY <1>8, NothingUnderWay DEF Reconnect
<1> QED
  BY <1>1, <1>2, <1>3, <1>4, <1>5, <1>6, <1>7, <1>8 DEF Next

\* At first the way to the board is empty.
LEMMA BoardInit == Init => BoardInv
<1> SUFFICES ASSUME Init PROVE BoardInv
  OBVIOUS
<1> DEFINE next == [i \in 1 .. 1 |-> 0]
<1>1. Len(to_board) = 0 /\ write_packet_num = 0 /\ ~ board_heard
  BY EmptySeq DEF Init
<1>2. next \in Numbering /\ Numbers(next) /\ next[Len(to_board) + 1] = write_packet_num
  BY <1>1 DEF Numbering, Numbers
<1> QED
  BY <1>1, <1>2 DEF BoardInv, BoardCounts

\* The board's warning is exact up to repeats: after the first normal packet it has read in
\* a connection, it finds the number of the next one out of step just when the packets
\* lost before it and the repeats read before it differ in number.
THEOREM WarningsExact == Spec => BoardNotices
<1>1. ASSUME TypeOK, BoardInv, BoardReads, board_heard
      PROVE  BoardWarns <=> lost_to_board # repeats_read
  <2>1. PICK next \in Numbering :
          Numbers(next) /\ BoardCounts(next[1])
    BY <1>1 DEF BoardInv
  <2>2. packet = to_board[1] /\ Len(to_board) \in Nat /\ 1 \in 1 .. Len(to_board)
    BY <1>1, TailOf DEF BoardReads, TypeOK, packet
  <2>3. packet.num = next[1] /\ next[1] \in Nat
    BY <1>1, <2>1, <2>2 DEF BoardReads, Numbers, Numbering
  <2>4. board_read + lost_to_board = packet.num + repeats_read
    BY <1>1, <2>1, <2>3 DEF BoardCounts
  <2>5. board_read \in Nat /\ lost_to_board \in Nat /\ repeats_read \in Nat
    BY <1>1 DEF TypeOK
  <2> QED
    BY <2>3, <2>4, <2>5 DEF BoardWarns
<1>2. TypeOK /\ BoardInv /\ [Next]_vars =>
        [BoardReads /\ board_heard => (BoardWarns <=> lost_to_board # repeats_read)]_vars
  BY <1>1
<1>3. CountInv => TypeOK
  BY DEF CountInv
<1> QED
  BY <1>2, <1>3, CountInit, CountNext, BoardInit, BoardNext, PTL DEF Spec, BoardNotices
=============================================================================
