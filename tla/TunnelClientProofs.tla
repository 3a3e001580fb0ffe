------------------------- MODULE TunnelClientProofs -------------------------
(***************************************************************************)
(* Proofs about TunnelClient, for any number of packets, any categories    *)
(* and either value of throw_error_on_failed_handshake: its type           *)
(* invariant, that it implements Delivery, that gets are answered oldest   *)
(* first, and that what a board shows is not older than what was confirmed.*)
(***************************************************************************)
EXTENDS TunnelClient, ListProofs

-----------------------------------------------------------------------------
(* The type invariant. *)

\* The initial state has the types.
LEMMA TypeInit == Init => TypeOK
BY EmptySeq, ClientAssumption DEF Init, TypeOK

\* A packet made has the next number, and the link remains a list of packets.
LEMMA MakePacketType ==
  ASSUME TypeOK, NEW c \in Categories, NEW type \in {"normal", "handshake"}, MakePacket(type, c)
  PROVE  /\ to_board' \in Seq(Outgoing) /\ write_packet_num \in Nums
         /\ write_packet_num' \in 0 .. MaxWrites
<1>1. write_packet_num \in Nums /\ write_packet_num' \in 0 .. MaxWrites
  BY ClientAssumption DEF MakePacket, TypeOK, Nums
<1>2. [type |-> type, category |-> c, packet_num |-> write_packet_num] \in Outgoing
  BY <1>1 DEF Outgoing
<1> QED
  BY <1>1, <1>2, AppendProperties DEF MakePacket, TypeOK

\* A handshake made has its type, whether or not it is to be written again.
LEMMA HandshakeType ==
  ASSUME TypeOK, NEW c \in Categories, NEW again \in BOOLEAN, Handshake(c, again)
  PROVE  /\ to_board' \in Seq(Outgoing) /\ write_packet_num' \in 0 .. MaxWrites
         /\ pending_handshakes' \subseteq Handshakes
         /\ written' \subseteq Handshakes
<1>1. /\ to_board' \in Seq(Outgoing) /\ write_packet_num \in Nums
      /\ write_packet_num' \in 0 .. MaxWrites
  BY MakePacketType DEF Handshake
<1> QED
  BY <1>1 DEF Handshake, HandshakeNum, Handshakes, TypeOK

\* The first result of a batch, and the rest.
LEMMA ResultType ==
  ASSUME TypeOK, results # << >>
  PROVE  result \in Incoming /\ Tail(results) \in Seq(Incoming)
BY HeadTailProperties DEF TypeOK, result

\* The first packet under way to the board, and the rest.
LEMMA PacketType ==
  ASSUME TypeOK, to_board # << >>
  PROVE  packet \in Outgoing /\ Tail(to_board) \in Seq(Outgoing)
BY HeadTailProperties DEF TypeOK, packet

\* Every step keeps the types.
LEMMA TypeStep == TypeOK /\ [Next]_vars => TypeOK'
<1> SUFFICES ASSUME TypeOK, [Next]_vars PROVE TypeOK'
  OBVIOUS
<1> USE ClientAssumption DEF host_vars, timer_vars, update_vars, board_vars
<1>1. ASSUME NEW c \in Categories, Write(c) PROVE TypeOK'
  BY <1>1, MakePacketType DEF Write, TypeOK
<1>2. ASSUME NEW c \in Categories, WriteHandshake(c) PROVE TypeOK'
  <2>1. (c \in Resent) \in BOOLEAN
    OBVIOUS
  <2>2. Handshake(c, c \in Resent)
    BY <1>2 DEF WriteHandshake
  <2>3. /\ to_board' \in Seq(Outgoing) /\ write_packet_num' \in 0 .. MaxWrites
        /\ pending_handshakes' \subseteq Handshakes
        /\ written' \subseteq Handshakes
    BY <2>1, <2>2, HandshakeType, Zenon
  <2> QED
    BY <1>2, <2>3 DEF WriteHandshake, TypeOK
<1>3. ASSUME NEW c \in Categories, Get(c) PROVE TypeOK'
  <2>1. [category |-> c, event |-> FALSE, waiting |-> TRUE,
         copied |-> NoPacket, first |-> NoPacket] \in Futures
    BY DEF Futures
  <2>2. pending_gets' \in Seq(Futures)
    BY <1>3, <2>1, AppendProperties DEF Get, TypeOK
  <2> QED
    BY <1>3, <2>2, HandshakeType DEF Get, TypeOK
<1>4. CASE GetReturns
  <2>1. pending_gets' \in Seq(Futures)
    BY <1>4, WithoutFacts, LenProperties DEF GetReturns, Without, TypeOK
  <2> QED
    BY <1>4, <2>1 DEF GetReturns, TypeOK
<1>5. CASE GetTimesOut
  <2>1. PICK i \in DOMAIN pending_gets :
          pending_gets' = [pending_gets EXCEPT ![i] = [pending_gets[i] EXCEPT !.waiting = FALSE]]
    BY <1>5 DEF GetTimesOut
  <2>2. pending_gets[i] \in Futures
    BY <2>1, ElementOfSeq, LenProperties DEF TypeOK
  <2>3. [pending_gets[i] EXCEPT !.waiting = FALSE] \in Futures
    BY <2>2 DEF Futures
  <2>4. pending_gets' \in Seq(Futures)
    BY <2>1, <2>3, ExceptType DEF TypeOK
  <2> QED
    BY <1>5, <2>4 DEF GetTimesOut, TypeOK
<1>6. CASE BeginUpdate
  BY <1>6 DEF BeginUpdate, Pending, Handshakes, TypeOK
<1>7. CASE CheckHandshake
  <2>1. PICK h \in pending_handshakes :
          /\ \/ to_board' = Append(to_board, [type |-> "handshake", category |-> h.category,
                                              packet_num |-> h.packet_num])
             \/ to_board' = to_board
          /\ due' \subseteq due /\ unchecked' \subseteq unchecked
          /\ task' \in {"raised", "check"}
    BY <1>7 DEF CheckHandshake
  <2>2. [type |-> "handshake", category |-> h.category, packet_num |-> h.packet_num] \in Outgoing
    BY <2>1 DEF TypeOK, Handshakes, Outgoing
  <2>3. to_board' \in Seq(Outgoing)
    BY <2>1, <2>2, AppendType, Zenon DEF TypeOK
  <2>4. UNCHANGED <<host_vars, expired, results, to_host, board_vars>>
    BY <1>7 DEF CheckHandshake
  <2> QED
    BY <2>1, <2>3, <2>4 DEF TypeOK
<1>8. CASE Read
  <2>1. results' \in Seq(Incoming) /\ to_host' \in Seq(Incoming)
    BY <1>8, SplitFacts DEF Read, TypeOK
  <2> QED
    BY <1>8, <2>1 DEF Read, TypeOK
<1>9. CASE HandleError
  BY <1>9, ResultType DEF HandleError, Handling, TypeOK
<1>10. CASE HandleConfirm
  BY <1>10, ResultType DEF HandleConfirm, Handling, TypeOK
<1>11. CASE HandleResult
  <2>1. result \in Incoming /\ Tail(results) \in Seq(Incoming)
    BY <1>11, ResultType DEF HandleResult, Handling
  <2>2. ASSUME NEW future \in Futures PROVE CopyFrom(future) \in Futures
    BY <2>1 DEF CopyFrom, Futures
  <2>3. \A i \in DOMAIN pending_gets : pending_gets[i] \in Futures
    BY ElementOfSeq, LenProperties DEF TypeOK
  <2>4. [pending_gets EXCEPT ![FutureFor] = CopyFrom(pending_gets[FutureFor])] \in Seq(Futures)
    BY <2>2, <2>3, ExceptType DEF TypeOK
  <2>5. pending_gets' \in Seq(Futures)
    BY <1>11, <2>4 DEF HandleResult, TypeOK
  <2> QED
    BY <1>11, <2>1, <2>5 DEF HandleResult, TypeOK
<1>12. CASE EndUpdate \/ Resume
  BY <1>12 DEF EndUpdate, Resume, TypeOK
<1>13. CASE Stop \/ SendTimesOut
  BY <1>13, EmptySeq DEF Stop, SendTimesOut, Hangup, TypeOK
<1>14. CASE IntervalPasses \/ TimeoutPasses
  BY <1>14 DEF IntervalPasses, TimeoutPasses, Pending, Handshakes, TypeOK
<1>15. CASE BoardReads
  <2>1. packet \in Outgoing /\ Tail(to_board) \in Seq(Outgoing)
    BY <1>15, PacketType DEF BoardReads
  <2>2. packet.packet_num + 1 \in 0 .. MaxWrites /\ packet.packet_num \in Nums
    BY <2>1 DEF Outgoing, Nums
  <2>3. shown' \in [Categories -> 0 .. MaxWrites]
    BY <1>15, <2>2 DEF BoardReads, TypeOK
  <2>4. [type |-> "confirming", category |-> packet.category, data |-> packet.packet_num]
          \in Incoming
    BY <2>1, <2>2 DEF Incoming, Outgoing
  <2>5. /\ received' \in {received, received \cup {packet.packet_num}}
        /\ \/ to_host' = to_host
           \/ to_host' = Append(to_host, [type |-> "confirming", category |-> packet.category,
                                          data |-> packet.packet_num])
    BY <1>15 DEF BoardReads
  <2>6. to_host' \in Seq(Incoming)
    BY <2>4, <2>5, AppendType, Zenon DEF TypeOK
  <2>7. to_board' = Tail(to_board) /\ UNCHANGED <<host_vars, timer_vars, update_vars>>
    BY <1>15 DEF BoardReads
  <2> QED
    BY <2>1, <2>2, <2>3, <2>5, <2>6, <2>7 DEF TypeOK
<1>16. CASE BoardDrops
  BY <1>16, PacketType DEF BoardDrops, TypeOK
<1>17. CASE BoardWrites
  <2>1. PICK c \in Categories, v \in Values :
          to_host' = Append(to_host, [type |-> "normal", category |-> c, data |-> v])
    BY <1>17 DEF BoardWrites
  <2>2. [type |-> "normal", category |-> c, data |-> v] \in Incoming
    BY DEF Incoming
  <2>3. to_host' \in Seq(Incoming)
    BY <2>1, <2>2, AppendProperties DEF TypeOK
  <2> QED
    BY <1>17, <2>3 DEF BoardWrites, TypeOK
<1>18. CASE UNCHANGED vars
  BY <1>18 DEF vars, TypeOK
<1> QED
  BY <1>1, <1>2, <1>3, <1>4, <1>5, <1>6, <1>7, <1>8, <1>9, <1>10, <1>11, <1>12, <1>13,
     <1>14, <1>15, <1>16, <1>17, <1>18 DEF Next, Update, Callers, Ended

\* Every variable of TunnelClient keeps its type.
THEOREM TypeCorrect == Spec => []TypeOK
BY TypeInit, TypeStep, PTL DEF Spec

-----------------------------------------------------------------------------
(* Delivery. *)

Made == {h.packet_num : h \in written}
\* What may be under way: a handshake that was made, a confirming packet for a handshake
\* that was received.
Sent == {p \in Outgoing : p.type = "handshake" => p.packet_num \in Made}
Genuine == {p \in Incoming : p.type = "confirming" => p.data \in received}

DeliveryInv ==
  /\ to_board \in Seq(Sent)
  /\ to_host \in Seq(Genuine) /\ results \in Seq(Genuine)
  /\ Pending \subseteq Made
  /\ \A n \in Made : n < write_packet_num

\* A step of the host or the board as a step of Delivery.
DeliveryStep ==
  \/ UNCHANGED <<Made, received, Confirmed>>
  \/ \E n \in Nums : Promise!Send(n) \/ Promise!Receive(n) \/ Promise!Confirm(n)

\* The packet numbers of a set of handshakes with one more.
LEMMA OneMoreNum ==
  ASSUME NEW S, NEW r
  PROVE  {h.packet_num : h \in S \cup {r}} = {h.packet_num : h \in S} \cup {r.packet_num}
OBVIOUS

\* A new handshake bears a number that no earlier one has.
LEMMA HandshakeKeeps ==
  ASSUME TypeOK, DeliveryInv, NEW c \in Categories, NEW again, Handshake(c, again)
  PROVE  /\ write_packet_num \in Nums /\ write_packet_num \notin Made
         /\ Made' = Made \cup {write_packet_num}
         /\ Pending' = Pending \cup {write_packet_num}
         /\ Confirmed' = Confirmed
         /\ to_board' \in Seq(Sent)'
         /\ \A n \in Made' : n < write_packet_num'
<1>1. /\ write_packet_num \in Nums /\ write_packet_num' = write_packet_num + 1
      /\ write_packet_num \in Nat
  BY ClientAssumption DEF Handshake, MakePacket, TypeOK, Nums
<1>2. write_packet_num \notin Made
  BY <1>1 DEF DeliveryInv
<1>3. Made' = Made \cup {write_packet_num}
  <2> DEFINE r == [category |-> c, packet_num |-> write_packet_num, again |-> again]
  <2>1. written' = written \cup {r} /\ r.packet_num = write_packet_num
    BY DEF Handshake
  <2> HIDE DEF r
  <2> QED
    BY <2>1, OneMoreNum DEF Made
<1>4. Pending' = Pending \cup {write_packet_num}
  <2> DEFINE r == [category |-> c, packet_num |-> write_packet_num, again |-> again]
  <2>1. pending_handshakes' = pending_handshakes \cup {r} /\ r.packet_num = write_packet_num
    BY DEF Handshake, HandshakeNum
  <2> HIDE DEF r
  <2> QED
    BY <2>1, OneMoreNum DEF Pending
<1>5. Confirmed' = Confirmed
  BY <1>2, <1>3, <1>4 DEF Confirmed, Made
<1>6. \A n \in Made : n \in Nat
  BY DEF Made, TypeOK, Handshakes, Nums
<1>7. \A n \in Made' : n < write_packet_num'
  BY <1>1, <1>3, <1>6 DEF DeliveryInv
<1>8. Sent \subseteq Sent'
  BY <1>3 DEF Sent
<1> DEFINE p == [type |-> "handshake", category |-> c, packet_num |-> write_packet_num]
<1>9. p \in Sent' /\ to_board' = Append(to_board, p)
  BY <1>1, <1>3 DEF Sent, Outgoing, Handshake, MakePacket
<1> HIDE DEF p
<1>10. to_board \in Seq(Sent')
  BY <1>8, SeqMonotonic DEF DeliveryInv
<1>11. to_board' \in Seq(Sent')
  BY <1>9, <1>10, AppendType, Zenon
<1> QED
  BY <1>1, <1>2, <1>3, <1>4, <1>5, <1>7, <1>11

\* Every step keeps DeliveryInv and is a step of Delivery or a stutter.
LEMMA DeliveryNext ==
  TypeOK /\ TypeOK' /\ DeliveryInv /\ [Next]_vars => DeliveryInv' /\ DeliveryStep
<1> SUFFICES ASSUME TypeOK, TypeOK', DeliveryInv, [Next]_vars
             PROVE  DeliveryInv' /\ DeliveryStep
  OBVIOUS
<1> USE ClientAssumption DEF host_vars, timer_vars, update_vars, board_vars
\* Most steps disturb only what is under way.
<1>a. ASSUME UNCHANGED <<pending_handshakes, written, received, write_packet_num>>,
             to_board' \in Seq(Sent), to_host' \in Seq(Genuine), results' \in Seq(Genuine)
      PROVE  DeliveryInv' /\ DeliveryStep
  <2>1. UNCHANGED <<Made, Pending, Sent, Genuine>>
    BY <1>a DEF Made, Pending, Sent, Genuine
  <2>2. UNCHANGED <<Made, received, Confirmed>>
    BY <1>a, <2>1 DEF Confirmed, Made
  <2> QED
    BY <1>a, <2>1, <2>2 DEF DeliveryInv, DeliveryStep
<1>b. to_board \in Seq(Sent) /\ to_host \in Seq(Genuine) /\ results \in Seq(Genuine)
  BY DEF DeliveryInv
<1>c. results # << >> => result \in Genuine /\ Tail(results) \in Seq(Genuine)
  BY <1>b, HeadTailProperties DEF result
<1>d. to_board # << >> => packet \in Sent /\ Tail(to_board) \in Seq(Sent)
  BY <1>b, HeadTailProperties DEF packet
<1>1. ASSUME NEW c \in Categories, Write(c) PROVE DeliveryInv' /\ DeliveryStep
  <2> DEFINE p == [type |-> "normal", category |-> c, packet_num |-> write_packet_num]
  <2>1. /\ write_packet_num \in Nums /\ write_packet_num' = write_packet_num + 1
        /\ to_board' = Append(to_board, p)
        /\ UNCHANGED <<pending_handshakes, written, received, to_host, results>>
    BY <1>1 DEF Write, MakePacket, TypeOK, Nums
  <2>2. p \in Sent
    BY <2>1 DEF Sent, Outgoing
  <2> HIDE DEF p
  <2>3. to_board' \in Seq(Sent)
    BY <1>b, <2>1, <2>2, AppendType, Zenon
  <2>4. UNCHANGED <<Made, Pending, Sent, Genuine>>
    BY <2>1 DEF Made, Pending, Sent, Genuine
  <2>5. UNCHANGED <<Made, received, Confirmed>>
    BY <2>1, <2>4 DEF Confirmed, Made
  <2>6. \A n \in Made : n \in Nat
    BY DEF Made, TypeOK, Handshakes, Nums
  <2>7. \A n \in Made' : n < write_packet_num'
    BY <2>1, <2>4, <2>6 DEF DeliveryInv, Nums
  <2> QED
    BY <2>1, <2>3, <2>4, <2>5, <2>7 DEF DeliveryInv, DeliveryStep
<1>2. ASSUME NEW c \in Categories, NEW again, Handshake(c, again),
             UNCHANGED <<received, to_host, results>>
      PROVE  DeliveryInv' /\ DeliveryStep
  <2>1. /\ write_packet_num \in Nums /\ write_packet_num \notin Made
        /\ Made' = Made \cup {write_packet_num}
        /\ Pending' = Pending \cup {write_packet_num}
        /\ Confirmed' = Confirmed
        /\ to_board' \in Seq(Sent)'
        /\ \A n \in Made' : n < write_packet_num'
    BY <1>2, HandshakeKeeps
  <2>2. Promise!Send(write_packet_num)
    BY <1>2, <2>1 DEF Promise!Send, Made
  <2>3. UNCHANGED Genuine
    BY <1>2 DEF Genuine
  <2>4. DeliveryStep
    <3>1. write_packet_num \in Nums
      BY <2>1
    <3> QED
      BY <2>2, <3>1 DEF DeliveryStep, Promise!Send
  <2>5. UNCHANGED <<received, to_host, results>>
    BY <1>2
  <2>6. to_host' \in Seq(Genuine)' /\ results' \in Seq(Genuine)'
    BY <1>b, <2>3, <2>5
  <2>7. Pending' \subseteq Made'
    BY <2>1 DEF DeliveryInv
  <2> QED
    BY <2>1, <2>4, <2>6, <2>7 DEF DeliveryInv
<1>3. ASSUME NEW c \in Categories, WriteHandshake(c) \/ Get(c)
      PROVE  DeliveryInv' /\ DeliveryStep
  BY <1>2, <1>3 DEF WriteHandshake, Get
<1>4. CASE GetReturns \/ GetTimesOut \/ BeginUpdate \/ Resume \/ EndUpdate \/ IntervalPasses
           \/ TimeoutPasses \/ UNCHANGED vars
  BY <1>4, <1>a, <1>b DEF GetReturns, GetTimesOut, BeginUpdate, Resume, EndUpdate, IntervalPasses,
    TimeoutPasses, vars
<1>5. CASE CheckHandshake
  <2>1. PICK h \in pending_handshakes :
          \/ to_board' = Append(to_board, [type |-> "handshake", category |-> h.category,
                                           packet_num |-> h.packet_num])
          \/ to_board' = to_board
    BY <1>5 DEF CheckHandshake
  <2> DEFINE p == [type |-> "handshake", category |-> h.category, packet_num |-> h.packet_num]
  <2>2. p \in Sent
    BY <2>1 DEF Sent, Outgoing, TypeOK, Handshakes, DeliveryInv, Pending
  <2>3. to_board' = to_board \/ to_board' = Append(to_board, p)
    BY <2>1
  <2> HIDE DEF p
  <2>4. to_board' \in Seq(Sent)
    BY <1>b, <2>2, <2>3, AppendType, Zenon
  <2> QED
    BY <1>5, <1>a, <1>b, <2>4 DEF CheckHandshake
<1>6. CASE Read
  <2>1. results' \in Seq(Genuine) /\ to_host' \in Seq(Genuine)
    BY <1>6, <1>b, SplitFacts DEF Read
  <2> QED
    BY <1>6, <1>a, <1>b, <2>1 DEF Read
<1>7. CASE HandleError \/ HandleResult
  BY <1>7, <1>a, <1>b, <1>c DEF HandleError, HandleResult, Handling
<1>8. CASE HandleConfirm
  <2>1. PICK h \in pending_handshakes :
          Confirms(h) /\ pending_handshakes' = pending_handshakes \ {h}
    BY <1>8 DEF HandleConfirm
  <2>2. /\ results' = Tail(results) /\ results # << >>
        /\ UNCHANGED <<write_packet_num, written, received, to_board, to_host>>
    BY <1>8 DEF HandleConfirm, Handling
  <2>3. h.packet_num \in received /\ h.packet_num \in Nums /\ h.packet_num \in Made
    BY <1>c, <2>1, <2>2 DEF Genuine, Confirms, TypeOK, Handshakes, DeliveryInv, Pending
  <2>4. Pending' = Pending \/ Pending' = Pending \ {h.packet_num}
    BY <2>1 DEF Pending
  <2>5. Made' = Made /\ (Confirmed' = Confirmed \/ Confirmed' = Confirmed \cup {h.packet_num})
    BY <2>2, <2>3, <2>4 DEF Confirmed, Made
  <2>6. DeliveryStep
    BY <2>2, <2>3, <2>5 DEF DeliveryStep, Promise!Confirm, Made
  <2>7. UNCHANGED <<Sent, Genuine>>
    BY <2>2, <2>5 DEF Sent, Genuine
  <2> QED
    BY <1>b, <1>c, <2>2, <2>4, <2>5, <2>6, <2>7 DEF DeliveryInv
<1>9. CASE Stop \/ SendTimesOut
  BY <1>9, <1>a, <1>b, EmptySeq DEF Stop, SendTimesOut, Hangup
<1>10. CASE BoardReads
  <2>1. /\ to_board' = Tail(to_board) /\ to_board # << >>
        /\ UNCHANGED <<pending_handshakes, written, write_packet_num, results>>
    BY <1>10 DEF BoardReads
  <2>2. CASE UNCHANGED <<received, to_host>>
    BY <1>a, <1>b, <1>d, <2>1, <2>2
  <2> DEFINE p == [type |-> "confirming", category |-> packet.category,
                   data |-> packet.packet_num]
  <2>3. CASE /\ packet.type = "handshake"
             /\ received' = received \cup {packet.packet_num}
             /\ to_host' = Append(to_host, p)
    <3>1. packet.packet_num \in Made /\ packet \in Outgoing
      BY <1>d, <2>1, <2>3 DEF Sent
    <3>2. UNCHANGED <<Made, Pending, Sent, Confirmed>>
      BY <2>1 DEF Made, Pending, Sent, Confirmed
    <3>3. Promise!Receive(packet.packet_num) /\ packet.packet_num \in Nums
      BY <2>3, <3>1, <3>2 DEF Promise!Receive, Made, Outgoing
    <3>4. p \in Genuine'
      BY <2>3, <3>1, <3>3 DEF Genuine, Incoming, Outgoing
    <3>5. Genuine \subseteq Genuine'
      BY <2>3 DEF Genuine
    <3> HIDE DEF p
    <3>6. to_host \in Seq(Genuine') /\ results' \in Seq(Genuine')
      BY <1>b, <2>1, <3>5, SeqMonotonic
    <3>7. to_host' \in Seq(Genuine')
      BY <2>3, <3>4, <3>6, AppendType, Zenon
    <3> QED
      BY <1>d, <2>1, <3>2, <3>3, <3>6, <3>7 DEF DeliveryInv, DeliveryStep
  <2> QED
    BY <1>10, <2>2, <2>3 DEF BoardReads
<1>11. CASE BoardDrops
  BY <1>11, <1>a, <1>b, <1>d DEF BoardDrops
<1>12. CASE BoardWrites
  <2>1. PICK c \in Categories, v \in Values :
          to_host' = Append(to_host, [type |-> "normal", category |-> c, data |-> v])
    BY <1>12 DEF BoardWrites
  <2> DEFINE p == [type |-> "normal", category |-> c, data |-> v]
  <2>2. p \in Genuine /\ to_host' = Append(to_host, p)
    BY <2>1 DEF Genuine, Incoming
  <2> HIDE DEF p
  <2>3. to_host' \in Seq(Genuine)
    BY <1>b, <2>2, AppendType, Zenon
  <2> QED
    BY <1>12, <1>a, <1>b, <2>3 DEF BoardWrites
<1> QED
  BY <1>1, <1>3, <1>4, <1>5, <1>6, <1>7, <1>8, <1>9, <1>10, <1>11, <1>12
  DEF Next, Update, Callers, Ended

\* The initial state is an initial state of Delivery.
LEMMA DeliveryInit == Init => DeliveryInv /\ Promise!Init
BY EmptySeq DEF Init, DeliveryInv, Promise!Init, Pending, Made, Confirmed

\* Whatever the link loses, whatever is written again, a handshake the host holds for
\* confirmed was received by the board: TunnelClient implements Delivery.
THEOREM DeliveryImplemented == Spec => Delivers
<1>1. TypeOK /\ TypeOK' /\ DeliveryInv /\ [Next]_vars => [Promise!Next]_(Promise!vars)
  BY DeliveryNext DEF DeliveryStep, Promise!Next, Promise!vars, Made
<1> QED
  BY <1>1, TypeInit, TypeStep, DeliveryInit, DeliveryNext, PTL DEF Spec, Delivers, Promise!Spec

-----------------------------------------------------------------------------
(* Gets. *)

\* Only the first future of a category is given packets; a get that returns leaves, one that
\* timed out stays in front of the others.
LEMMA OldestStep == TypeOK /\ OldestFirst /\ [Next]_vars => OldestFirst'
<1> SUFFICES ASSUME TypeOK, OldestFirst, [Next]_vars PROVE OldestFirst'
  OBVIOUS
<1> USE DEF host_vars, timer_vars, update_vars, board_vars
<1>a. /\ pending_gets \in Seq(Futures) /\ Len(pending_gets) \in Nat
      /\ DOMAIN pending_gets = 1 .. Len(pending_gets)
      /\ pending_gets \in [1 .. Len(pending_gets) -> Futures]
  BY LenProperties DEF TypeOK
<1>b. ASSUME UNCHANGED pending_gets PROVE OldestFirst'
  BY <1>b DEF OldestFirst
<1>1. ASSUME NEW c \in Categories, Write(c) \/ WriteHandshake(c) PROVE OldestFirst'
  BY <1>1, <1>b DEF Write, WriteHandshake
<1>2. ASSUME NEW c \in Categories, Get(c) PROVE OldestFirst'
  <2> DEFINE future == [category |-> c, event |-> FALSE, waiting |-> TRUE,
                        copied |-> NoPacket, first |-> NoPacket]
  <2>1. pending_gets' = Append(pending_gets, future) /\ future \in Futures /\ ~ future.event
    BY <1>2 DEF Get, Futures
  <2> HIDE DEF future
  <2>2. /\ pending_gets' \in Seq(Futures) /\ Len(pending_gets') = Len(pending_gets) + 1
        /\ \A i \in 1 .. Len(pending_gets) : pending_gets'[i] = pending_gets[i]
        /\ pending_gets'[Len(pending_gets) + 1] = future
    BY <1>a, <2>1, AppendProperties
  <2>3. DOMAIN pending_gets' = 1 .. Len(pending_gets) + 1
    BY <2>2, LenProperties
  <2> QED
    BY <1>a, <2>1, <2>2, <2>3 DEF OldestFirst
<1>3. CASE GetReturns
  <2>1. PICK k \in 1 .. Len(pending_gets) : pending_gets' = Without(pending_gets, k)
    BY <1>3, <1>a DEF GetReturns, Without
  <2> DEFINE old(i) == IF i < k THEN i ELSE i + 1
  <2>2. /\ pending_gets' \in Seq(Futures) /\ Len(pending_gets') = Len(pending_gets) - 1
        /\ \A i \in 1 .. Len(pending_gets) - 1 : pending_gets'[i] = pending_gets[old(i)]
    BY <1>a, <2>1, WithoutFacts
  <2>3. DOMAIN pending_gets' = 1 .. Len(pending_gets) - 1
    BY <2>2, LenProperties
  <2>4. \A i, j \in 1 .. Len(pending_gets) - 1 :
          old(i) \in 1 .. Len(pending_gets) /\ (old(j) <= old(i) => j <= i)
    BY <1>a
  <2> HIDE DEF old
  <2> QED
    BY <1>a, <2>2, <2>3, <2>4 DEF OldestFirst
<1>4. CASE GetTimesOut
  <2>1. PICK k \in DOMAIN pending_gets : pending_gets' = [pending_gets EXCEPT ![k].waiting = FALSE]
    BY <1>4 DEF GetTimesOut
  <2>2. /\ DOMAIN pending_gets' = DOMAIN pending_gets
        /\ \A i \in DOMAIN pending_gets :
             /\ pending_gets'[i].category = pending_gets[i].category
             /\ pending_gets'[i].event = pending_gets[i].event
    BY <1>a, <2>1 DEF Futures
  <2> QED
    BY <2>2 DEF OldestFirst
<1>5. CASE HandleResult
  <2>1. CASE Matching = {}
    BY <1>5, <1>b, <2>1 DEF HandleResult
  <2>2. CASE Matching # {}
    <3> DEFINE first == FutureFor
    <3>1. first \in Matching /\ \A j \in Matching : first <= j
      <4>1. \E i \in Matching : \A j \in Matching : i <= j
        <5>1. Matching \subseteq Nat
          BY <1>a DEF Matching
        <5> QED
          BY <2>2, <5>1, SmallestInSet
      <4> QED
        BY <4>1 DEF FutureFor
    <3>2. pending_gets' = [pending_gets EXCEPT ![first] = CopyFrom(pending_gets[first])]
      BY <1>5, <2>2 DEF HandleResult
    <3> HIDE DEF first
    <3>3. /\ DOMAIN pending_gets' = DOMAIN pending_gets
          /\ \A i \in DOMAIN pending_gets :
               /\ pending_gets'[i].category = pending_gets[i].category
               /\ i # first => pending_gets'[i].event = pending_gets[i].event
      BY <1>a, <3>1, <3>2 DEF CopyFrom, Futures, Matching
    <3> QED
      BY <1>a, <3>1, <3>3 DEF OldestFirst, Matching
  <2> QED
    BY <2>1, <2>2
<1>6. CASE HandleConfirm \/ HandleError \/ BeginUpdate \/ CheckHandshake \/ Read \/ Resume
           \/ EndUpdate \/ Stop \/ SendTimesOut
  BY <1>6, <1>b DEF HandleConfirm, HandleError, BeginUpdate, CheckHandshake, Read, Resume,
    EndUpdate, Stop, SendTimesOut, Hangup
<1>7. CASE IntervalPasses \/ TimeoutPasses \/ BoardReads \/ BoardDrops \/ BoardWrites
           \/ UNCHANGED vars
  BY <1>7, <1>b DEF IntervalPasses, TimeoutPasses, BoardReads, BoardDrops, BoardWrites, vars
<1> QED
  BY <1>1, <1>2, <1>3, <1>4, <1>5, <1>6, <1>7 DEF Next, Update, Callers, Ended

\* At first no get is pending.
LEMMA OldestInit == Init => OldestFirst
<1> SUFFICES ASSUME Init PROVE OldestFirst
  OBVIOUS
<1>1. DOMAIN pending_gets = 1 .. 0
  BY EmptySeq, LenProperties DEF Init
<1> QED
  BY <1>1 DEF OldestFirst

\* However gets come, return and time out, no packet is given to a get while an older one
\* of its category is in the list.
THEOREM OldestCorrect == Spec => []OldestFirst
BY TypeInit, TypeStep, OldestInit, OldestStep, PTL DEF Spec
-----------------------------------------------------------------------------
(* What a board shows. *)

\* The categories of which no handshake is ever written again.
Plain == {c \in Categories : \A other \in written : other.category = c => ~ other.again}

\* Every handshake has a number of its own, and every packet under way one below the count.
OneNumberEach ==
  /\ pending_handshakes \subseteq written
  /\ \A g, h \in written : g.packet_num = h.packet_num => g = h
  /\ \A h \in written : h.packet_num < write_packet_num
  /\ \A n \in received : n < write_packet_num
UnderWay ==
  \A i \in DOMAIN to_board :
    /\ to_board[i].packet_num < write_packet_num
    /\ to_board[i].type = "handshake" =>
         \E h \in written : /\ h.packet_num = to_board[i].packet_num
                            /\ h.category = to_board[i].category
\* Commands of a category without handshakes to be written again arrive in the order they
\* were made, each of them newer than what the board shows.
NewerAndNewer ==
  /\ \A c \in Categories : shown[c] <= write_packet_num
  /\ \A i \in DOMAIN to_board : to_board[i].category \in Plain =>
       /\ shown[to_board[i].category] <= to_board[i].packet_num
       /\ \A j \in DOMAIN to_board : i < j /\ to_board[j].category = to_board[i].category
            => to_board[i].packet_num < to_board[j].packet_num
ReceivedShown ==
  \A h \in written : h.category \in Plain /\ h.packet_num \in received
    => shown[h.category] > h.packet_num
ConfirmedReceived == \A h \in written : h.packet_num \in Pending \cup received

ShownInv == OneNumberEach /\ UnderWay /\ NewerAndNewer /\ ReceivedShown /\ ConfirmedReceived

\* What was confirmed was received, so it is shown or newer things are.
LEMMA ShownImplies == TypeOK /\ ShownInv => ConfirmedShown
BY DEF TypeOK, Handshakes, ShownInv, ReceivedShown, ConfirmedReceived, ConfirmedShown, Confirmed, Plain

\* At first nothing is written, under way or received.
LEMMA ShownInit == Init => ShownInv
<1> SUFFICES ASSUME Init PROVE ShownInv
  OBVIOUS
<1>1. DOMAIN to_board = 1 .. 0
  BY EmptySeq, LenProperties DEF Init
<1> QED
  BY <1>1 DEF Init, ShownInv, OneNumberEach, UnderWay, NewerAndNewer, ReceivedShown, ConfirmedReceived

\* What is under way stays in order when one packet more is sent: a new one bears the
\* number after all others, one sent again belongs to a category that is not Plain.
LEMMA OneMoreUnderWay ==
  ASSUME TypeOK, UnderWay, NewerAndNewer, NEW p \in Outgoing, to_board' = Append(to_board, p),
         UNCHANGED shown, written \subseteq written',
         write_packet_num' \in Nat, write_packet_num <= write_packet_num',
         p.packet_num < write_packet_num',
         p.category \in Plain' => p.packet_num = write_packet_num,
         p.type = "handshake" =>
           \E h \in written' : h.packet_num = p.packet_num /\ h.category = p.category
  PROVE  UnderWay' /\ NewerAndNewer'
<1> DEFINE n == Len(to_board)
<1>1. to_board \in Seq(Outgoing) /\ n \in Nat
  BY LenProperties DEF TypeOK
<1>2. DOMAIN to_board = 1 .. n /\ \A i \in 1 .. n : to_board[i] \in Outgoing
  BY <1>1, LenProperties, ElementOfSeq
<1>3. /\ to_board' \in Seq(Outgoing) /\ Len(to_board') = n + 1
      /\ \A i \in 1 .. n : to_board'[i] = to_board[i]
      /\ to_board'[n + 1] = p
  BY <1>1, AppendProperties
<1>4. DOMAIN to_board' = 1 .. n + 1
  BY <1>3, LenProperties
<1>n. \A i \in 1 .. n + 1 : i \in 1 .. n \/ i = n + 1
  BY <1>1
<1> HIDE DEF n
<1>5. Plain' \subseteq Plain
  BY DEF Plain
<1>6. /\ write_packet_num \in Nat /\ shown \in [Categories -> Nat]
      /\ \A q \in Outgoing : q.packet_num \in Nat /\ q.category \in Categories
  BY ClientAssumption DEF TypeOK, Outgoing, Nums
<1>7. UnderWay'
  <2>1. ASSUME NEW i \in 1 .. n + 1
        PROVE  /\ to_board'[i].packet_num < write_packet_num'
               /\ to_board'[i].type = "handshake" =>
                    \E h \in written' : /\ h.packet_num = to_board'[i].packet_num
                                        /\ h.category = to_board'[i].category
    <3>1. CASE i \in 1 .. n
      <4>1. to_board'[i] = to_board[i] /\ to_board[i] \in Outgoing
        BY <1>2, <1>3, <3>1
      <4>2. to_board[i].packet_num < write_packet_num'
        BY <1>2, <1>6, <3>1, <4>1 DEF UnderWay
      <4> QED
        BY <1>2, <3>1, <4>1, <4>2 DEF UnderWay
    <3>2. CASE i = n + 1
      BY <1>3, <3>2
    <3> QED
      BY <1>n, <3>1, <3>2
  <2> QED
    BY <1>4, <2>1 DEF UnderWay
<1>8. NewerAndNewer'
  <2>1. \A c \in Categories : shown'[c] <= write_packet_num'
    BY <1>6 DEF NewerAndNewer
  <2>2. ASSUME NEW i \in 1 .. n + 1, to_board'[i].category \in Plain'
        PROVE  /\ shown'[to_board'[i].category] <= to_board'[i].packet_num
               /\ \A j \in 1 .. n + 1 : i < j /\ to_board'[j].category = to_board'[i].category
                    => to_board'[i].packet_num < to_board'[j].packet_num
    <3>1. CASE i \in 1 .. n
      <4>1. to_board'[i] = to_board[i] /\ to_board[i] \in Outgoing /\ to_board[i].category \in Plain
        BY <1>2, <1>3, <1>5, <2>2, <3>1
      <4>2. ASSUME NEW j \in 1 .. n + 1, i < j, to_board'[j].category = to_board'[i].category
            PROVE  to_board'[i].packet_num < to_board'[j].packet_num
        <5>1. CASE j \in 1 .. n
          BY <1>2, <1>3, <3>1, <4>1, <4>2, <5>1 DEF NewerAndNewer
        <5>2. CASE j = n + 1
          <6>1. p.packet_num = write_packet_num
            BY <1>3, <2>2, <4>2, <5>2
          <6> QED
            BY <1>2, <1>3, <3>1, <4>1, <5>2, <6>1 DEF UnderWay
        <5> QED
          BY <1>n, <5>1, <5>2
      <4> QED
        BY <1>2, <3>1, <4>1, <4>2 DEF NewerAndNewer
    <3>2. CASE i = n + 1
      <4>1. to_board'[i] = p /\ p.packet_num = write_packet_num
        BY <1>3, <2>2, <3>2
      <4>2. shown[p.category] <= write_packet_num
        BY <1>6 DEF NewerAndNewer
      <4> QED
        BY <1>1, <3>2, <4>1, <4>2
    <3> QED
      BY <1>n, <3>1, <3>2
  <2> QED
    BY <1>4, <2>1, <2>2 DEF NewerAndNewer
<1> QED
  BY <1>7, <1>8
\* What is under way stays in order when the board has taken the first packet: it may
\* have obeyed it.
LEMMA OneFewerUnderWay ==
  ASSUME TypeOK, UnderWay, NewerAndNewer, to_board # << >>, to_board' = Tail(to_board),
         UNCHANGED <<written, write_packet_num>>,
         \/ UNCHANGED shown
         \/ shown' = [shown EXCEPT ![packet.category] = packet.packet_num + 1]
  PROVE  UnderWay' /\ NewerAndNewer'
<1> DEFINE n == Len(to_board)
<1>1. to_board \in Seq(Outgoing) /\ n \in Nat /\ n # 0
  BY LenProperties, EmptySeq DEF TypeOK
<1>2. DOMAIN to_board = 1 .. n /\ \A i \in 1 .. n : to_board[i] \in Outgoing
  BY <1>1, LenProperties, ElementOfSeq
<1>3. /\ to_board' \in Seq(Outgoing) /\ Len(to_board') = n - 1
      /\ \A i \in 1 .. n - 1 : to_board'[i] = to_board[i + 1]
  BY <1>1, HeadTailProperties
<1>4. DOMAIN to_board' = 1 .. n - 1 /\ packet = to_board[1] /\ 1 \in 1 .. n
  BY <1>1, <1>3, LenProperties DEF packet
<1>5. \A i, j \in 1 .. n - 1 : i + 1 \in 1 .. n /\ 1 < i + 1 /\ (i < j => i + 1 < j + 1)
  BY <1>1
<1> HIDE DEF n
<1>6. Plain' = Plain
  BY DEF Plain
<1>7. /\ write_packet_num \in Nat /\ shown \in [Categories -> Nat]
      /\ \A q \in Outgoing : q.packet_num \in Nat /\ q.category \in Categories
  BY ClientAssumption DEF TypeOK, Outgoing, Nums
<1>8. packet \in Outgoing /\ packet.packet_num < write_packet_num
  BY <1>2, <1>4 DEF UnderWay
<1>9. UnderWay'
  BY <1>2, <1>3, <1>4, <1>5 DEF UnderWay
<1>10. \A c \in Categories :
         \/ shown'[c] = shown[c]
         \/ c = packet.category /\ shown'[c] = packet.packet_num + 1
  <2>1. CASE UNCHANGED shown
    BY <2>1
  <2>2. CASE shown' = [shown EXCEPT ![packet.category] = packet.packet_num + 1]
    BY <1>7, <2>2
  <2> QED
    BY <2>1, <2>2
<1>11. \A c \in Categories : shown'[c] <= write_packet_num'
  BY <1>7, <1>8, <1>10 DEF NewerAndNewer
<1>12. ASSUME NEW i \in 1 .. n - 1, to_board'[i].category \in Plain'
       PROVE  /\ shown'[to_board'[i].category] <= to_board'[i].packet_num
              /\ \A j \in 1 .. n - 1 : i < j /\ to_board'[j].category = to_board'[i].category
                   => to_board'[i].packet_num < to_board'[j].packet_num
  <2>1. /\ to_board'[i] = to_board[i + 1] /\ i + 1 \in 1 .. n /\ to_board[i + 1] \in Outgoing
        /\ to_board[i + 1].category \in Plain
    BY <1>2, <1>3, <1>5, <1>6, <1>12
  <2>2. shown[to_board[i + 1].category] <= to_board[i + 1].packet_num
    BY <1>2, <2>1 DEF NewerAndNewer
  <2>3. packet.category = to_board[i + 1].category => packet.packet_num < to_board[i + 1].packet_num
    BY <1>2, <1>4, <1>5, <2>1 DEF NewerAndNewer
  <2>4. shown'[to_board[i + 1].category] <= to_board[i + 1].packet_num
    BY <1>7, <1>8, <1>10, <2>1, <2>2, <2>3
  <2>5. \A j \in 1 .. n - 1 : i < j /\ to_board'[j].category = to_board'[i].category
          => to_board'[i].packet_num < to_board'[j].packet_num
    BY <1>2, <1>3, <1>5, <2>1 DEF NewerAndNewer
  <2> QED
    BY <2>1, <2>4, <2>5
<1> QED
  BY <1>4, <1>9, <1>11, <1>12 DEF NewerAndNewer

\* Every step keeps the order of commands under way and what the board shows of them.
LEMMA ShownNext == TypeOK /\ TypeOK' /\ DeliveryInv /\ ShownInv /\ [Next]_vars => ShownInv'
<1> SUFFICES ASSUME TypeOK, TypeOK', DeliveryInv, ShownInv, [Next]_vars PROVE ShownInv'
  OBVIOUS
<1> USE ClientAssumption DEF host_vars, timer_vars, update_vars, board_vars, ShownInv
\* Most steps disturb nothing but what is under way.
<1>a. ASSUME UNCHANGED <<pending_handshakes, written, write_packet_num, shown, received>>,
             UnderWay' /\ NewerAndNewer'
      PROVE  ShownInv'
  BY <1>a DEF OneNumberEach, ReceivedShown, ConfirmedReceived, Plain, Pending
<1>b. ASSUME UNCHANGED <<pending_handshakes, written, write_packet_num, shown, received, to_board>>
      PROVE  ShownInv'
  BY <1>b DEF OneNumberEach, UnderWay, NewerAndNewer, ReceivedShown, ConfirmedReceived, Plain,
    Pending
<1>c. write_packet_num \in Nat
  BY DEF TypeOK
<1>1. ASSUME NEW c \in Categories, Write(c) PROVE ShownInv'
  <2> DEFINE p == [type |-> "normal", category |-> c, packet_num |-> write_packet_num]
  <2>1. /\ write_packet_num \in Nums /\ write_packet_num' = write_packet_num + 1
        /\ to_board' = Append(to_board, p)
        /\ UNCHANGED <<pending_handshakes, written, received, shown>>
    BY <1>1 DEF Write, MakePacket, TypeOK, Nums
  <2>2. /\ p \in Outgoing /\ p.packet_num = write_packet_num /\ p.type # "handshake"
        /\ p.packet_num < write_packet_num'
    BY <1>c, <2>1 DEF Outgoing
  <2> HIDE DEF p
  <2>3. UnderWay' /\ NewerAndNewer'
    BY <1>c, <2>1, <2>2, OneMoreUnderWay
  <2>4. /\ \A h \in written : h.packet_num < write_packet_num'
        /\ \A n \in received : n < write_packet_num'
    BY <1>c, <2>1, SMTT(30) DEF OneNumberEach, TypeOK, Handshakes, Nums
  <2> QED
    BY <2>1, <2>3, <2>4 DEF OneNumberEach, ReceivedShown, ConfirmedReceived, Plain, Pending
<1>2. ASSUME NEW c \in Categories, NEW again, Handshake(c, again), UNCHANGED <<received, shown>>
      PROVE  ShownInv'
  <2> DEFINE p == [type |-> "handshake", category |-> c, packet_num |-> write_packet_num]
             r == [category |-> c, packet_num |-> write_packet_num, again |-> again]
  <2>1. /\ write_packet_num \in Nums /\ write_packet_num' = write_packet_num + 1
        /\ to_board' = Append(to_board, p)
        /\ pending_handshakes' = pending_handshakes \cup {r} /\ written' = written \cup {r}
    BY <1>2 DEF Handshake, HandshakeNum, MakePacket, TypeOK, Nums
  <2>2. /\ p \in Outgoing /\ p.packet_num = write_packet_num /\ p.packet_num < write_packet_num'
        /\ r.packet_num = write_packet_num /\ r.category = p.category
    BY <1>c, <2>1 DEF Outgoing
  <2> HIDE DEF p, r
  <2>3. UnderWay' /\ NewerAndNewer'
    BY <1>c, <1>2, <2>1, <2>2, OneMoreUnderWay
  <2>4. /\ \A h \in written : h.packet_num < write_packet_num'
        /\ \A n \in received : n < write_packet_num'
    BY <1>c, <2>1, SMTT(30) DEF OneNumberEach, TypeOK, Handshakes, Nums
  <2>5. OneNumberEach'
    BY <1>c, <1>2, <2>1, <2>2, <2>4 DEF OneNumberEach
  <2>6. r.packet_num \in Pending' /\ Pending \subseteq Pending'
    BY <2>1 DEF Pending
  <2>7. ConfirmedReceived'
    BY <1>2, <2>1, <2>6 DEF ConfirmedReceived
  <2>8. Plain' \subseteq Plain /\ write_packet_num \notin received
    BY <1>c, <2>1 DEF Plain, OneNumberEach
  <2>9. ReceivedShown'
    BY <1>2, <2>1, <2>2, <2>8 DEF ReceivedShown
  <2> QED
    BY <2>3, <2>5, <2>7, <2>9
<1>3. ASSUME NEW c \in Categories, WriteHandshake(c) \/ Get(c) PROVE ShownInv'
  BY <1>2, <1>3 DEF WriteHandshake, Get
<1>4. CASE GetReturns \/ GetTimesOut \/ BeginUpdate \/ Resume \/ EndUpdate \/ IntervalPasses
           \/ TimeoutPasses \/ Read \/ HandleError \/ HandleResult \/ BoardWrites \/ UNCHANGED vars
  BY <1>4, <1>b DEF GetReturns, GetTimesOut, BeginUpdate, Resume, EndUpdate, IntervalPasses,
    TimeoutPasses, Read, HandleError, HandleResult, BoardWrites, vars
<1>5. CASE CheckHandshake
  <2>1. UNCHANGED <<pending_handshakes, written, write_packet_num, shown, received>>
    BY <1>5 DEF CheckHandshake
  <2>2. CASE UNCHANGED to_board
    BY <1>b, <2>1, <2>2
  <2>3. CASE ~ UNCHANGED to_board
    <3>1. PICK h \in pending_handshakes :
            /\ h.again
            /\ to_board' = Append(to_board, [type |-> "handshake", category |-> h.category,
                                             packet_num |-> h.packet_num])
      BY <1>5, <2>3 DEF CheckHandshake, ShouldWriteAgain
    <3> DEFINE p == [type |-> "handshake", category |-> h.category, packet_num |-> h.packet_num]
    <3>2. h \in written' /\ h \in Handshakes /\ h.packet_num < write_packet_num'
      BY <2>1 DEF OneNumberEach, TypeOK
    <3>3. /\ p \in Outgoing /\ p.category \notin Plain'
          /\ p.packet_num = h.packet_num /\ p.category = h.category
      BY <2>1, <3>1, <3>2 DEF Outgoing, Handshakes, Plain
    <3>4. to_board' = Append(to_board, p)
      BY <3>1
    <3> HIDE DEF p
    <3>5. UnderWay' /\ NewerAndNewer'
      BY <1>c, <2>1, <3>2, <3>3, <3>4, OneMoreUnderWay
    <3> QED
      BY <1>a, <2>1, <3>5
  <2> QED
    BY <2>2, <2>3
<1>6. CASE HandleConfirm
  <2>1. PICK h \in pending_handshakes :
          Confirms(h) /\ pending_handshakes' = pending_handshakes \ {h}
    BY <1>6 DEF HandleConfirm
  <2>2. /\ results # << >>
        /\ UNCHANGED <<write_packet_num, written, received, to_board, shown>>
    BY <1>6 DEF HandleConfirm, Handling
  <2>3. result \in Genuine
    BY <2>2, HeadTailProperties DEF DeliveryInv, result
  <2>4. h.packet_num \in received
    BY <2>1, <2>3 DEF Genuine, Confirms
  <2>5. Pending \subseteq Pending' \cup {h.packet_num}
    BY <2>1 DEF Pending
  <2>6. ConfirmedReceived'
    BY <2>2, <2>4, <2>5 DEF ConfirmedReceived
  <2> QED
    BY <2>1, <2>2, <2>6 DEF OneNumberEach, UnderWay, NewerAndNewer, ReceivedShown, Plain
<1>7. CASE Stop \/ SendTimesOut
  <2>1. /\ DOMAIN to_board' = 1 .. 0
        /\ UNCHANGED <<pending_handshakes, written, write_packet_num, shown, received>>
    BY <1>7, EmptySeq, LenProperties DEF Stop, SendTimesOut, Hangup
  <2>2. UnderWay' /\ NewerAndNewer'
    BY <2>1 DEF UnderWay, NewerAndNewer
  <2> QED
    BY <1>a, <2>1, <2>2
<1>8. CASE BoardReads
  <2>1. /\ to_board # << >> /\ to_board' = Tail(to_board)
        /\ shown' = [shown EXCEPT ![packet.category] = packet.packet_num + 1]
        /\ UNCHANGED <<pending_handshakes, written, write_packet_num>>
    BY <1>8 DEF BoardReads
  <2>2. UnderWay' /\ NewerAndNewer'
    BY <2>1, OneFewerUnderWay
  <2>3. received \subseteq received'
    BY <1>8 DEF BoardReads
  <2>4. packet = to_board[1] /\ packet \in Outgoing /\ 1 \in DOMAIN to_board
    BY <2>1, PacketType, HeadTailProperties, LenProperties, EmptySeq DEF packet, TypeOK
  <2>5. ConfirmedReceived' /\ OneNumberEach'
    <3>1. received' \subseteq received \cup {packet.packet_num}
      BY <1>8 DEF BoardReads
    <3> QED
      BY <2>1, <2>3, <2>4, <3>1 DEF ConfirmedReceived, OneNumberEach, Pending, UnderWay
  <2>6. ASSUME NEW h \in written, h.category \in Plain, h.packet_num \in received'
        PROVE  shown'[h.category] > h.packet_num
    <3>1. /\ h \in Handshakes /\ shown \in [Categories -> Nat]
          /\ h.packet_num \in Nat /\ packet.packet_num \in Nat /\ h.category \in Categories
      <4>1. shown \in [Categories -> Nat]
        BY DEF TypeOK
      <4>2. h \in Handshakes
        BY DEF TypeOK
      <4> QED
        BY <2>4, <4>1, <4>2 DEF Handshakes, Outgoing, Nums
    <3>2. CASE h.packet_num \in received
      <4>1. shown[h.category] > h.packet_num
        BY <2>6, <3>2 DEF ReceivedShown
      <4>2. CASE h.category = packet.category
        <5>1. shown[packet.category] <= packet.packet_num
          BY <2>4, <2>6, <4>2 DEF NewerAndNewer
        <5>2. shown'[h.category] = packet.packet_num + 1
          BY <2>1, <3>1, <4>2
        <5> QED
          BY <3>1, <4>1, <4>2, <5>1, <5>2
      <4>3. CASE h.category # packet.category
        BY <2>1, <3>1, <4>1, <4>3
      <4> QED
        BY <4>2, <4>3
    <3>3. CASE h.packet_num \notin received
      <4>1. packet.type = "handshake" /\ h.packet_num = packet.packet_num
        BY <1>8, <2>6, <3>3 DEF BoardReads
      <4>2. PICK g \in written : g.packet_num = packet.packet_num /\ g.category = packet.category
        BY <2>4, <4>1 DEF UnderWay
      <4>3. h.category = packet.category
        BY <4>1, <4>2 DEF OneNumberEach
      <4>4. shown'[h.category] = packet.packet_num + 1
        BY <2>1, <3>1, <4>3
      <4> QED
        BY <3>1, <4>1, <4>4
    <3> QED
      BY <3>2, <3>3
  <2>7. ReceivedShown'
    BY <2>1, <2>6 DEF ReceivedShown, Plain
  <2> QED
    BY <2>2, <2>5, <2>7
<1>9. CASE BoardDrops
  <2>1. /\ to_board # << >> /\ to_board' = Tail(to_board)
        /\ UNCHANGED <<pending_handshakes, written, write_packet_num, shown, received>>
    BY <1>9 DEF BoardDrops
  <2>2. UnderWay' /\ NewerAndNewer'
    BY <2>1, OneFewerUnderWay
  <2> QED
    BY <1>a, <2>1, <2>2
<1> QED
  BY <1>1, <1>3, <1>4, <1>5, <1>6, <1>7, <1>8, <1>9 DEF Next, Update, Callers, Ended

\* As long as no handshake of a category is one to be written again, a board shows a
\* command at least as new as the newest one of the category that was confirmed.
THEOREM ConfirmedShownCorrect == Spec => []ConfirmedShown
BY TypeInit, TypeStep, DeliveryInit, DeliveryNext, ShownInit, ShownNext, ShownImplies, PTL DEF Spec
=============================================================================
