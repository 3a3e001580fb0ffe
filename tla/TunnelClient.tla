---------------------------- MODULE TunnelClient ----------------------------
(***************************************************************************)
(* One tunnel: TunnelBaseClient (lib/tunnel/client.py) with its pending    *)
(* handshakes and gets on the host, and the board that confirms a          *)
(* handshake before its callback runs (readPacket in firmware/src/tunnel/  *)
(* socket.cpp), over a link that keeps the order of packets and may lose   *)
(* some of them (a time-out in the middle of a packet, a wrong checksum).  *)
(*                                                                         *)
(* The host is one event loop: update and the callers of write,            *)
(* write_handshake and get take turns where update awaits: at its end, and *)
(* in a packet_callback that awaits (NoVacancyTunnelClient's for a ping,   *)
(* the one of TunnelBaseClient for any packet).                            *)
(***************************************************************************)
EXTENDS Naturals, Sequences, Functions

CONSTANTS
  Categories,
  Resent,       \* the categories of handshakes written with a write_interval > 0
  ThrowErrors,  \* throw_error_on_failed_handshake; FALSE unless somebody sets it
  Values,       \* what the data of a board's own packets may say
  MaxWrites,    \* bound on the packets the host makes
  MaxLink,      \* bound on the packets under way in one direction
  MaxGets       \* bound on the futures in pending_gets

ASSUME ClientAssumption ==
  /\ Resent \subseteq Categories /\ ThrowErrors \in BOOLEAN
  /\ MaxWrites \in Nat /\ MaxLink \in Nat /\ MaxGets \in Nat
  /\ Values \subseteq Nat

Nums == 0 .. (MaxWrites - 1)

VARIABLES
  write_packet_num,    \* the protocol's count of packets made
  pending_handshakes,  \* a list, always in the order of packet_num: here a set
  pending_gets,
  due,                 \* packet numbers whose write_interval has passed
  expired,             \* packet numbers whose timeout has passed
  task,                \* where update is
  unchecked,           \* handshakes check_handshakes has yet to visit in this round
  results,             \* the packets parsed from one read, not handled yet
  to_board, to_host,   \* packets under way
  shown,               \* the last command of a category the board has obeyed, plus one
  written, received    \* history: handshakes the host made, handshakes the board read

host_vars == <<write_packet_num, pending_handshakes, pending_gets, written>>
timer_vars == <<due, expired>>
update_vars == <<task, unchecked, results>>
board_vars == <<shown, received>>
vars == <<host_vars, timer_vars, update_vars, to_board, to_host, board_vars>>

Handshakes == [category : Categories, packet_num : Nums, again : BOOLEAN]
Outgoing == [type : {"normal", "handshake"}, category : Categories, packet_num : Nums]
Incoming == [type : {"normal"}, category : Categories, data : Values]
            \cup [type : {"confirming"}, category : Categories, data : Nums]

\* A FuturePacketResult: the packet copied into it, the first packet that was (history),
\* and whether the caller still waits.
NoPacket == [type |-> "none"]
Futures == [category : Categories, event : BOOLEAN, waiting : BOOLEAN,
            copied : Incoming \cup {NoPacket}, first : Incoming \cup {NoPacket}]

Pending == {h.packet_num : h \in pending_handshakes}

Init ==
  /\ write_packet_num = 0
  /\ pending_handshakes = {} /\ pending_gets = << >>
  /\ due = {} /\ expired = {}
  /\ task = "awaiting" /\ unchecked = {} /\ results = << >>
  /\ to_board = << >> /\ to_host = << >>
  /\ shown = [c \in Categories |-> 0]
  /\ written = {} /\ received = {}

-----------------------------------------------------------------------------
(* The callers, while update awaits. *)

LoopFree == task \in {"awaiting", "suspended"}

\* sendall blocks while the link is full.
MakePacket(type, c) ==
  /\ write_packet_num < MaxWrites /\ Len(to_board) < MaxLink
  /\ to_board' = Append(to_board,
                        [type |-> type, category |-> c, packet_num |-> write_packet_num])
  /\ write_packet_num' = write_packet_num + 1

Write(c) ==
  /\ LoopFree
  /\ MakePacket("normal", c)
  /\ UNCHANGED <<pending_handshakes, pending_gets, written, timer_vars, update_vars,
                 to_host, board_vars>>

\* Mutant of HandshakeNum: the count after make_packet, without the "- 1".
NextNum == write_packet_num + 1
HandshakeNum == write_packet_num

Handshake(c, again) ==
  /\ MakePacket("handshake", c)
  /\ pending_handshakes' = pending_handshakes \cup
       {[category |-> c, packet_num |-> HandshakeNum, again |-> again]}
  /\ written' = written \cup {[category |-> c, packet_num |-> write_packet_num, again |-> again]}

WriteHandshake(c) ==
  /\ LoopFree
  /\ Handshake(c, c \in Resent)
  /\ UNCHANGED <<pending_gets, timer_vars, update_vars, to_host, board_vars>>

Get(c) ==
  /\ LoopFree /\ Len(pending_gets) < MaxGets
  /\ Handshake(c, FALSE)
  /\ pending_gets' = Append(pending_gets,
       [category |-> c, event |-> FALSE, waiting |-> TRUE,
        copied |-> NoPacket, first |-> NoPacket])
  /\ UNCHANGED <<timer_vars, update_vars, to_host, board_vars>>

\* list.remove takes the first that equals by category and packet_num: the future itself,
\* for only the oldest of a category is ever answered.
GetReturns ==
  /\ LoopFree
  /\ \E i \in DOMAIN pending_gets :
       /\ pending_gets[i].waiting /\ pending_gets[i].event
       /\ pending_gets' = SubSeq(pending_gets, 1, i - 1)
                          \o SubSeq(pending_gets, i + 1, Len(pending_gets))
  /\ UNCHANGED <<write_packet_num, pending_handshakes, written, timer_vars, update_vars,
                 to_board, to_host, board_vars>>

\* The TimeoutError of wait_for leaves get before pending_gets.remove.
GetTimesOut ==
  /\ LoopFree
  /\ \E i \in DOMAIN pending_gets :
       /\ pending_gets[i].waiting
       /\ pending_gets' = [pending_gets EXCEPT ![i].waiting = FALSE]
  /\ UNCHANGED <<write_packet_num, pending_handshakes, written, timer_vars, update_vars,
                 to_board, to_host, board_vars>>

-----------------------------------------------------------------------------
(* update. *)

\* check_handshakes walks through the handshakes that are pending.
BeginUpdate ==
  /\ task = "awaiting"
  /\ task' = "check"
  /\ unchecked' = Pending
  /\ UNCHANGED <<host_vars, timer_vars, results, to_board, to_host, board_vars>>

\* Mutants of ShouldWriteAgain: a write_interval of zero counts as passed; only the first
\* handshake of the list is written again.
AlwaysAgain(h) == h.packet_num \in due
OldestAgain(h) ==
  h.again /\ h.packet_num \in due /\ \A o \in pending_handshakes : h.packet_num <= o.packet_num
\* should_write_again: never if write_interval is not positive.
ShouldWriteAgain(h) == h.again /\ h.packet_num \in due
DidFail(h) == h.packet_num \in expired

\* The handshake whose turn it is.
Visits(h) ==
  /\ task = "check"
  /\ h.packet_num \in unchecked /\ \A n \in unchecked : h.packet_num <= n

\* An expired handshake stays in the list: it is written, and warned about, again.
CheckHandshake ==
  /\ \E h \in pending_handshakes :
       /\ Visits(h)
       /\ \/ /\ ShouldWriteAgain(h) /\ Len(to_board) < MaxLink
             /\ to_board' = Append(to_board,
                  [type |-> "handshake", category |-> h.category, packet_num |-> h.packet_num])
             /\ due' = due \ {h.packet_num}
          \/ /\ ~ ShouldWriteAgain(h)
             /\ UNCHANGED <<to_board, due>>
       /\ task' = IF DidFail(h) /\ ThrowErrors THEN "raised" ELSE "check"
       /\ unchecked' = unchecked \ {h.packet_num}
  /\ UNCHANGED <<host_vars, expired, results, to_host, board_vars>>

\* Whatever complete packets the read brings, at least one if there is any.
Read ==
  /\ task = "check" /\ unchecked = {}
  /\ \E k \in 0 .. Len(to_host) :
       /\ k = 0 => to_host = << >>
       /\ results' = SubSeq(to_host, 1, k)
       /\ to_host' = SubSeq(to_host, k + 1, Len(to_host))
  /\ task' = "handle"
  /\ UNCHANGED <<host_vars, timer_vars, unchecked, to_board, board_vars>>

result == Head(results)
Handling == task = "handle" /\ results # << >>
\* Mutant of Confirms: handshakes are compared by category.
ConfirmsCategory(h) == result.type = "confirming" /\ h.category = result.category
Confirms(h) ==
  /\ result.type = "confirming"
  /\ h.category = result.category /\ h.packet_num = result.data

\* A packet with a wrong checksum is an error: it is passed over.
HandleError ==
  /\ Handling
  /\ results' = Tail(results)
  /\ UNCHANGED <<host_vars, timer_vars, task, unchecked, to_board, to_host, board_vars>>

HandleConfirm ==
  /\ Handling
  /\ \E h \in pending_handshakes :
       /\ Confirms(h)
       /\ pending_handshakes' = pending_handshakes \ {h}
       /\ due' = due \ {h.packet_num} /\ expired' = expired \ {h.packet_num}
  /\ results' = Tail(results)
  /\ UNCHANGED <<write_packet_num, pending_gets, written, task, unchecked,
                 to_board, to_host, board_vars>>

\* find_matching_future_result: the first of the category, answered or not, awaited or not.
Matching == {i \in DOMAIN pending_gets : pending_gets[i].category = result.category}

\* Mutant of FutureFor: the newest future of the category.
NewestFuture == CHOOSE i \in Matching : \A j \in Matching : j <= i
FutureFor == CHOOSE i \in Matching : \A j \in Matching : i <= j

CopyFrom(future) ==
  [future EXCEPT !.event = TRUE, !.copied = result,
                 !.first = IF future.event THEN @ ELSE result]

\* A confirm that no handshake expects is handled like data.  The future has its packet
\* before packet_callback is called, which may await or not.
HandleResult ==
  /\ Handling
  /\ \A h \in pending_handshakes : ~ Confirms(h)
  /\ pending_gets' = IF Matching = {} THEN pending_gets
                     ELSE [pending_gets EXCEPT ![FutureFor] = CopyFrom(@)]
  /\ results' = Tail(results)
  /\ task' \in {"handle", "suspended"}
  /\ UNCHANGED <<write_packet_num, pending_handshakes, written, timer_vars, unchecked,
                 to_board, to_host, board_vars>>

Resume ==
  /\ task = "suspended"
  /\ task' = "handle"
  /\ UNCHANGED <<host_vars, timer_vars, unchecked, results, to_board, to_host, board_vars>>

EndUpdate ==
  /\ task = "handle" /\ results = << >>
  /\ task' = "awaiting"
  /\ UNCHANGED <<host_vars, timer_vars, unchecked, results, to_board, to_host, board_vars>>

\* The connection is over; TunnelFactory drops the tunnel.
Hangup ==
  /\ task' = "stopped"
  /\ to_board' = << >> /\ to_host' = << >>
  /\ UNCHANGED <<host_vars, timer_vars, unchecked, results, board_vars>>

Stop == task \notin {"raised", "stopped"} /\ Hangup

\* sendall times out on a board that reads nothing, itself waiting for room to write.
SendTimesOut ==
  /\ \E h \in pending_handshakes : Visits(h) /\ ShouldWriteAgain(h)
  /\ Len(to_board) = MaxLink
  /\ Hangup

-----------------------------------------------------------------------------
(* Time. *)

IntervalPasses ==
  /\ \E n \in Pending \ due : due' = due \cup {n}
  /\ UNCHANGED <<host_vars, expired, update_vars, to_board, to_host, board_vars>>

TimeoutPasses ==
  /\ \E n \in Pending \ expired : expired' = expired \cup {n}
  /\ UNCHANGED <<host_vars, due, update_vars, to_board, to_host, board_vars>>

-----------------------------------------------------------------------------
(* The board. *)

packet == Head(to_board)

\* The confirming packet is written before the packet's callback runs.
BoardReads ==
  /\ to_board # << >> /\ Len(to_host) < MaxLink
  /\ to_board' = Tail(to_board)
  /\ shown' = [shown EXCEPT ![packet.category] = packet.packet_num + 1]
  /\ \/ /\ packet.type = "handshake"
        /\ received' = received \cup {packet.packet_num}
        /\ to_host' = Append(to_host,
             [type |-> "confirming", category |-> packet.category,
              data |-> packet.packet_num])
     \/ /\ packet.type = "normal"
        /\ UNCHANGED <<received, to_host>>
  /\ UNCHANGED <<host_vars, timer_vars, update_vars>>

BoardDrops ==
  /\ to_board # << >>
  /\ to_board' = Tail(to_board)
  /\ UNCHANGED <<host_vars, timer_vars, update_vars, to_host, board_vars>>

\* A reply or a report.  The board reads between two of them, and the buffers of a link
\* hold more than that: there is always room for a confirming packet.
BoardWrites ==
  /\ task # "stopped" /\ Len(to_host) + 1 < MaxLink
  /\ \E c \in Categories, v \in Values :
       to_host' = Append(to_host, [type |-> "normal", category |-> c, data |-> v])
  /\ UNCHANGED <<host_vars, timer_vars, update_vars, to_board, board_vars>>

-----------------------------------------------------------------------------

Update ==
  \/ BeginUpdate \/ CheckHandshake \/ Read
  \/ HandleConfirm \/ HandleResult \/ Resume \/ EndUpdate

Callers ==
  \/ \E c \in Categories : Write(c) \/ WriteHandshake(c) \/ Get(c)
  \/ GetReturns \/ GetTimesOut

\* Nothing happens on a connection that is over, or after the exception of update.
Ended == task \in {"raised", "stopped"} /\ UNCHANGED vars

Next ==
  \/ Update \/ Callers \/ HandleError \/ SendTimesOut \/ Stop
  \/ IntervalPasses \/ TimeoutPasses
  \/ BoardReads \/ BoardDrops \/ BoardWrites
  \/ Ended

Spec == Init /\ [][Next]_vars

ReadsHandshake(n) == BoardReads /\ packet.type = "handshake" /\ packet.packet_num = n
HandlesConfirm(n) == HandleConfirm /\ result.data = n

\* update is called in an endless loop and time passes.  A link may lose a packet again
\* and again, but not every time.
FairSpec ==
  /\ Spec
  /\ WF_vars(Update) /\ WF_vars(SendTimesOut)
  /\ WF_vars(IntervalPasses) /\ WF_vars(TimeoutPasses)
  /\ WF_vars(BoardReads)
  /\ \A n \in Nums : SF_vars(ReadsHandshake(n)) /\ SF_vars(HandlesConfirm(n))

-----------------------------------------------------------------------------
(* Properties. *)

\* Every variable has its type; packet numbers stay below the count of packets made.
TypeOK ==
  /\ write_packet_num \in 0 .. MaxWrites
  /\ pending_handshakes \subseteq Handshakes
  /\ pending_gets \in Seq(Futures)
  /\ due \subseteq Nums /\ expired \subseteq Nums
  /\ task \in {"awaiting", "check", "handle", "suspended", "raised", "stopped"}
  /\ unchecked \subseteq Nums
  /\ results \in Seq(Incoming)
  /\ to_board \in Seq(Outgoing) /\ to_host \in Seq(Incoming)
  /\ shown \in [Categories -> 0 .. MaxWrites]
  /\ written \subseteq Handshakes
  /\ received \subseteq Nums

Confirmed == {h.packet_num : h \in written} \ Pending

\* A handshake leaves pending_handshakes only after the board has read it, although
\* packets and confirms are lost, written again, and matched by category and number.
Promise == INSTANCE Delivery WITH
  sent <- {h.packet_num : h \in written}, confirmed <- Confirmed
Delivers == Promise!Spec

\* As long as no handshake of a category is one to be written again, what a board shows
\* is never older than the newest command of it that the host holds for confirmed.
ConfirmedShown ==
  \A h \in written :
    /\ \A other \in written : other.category = h.category => ~ other.again
    /\ h.packet_num \in Confirmed
    => shown[h.category] > h.packet_num

\* Of several gets of one category only the oldest is ever given a packet.
OldestFirst ==
  \A i, j \in DOMAIN pending_gets :
    pending_gets[j].event /\ pending_gets[i].category = pending_gets[j].category => j <= i

Over == task \in {"raised", "stopped"}

\* A handshake with a write_interval is written again until it is confirmed, even after
\* its timeout, so it arrives as long as the link lasts.  should_write_again does not look
\* at the timeout: this holds as well where write_handshake warns "write_interval is greater
\* than timeout ... Packet will not be rewritten", which is not what the code does.
Delivered ==
  \A n \in Nums :
    (\E h \in pending_handshakes : h.packet_num = n /\ h.again) ~> n \in Confirmed \/ Over

\* "Write a packet and return the values of the next return packet with the same
\* category" (get in lib/tunnel/client.py).
GetReturnsNext ==
  \A i \in DOMAIN pending_gets :
    pending_gets[i].waiting /\ LoopFree => pending_gets[i].copied = pending_gets[i].first

\* The same promise: a packet that arrives while somebody waits for its category is
\* given to somebody who waits.
PacketReachesWaiter ==
  [][\A i \in DOMAIN pending_gets :
       /\ HandleResult /\ pending_gets[i].waiting /\ ~ pending_gets[i].event
       /\ pending_gets[i].category = result.category
       => \E j \in DOMAIN pending_gets :
            pending_gets[j].waiting /\ pending_gets'[j] # pending_gets[j]]_vars
=============================================================================
