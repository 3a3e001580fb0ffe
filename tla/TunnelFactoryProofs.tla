------------------------- MODULE TunnelFactoryProofs -------------------------
(***************************************************************************)
(* Proofs about TunnelFactory, for any boards and any number of            *)
(* connections: its type invariant, that the sweep of _check_clients never *)
(* pops past the end of the list, and that no connection is lost or        *)
(* doubled.                                                                *)
(***************************************************************************)
EXTENDS TunnelFactory, ListProofs

-----------------------------------------------------------------------------
(* The type invariant. *)

\* What remains of a list of tunnels when one of them is popped.
LEMMA RemoveType ==
  ASSUME tunnels \in Seq(Conns), NEW i \in Nat, i < Len(tunnels)
  PROVE  Remove(i) \in Seq(Conns) /\ Len(Remove(i)) = Len(tunnels) - 1
<1>1. Remove(i) = Without(tunnels, i + 1) /\ i + 1 \in 1 .. Len(tunnels)
  <2>1. (i + 1) - 1 = i /\ (i + 1) + 1 = i + 2 /\ i + 1 \in 1 .. Len(tunnels)
    BY LenProperties
  <2> QED
    BY <2>1 DEF Remove, Without
<1> QED
  BY <1>1, WithoutFacts

\* Where the sweep is: the indices it has noted lie far enough apart, and far enough in
\* front of the enumeration, for each of them to be popped once more.
Apart(bound) ==
  \A i \in 1 .. Len(delete_indices) : delete_indices[i] + (Len(delete_indices) - i) < bound

SweepInv ==
  /\ task = "enumerate" => pops = 0 /\ Apart(index)
  /\ task = "pop" =>
       /\ Apart(index + 1) /\ pops <= Len(delete_indices)
       /\ index < Len(tunnels) + (Len(delete_indices) - pops)
  /\ task \in {"awaiting", "read"} => pops = 0 /\ Len(delete_indices) = 0

\* The index popped next is always within the list.
LEMMA VictimInBounds ==
  ASSUME TypeOK, SweepInv, task = "pop", pops > 0
  PROVE  Victim < Len(tunnels) /\ Victim \in Nat
<1>1. /\ Len(tunnels) \in Nat /\ Len(delete_indices) \in Nat /\ index \in Nat /\ pops \in Nat
      /\ \A i \in 1 .. Len(delete_indices) : delete_indices[i] \in Nat
  BY LenProperties, ElementOfSeq DEF TypeOK
<1>2. pops \in 1 .. Len(delete_indices)
  BY <1>1 DEF SweepInv
<1> QED
  BY <1>1, <1>2 DEF SweepInv, Apart, Victim

\* The initial state has the types.
LEMMA TypeInit == Init => TypeOK
BY EmptySeq DEF Init, TypeOK, Links

\* Every step keeps the types; a pop does because it is within the list.
LEMMA TypeStep == TypeOK /\ SweepInv /\ [Next]_vars => TypeOK'
<1> SUFFICES ASSUME TypeOK, SweepInv, [Next]_vars PROVE TypeOK'
  OBVIOUS
<1> USE DEF sweep_vars
<1>a. /\ Len(tunnels) \in Nat /\ DOMAIN tunnels = 1 .. Len(tunnels)
      /\ \A i \in 1 .. Len(tunnels) : tunnels[i] \in Conns
      /\ Len(delete_indices) \in Nat /\ DOMAIN delete_indices = 1 .. Len(delete_indices)
      /\ \A i \in 1 .. Len(delete_indices) : delete_indices[i] \in Nat
  BY LenProperties, ElementOfSeq DEF TypeOK
<1>1. ASSUME NEW b \in Boards, Dial(b) PROVE TypeOK'
  <2>1. PICK c \in Conns : link' = [link EXCEPT ![c] = "up"] /\ backlog' = Append(backlog, c)
    BY <1>1 DEF Dial
  <2>2. backlog' \in Seq(Conns)
    BY <2>1, AppendProperties DEF TypeOK
  <2>3. link' \in [Conns -> Links]
    BY <2>1 DEF TypeOK, Links
  <2> QED
    BY <1>1, <2>2, <2>3 DEF Dial, TypeOK
<1>2. CASE BoardCloses \/ BoardVanishes \/ BoardNotices
  <2>1. link' \in [Conns -> Links]
    BY <1>2 DEF BoardCloses, BoardVanishes, BoardNotices, LinkBreaks, TypeOK, Links
  <2> QED
    BY <1>2, <2>1 DEF BoardCloses, BoardVanishes, BoardNotices, LinkBreaks, TypeOK
<1>3. CASE Accept
  <2>1. Head(backlog) \in Conns /\ Tail(backlog) \in Seq(Conns)
    BY <1>3, HeadTailProperties DEF Accept, TypeOK
  <2>2. queue' \in Seq(Conns)
    BY <1>3, <2>1, AppendProperties DEF Accept, TypeOK
  <2> QED
    BY <1>3, <2>1, <2>2 DEF Accept, TypeOK
<1>4. CASE CheckClients
  BY <1>4 DEF CheckClients, TypeOK
<1>5. CASE Visit
  <2>1. delete_indices' \in Seq(Nat) /\ pops' = Len(delete_indices')
    BY <1>5, AppendProperties DEF Visit, Noted, TypeOK
  <2>2. pops' \in Nat
    BY <2>1, LenProperties
  <2> QED
    BY <1>5, <2>1, <2>2 DEF Visit, Noted, TypeOK
<1>6. CASE Pop
  <2>1. Victim < Len(tunnels) /\ Victim \in Nat
    BY <1>6, VictimInBounds DEF Pop
  <2>2. Popped(Victim)
    BY <1>6, <2>1 DEF Pop
  <2>3. tunnels' \in Seq(Conns)
    BY <2>1, <2>2, RemoveType DEF Popped, TypeOK
  <2>4. link' \in [Conns -> Links] /\ running' \subseteq Conns
    BY <2>2 DEF Popped, LinkAfter, TypeOK, Links
  <2>5. pops' \in Nat
    BY <1>6 DEF Pop, TypeOK
  <2> QED
    BY <1>6, <2>2, <2>3, <2>4, <2>5 DEF Pop, Popped, TypeOK
<1>7. CASE NextRound \/ ReadDone
  BY <1>7 DEF NextRound, ReadDone, TypeOK
<1>8. CASE Drain
  <2>1. tunnels' \in Seq(Conns)
    BY <1>8, ConcatProperties DEF Drain, Started, TypeOK
  <2>2. Range(queue) \subseteq Conns
    BY ElementOfSeq, LenProperties DEF Range, TypeOK
  <2> QED
    BY <1>8, <2>1, <2>2, EmptySeq DEF Drain, Started, TypeOK
<1>9. CASE Read \/ ReadEnds \/ ReadTimesOut
  BY <1>9 DEF Read, ReadEnds, ReadTimesOut, ReadNext, StopTunnel, TypeOK
<1>10. CASE WriteFails \/ Stop
  BY <1>10 DEF WriteFails, Stop, StopTunnel, TypeOK
<1>11. CASE UNCHANGED vars
  BY <1>11 DEF vars, TypeOK
<1> QED
  BY <1>1, <1>2, <1>3, <1>4, <1>5, <1>6, <1>7, <1>8, <1>9, <1>10, <1>11
  DEF Next, Update, Ended

-----------------------------------------------------------------------------
(* The sweep. *)

\* Every step keeps the positions noted apart and the index within the list.
LEMMA SweepStep == TypeOK /\ SweepInv /\ [Next]_vars => SweepInv'
<1> SUFFICES ASSUME TypeOK, SweepInv, [Next]_vars PROVE SweepInv'
  OBVIOUS
<1> USE DEF sweep_vars
<1>a. /\ Len(tunnels) \in Nat /\ Len(delete_indices) \in Nat /\ index \in Nat /\ pops \in Nat
      /\ \A i \in 1 .. Len(delete_indices) : delete_indices[i] \in Nat
  BY LenProperties, ElementOfSeq DEF TypeOK
<1>1. ASSUME UNCHANGED <<task, delete_indices, pops, index>>, Len(tunnels') = Len(tunnels)
      PROVE  SweepInv'
  BY <1>1 DEF SweepInv, Apart
<1>2. CASE CheckClients
  BY <1>2, <1>a DEF CheckClients, SweepInv, Apart
<1>3. CASE Visit
  <2>1. CASE tunnels[index + 1] \in running
    BY <1>3, <1>a, <2>1 DEF Visit, SweepInv, Apart
  <2>2. CASE tunnels[index + 1] \notin running
    <3> DEFINE old == delete_indices
               new == delete_indices'
    <3>1. new = Append(old, index) /\ Len(new) = Len(old) + 1
      BY <1>3, <1>a, <2>2, AppendProperties DEF Visit, Noted, TypeOK
    <3>2. \A i \in 1 .. Len(new) : new[i] = IF i <= Len(old) THEN old[i] ELSE index
      <4>1. delete_indices \in Seq(Nat) /\ index \in Nat
        BY DEF TypeOK
      <4>2. /\ \A i \in 1 .. Len(delete_indices) :
                 Append(delete_indices, index)[i] = delete_indices[i]
            /\ Append(delete_indices, index)[Len(delete_indices) + 1] = index
        BY <4>1, AppendProperties
      <4> QED
        BY <1>a, <3>1, <4>2
    <3>3. \A i \in 1 .. Len(new) : new[i] + (Len(new) - i) < index + 1
      <4> SUFFICES ASSUME NEW i \in 1 .. Len(new) PROVE new[i] + (Len(new) - i) < index + 1
        OBVIOUS
      <4>1. CASE i <= Len(old)
        BY <1>3, <1>a, <3>1, <3>2, <4>1 DEF Visit, SweepInv, Apart
      <4>2. CASE i = Len(old) + 1
        BY <1>a, <3>1, <3>2, <4>2
      <4> QED
        BY <1>a, <3>1, <4>1, <4>2
    <3> QED
      BY <1>3, <1>a, <3>1, <3>3 DEF Visit, SweepInv, Apart
  <2> QED
    BY <2>1, <2>2
<1>4. CASE Pop
  <2>1. Victim < Len(tunnels) /\ Victim \in Nat
    BY <1>4, VictimInBounds DEF Pop
  <2>2. Len(tunnels') = Len(tunnels) - 1
    BY <1>4, <2>1, RemoveType DEF Pop, Popped, TypeOK
  <2> QED
    BY <1>4, <1>a, <2>2 DEF Pop, SweepInv, Apart
<1>5. CASE NextRound
  BY <1>5, <1>a DEF NextRound, SweepInv, Apart
<1>6. CASE Drain
  <2>1. Len(delete_indices') = 0 /\ task' = "read" /\ pops' = 0
    BY <1>6, EmptySeq DEF Drain, SweepInv
  <2> QED
    BY <2>1 DEF SweepInv
<1>7. CASE ReadDone
  BY <1>7 DEF ReadDone, SweepInv
<1>8. CASE Read \/ ReadEnds \/ ReadTimesOut
  BY <1>8 DEF Read, ReadEnds, ReadTimesOut, ReadNext, Reading, SweepInv
<1>9. CASE WriteFails \/ Stop \/ Accept \/ UNCHANGED vars
  BY <1>1, <1>9 DEF WriteFails, Stop, Accept, vars
<1>10. CASE BoardCloses \/ BoardVanishes \/ BoardNotices
  BY <1>1, <1>10 DEF BoardCloses, BoardVanishes, BoardNotices, LinkBreaks
<1>11. ASSUME NEW b \in Boards, Dial(b) PROVE SweepInv'
  BY <1>1, <1>11 DEF Dial
<1> QED
  BY <1>2, <1>3, <1>4, <1>5, <1>6, <1>7, <1>8, <1>9, <1>10, <1>11 DEF Next, Update, Ended

\* A pop within the list raises nothing.
LEMMA NeverRaisesStep == TypeOK /\ SweepInv /\ NeverRaises /\ [Next]_vars => NeverRaises'
<1> SUFFICES ASSUME TypeOK, SweepInv, NeverRaises, [Next]_vars PROVE NeverRaises'
  OBVIOUS
<1>1. CASE Pop
  <2>1. Popped(Victim)
    BY <1>1, VictimInBounds DEF Pop
  <2> QED
    BY <2>1 DEF Popped, NeverRaises
<1> QED
  BY <1>1 DEF Next, Update, Dial, BoardCloses, BoardVanishes, BoardNotices, LinkBreaks, Accept,
    CheckClients, Visit, NextRound, Drain, Read, ReadEnds, ReadTimesOut, ReadNext, ReadDone,
    WriteFails, Stop, Ended, vars, NeverRaises

\* The three lists are empty at first and the task is not in a sweep.
LEMMA FactoryInit == Init => TypeOK /\ SweepInv /\ NeverRaises
BY TypeInit, EmptySeq DEF Init, SweepInv, Apart, NeverRaises

\* Every variable of TunnelFactory keeps its type.
THEOREM TypeCorrect == Spec => []TypeOK
BY FactoryInit, TypeStep, SweepStep, PTL DEF Spec

\* However many tunnels stop at the same time, the deletion loop nested in the enumeration
\* never pops an index beyond the end: _check_clients never ends the session.
THEOREM SweepCorrect == Spec => []NeverRaises
BY FactoryInit, TypeStep, SweepStep, NeverRaisesStep, PTL DEF Spec

-----------------------------------------------------------------------------
(* Connections. *)

\* The parts of Conserved, list by list.
OncePerList == IsInjective(backlog) /\ IsInjective(queue) /\ IsInjective(tunnels)
InOneList ==
  /\ Range(backlog) \cap Range(queue) = {} /\ Range(backlog) \cap Range(tunnels) = {}
  /\ Range(queue) \cap Range(tunnels) = {}
HeldIsOpen == \A c \in Conns : link[c] \in {"up", "closed", "gone"} <=> c \in Held
OnlyTunnelsRun == running \subseteq Range(tunnels)

ConservedInv == OncePerList /\ InOneList /\ HeldIsOpen /\ OnlyTunnelsRun

\* Conserved says the same of the three lists joined as ConservedInv list by list.
LEMMA ConservedParts ==
  ASSUME TypeOK
  PROVE  Conserved <=> ConservedInv
<1> DEFINE front == backlog \o queue
<1>1. /\ backlog \in Seq(Conns) /\ queue \in Seq(Conns) /\ tunnels \in Seq(Conns)
      /\ front \in Seq(Conns)
  BY ConcatProperties DEF TypeOK
<1>2. /\ Range(front) = Range(backlog) \cup Range(queue)
      /\ IsInjective(front) <=> /\ IsInjective(backlog) /\ IsInjective(queue)
                                /\ Range(backlog) \cap Range(queue) = {}
  BY <1>1, ConcatRange
<1> HIDE DEF front
<1>3. IsInjective(front \o tunnels) <=> /\ IsInjective(front) /\ IsInjective(tunnels)
                                        /\ Range(front) \cap Range(tunnels) = {}
  BY <1>1, ConcatRange
<1>4. IsInjective(front \o tunnels) <=> OncePerList /\ InOneList
  BY <1>2, <1>3 DEF OncePerList, InOneList
<1> QED
  BY <1>4 DEF Conserved, ConservedInv, HeldIsOpen, OnlyTunnelsRun, front

\* At first there is no connection.
LEMMA ConservedInit == Init => ConservedInv
<1> SUFFICES ASSUME Init PROVE ConservedInv
  OBVIOUS
<1>1. Range(<< >>) = {} /\ IsInjective(<< >>)
  BY DEF Range, IsInjective
<1> QED
  BY <1>1 DEF Init, ConservedInv, OncePerList, InOneList, HeldIsOpen, Held, OnlyTunnelsRun

\* Every step takes a connection from one list to the next, or out of the lists as it ends.
LEMMA ConservedStep == TypeOK /\ SweepInv /\ ConservedInv /\ [Next]_vars => ConservedInv'
<1> SUFFICES ASSUME TypeOK, SweepInv, ConservedInv, [Next]_vars PROVE ConservedInv'
  OBVIOUS
<1> USE DEF sweep_vars
<1>a. /\ backlog \in Seq(Conns) /\ queue \in Seq(Conns) /\ tunnels \in Seq(Conns)
      /\ link \in [Conns -> Links]
      /\ OncePerList /\ InOneList /\ HeldIsOpen /\ OnlyTunnelsRun
  BY DEF TypeOK, ConservedInv
<1>r. Range(backlog) \subseteq Conns /\ Range(queue) \subseteq Conns /\ Range(tunnels) \subseteq Conns
  BY <1>a, RangeFacts
\* Steps that move no connection: tunnels may only stop.
<1>b. ASSUME UNCHANGED <<backlog, queue, tunnels, link>>, running' \subseteq running
      PROVE  ConservedInv'
  BY <1>a, <1>b DEF ConservedInv, OncePerList, InOneList, HeldIsOpen, Held, OnlyTunnelsRun
<1>1. ASSUME NEW b \in Boards, Dial(b) PROVE ConservedInv'
  <2>1. PICK c \in Conns : /\ link[c] = "none" /\ link' = [link EXCEPT ![c] = "up"]
                           /\ backlog' = Append(backlog, c)
    BY <1>1 DEF Dial
  <2>2. c \notin Held
    BY <1>a, <2>1 DEF HeldIsOpen
  <2>3. Range(backlog') = Range(backlog) \cup {c} /\ IsInjective(backlog')
    BY <1>a, <2>1, <2>2, AppendRange DEF Held, OncePerList
  <2>4. UNCHANGED <<queue, tunnels, running>>
    BY <1>1 DEF Dial
  <2>5. OncePerList' /\ InOneList' /\ OnlyTunnelsRun'
    BY <1>a, <2>2, <2>3, <2>4 DEF OncePerList, InOneList, OnlyTunnelsRun, Held
  <2>6. Held' = Held \cup {c}
    BY <2>3, <2>4 DEF Held
  <2>7. HeldIsOpen'
    BY <1>a, <2>1, <2>6 DEF HeldIsOpen
  <2> QED
    BY <2>5, <2>7 DEF ConservedInv
<1>2. CASE BoardCloses \/ BoardVanishes \/ BoardNotices
  <2>1. PICK c \in Conns, from \in Links, to \in Links :
          /\ link[c] = from /\ link' = [link EXCEPT ![c] = to]
          /\ from \in {"up", "closed", "gone"} <=> to \in {"up", "closed", "gone"}
    BY <1>2 DEF BoardCloses, BoardVanishes, BoardNotices, LinkBreaks, Links
  <2>2. UNCHANGED <<backlog, queue, tunnels, running, Held>>
    BY <1>2 DEF BoardCloses, BoardVanishes, BoardNotices, LinkBreaks, Held
  <2>3. HeldIsOpen'
    BY <1>a, <2>1, <2>2 DEF HeldIsOpen
  <2> QED
    BY <1>a, <2>2, <2>3 DEF ConservedInv, OncePerList, InOneList, OnlyTunnelsRun
<1>3. CASE Accept
  <2> DEFINE c == Head(backlog)
  <2>1. /\ backlog # << >> /\ backlog' = Tail(backlog) /\ queue' = Append(queue, c)
        /\ UNCHANGED <<tunnels, running, link>>
    BY <1>3 DEF Accept
  <2>2. c \in Range(backlog) /\ IsInjective(backlog') /\ Range(backlog') = Range(backlog) \ {c}
    BY <1>a, <2>1, TailRange DEF OncePerList
  <2>3. c \in Conns /\ c \notin Range(queue) /\ c \notin Range(tunnels)
    BY <1>a, <1>r, <2>2 DEF InOneList
  <2> HIDE DEF c
  <2>4. IsInjective(queue') /\ Range(queue') = Range(queue) \cup {c}
    BY <1>a, <2>1, <2>3, AppendRange DEF OncePerList
  <2>5. OncePerList' /\ InOneList' /\ OnlyTunnelsRun'
    BY <1>a, <2>1, <2>2, <2>3, <2>4 DEF OncePerList, InOneList, OnlyTunnelsRun
  <2>6. Held' = Held
    BY <2>1, <2>2, <2>4 DEF Held
  <2>7. HeldIsOpen'
    BY <1>a, <2>1, <2>6 DEF HeldIsOpen
  <2> QED
    BY <2>5, <2>7 DEF ConservedInv
<1>4. CASE Pop
  <2> DEFINE k == Victim + 1
             c == tunnels[k]
  <2>1. Victim < Len(tunnels) /\ Victim \in Nat
    BY <1>4, VictimInBounds DEF Pop
  <2>2. /\ tunnels' = Remove(Victim) /\ running' = running \ {c}
        /\ link' = [link EXCEPT ![c] = LinkAfter(c)]
        /\ UNCHANGED <<backlog, queue>>
    BY <1>4, <2>1 DEF Pop, Popped
  <2>3. k \in 1 .. Len(tunnels) /\ Remove(Victim) = Without(tunnels, k)
    <3>1. /\ Victim + 1 \in 1 .. Len(tunnels)
          /\ (Victim + 1) - 1 = Victim /\ (Victim + 1) + 1 = Victim + 2
      BY <1>a, <2>1, LenProperties
    <3> QED
      BY <3>1 DEF Remove, Without
  <2>4. IsInjective(tunnels') /\ Range(tunnels') = Range(tunnels) \ {c}
    BY <1>a, <2>2, <2>3, WithoutRange DEF OncePerList
  <2>5. c \in Range(tunnels) /\ c \in Conns
    BY <1>a, <1>r, <2>3, RangeFacts
  <2>6. LinkAfter(c) \in {"dropped", "none"}
    BY DEF LinkAfter
  <2> HIDE DEF k, c
  <2>7. OncePerList' /\ InOneList' /\ OnlyTunnelsRun'
    BY <1>a, <2>2, <2>4 DEF OncePerList, InOneList, OnlyTunnelsRun
  <2>8. Held' = Held \ {c}
    BY <1>a, <2>2, <2>4, <2>5 DEF Held, InOneList
  <2>9. HeldIsOpen'
    BY <1>a, <2>2, <2>5, <2>6, <2>8 DEF HeldIsOpen
  <2> QED
    BY <2>7, <2>9 DEF ConservedInv
<1>5. CASE Drain
  <2>1. /\ tunnels' = tunnels \o queue /\ queue' = << >>
        /\ running' = running \cup Range(queue)
        /\ UNCHANGED <<backlog, link>>
    BY <1>5 DEF Drain, Started
  <2>2. Range(<< >>) = {} /\ IsInjective(<< >>)
    BY DEF Range, IsInjective
  <2>3. Range(tunnels') = Range(tunnels) \cup Range(queue) /\ IsInjective(tunnels')
    BY <1>a, <2>1, ConcatRange DEF OncePerList, InOneList
  <2>4. OncePerList' /\ InOneList' /\ OnlyTunnelsRun'
    BY <1>a, <2>1, <2>2, <2>3 DEF OncePerList, InOneList, OnlyTunnelsRun
  <2>5. Held' = Held
    BY <2>1, <2>2, <2>3 DEF Held
  <2>6. HeldIsOpen'
    BY <1>a, <2>1, <2>5 DEF HeldIsOpen
  <2> QED
    BY <2>4, <2>6 DEF ConservedInv
<1>6. CASE CheckClients \/ Visit \/ NextRound \/ ReadDone
  BY <1>b, <1>6 DEF CheckClients, Visit, NextRound, ReadDone
<1>7. CASE Read \/ ReadEnds \/ ReadTimesOut \/ WriteFails \/ Stop \/ UNCHANGED vars
  BY <1>b, <1>7 DEF Read, ReadEnds, ReadTimesOut, ReadNext, StopTunnel, WriteFails, Stop, vars
<1> QED
  BY <1>1, <1>2, <1>3, <1>4, <1>5, <1>6, <1>7 DEF Next, Update, Ended

\* On its way from the kernel's backlog through the queue to the list of tunnels no
\* connection is lost or doubled; the host holds exactly those open at its end, and only
\* tunnels run.
THEOREM ConnectionsConserved == Spec => []Conserved
<1>1. TypeOK /\ ConservedInv => Conserved
  BY ConservedParts
<1> QED
  BY <1>1, FactoryInit, ConservedInit, TypeStep, SweepStep, ConservedStep, PTL DEF Spec
=============================================================================
