--------------------------- MODULE NoVacancyProofs ---------------------------
(***************************************************************************)
(* Proofs about NoVacancy, for any boards, groups, readings and numbers of *)
(* tunnels: its type invariant, that displays agree with the states        *)
(* recorded for them, and that a pass records what the working tunnels     *)
(* say.                                                                    *)
(***************************************************************************)
EXTENDS NoVacancy, ListProofs

-----------------------------------------------------------------------------
(* Lemmas about tunnels and commands. *)

\* The list of tunnels as a function.
LEMMA TunnelFacts ==
  ASSUME tunnels \in Seq(Links)
  PROVE  /\ Len(tunnels) \in Nat /\ DOMAIN tunnels = 1 .. Len(tunnels)
         /\ tunnels \in [1 .. Len(tunnels) -> Links]
         /\ \A i \in DOMAIN tunnels :
              tunnels[i] \in Links /\ tunnels[i].up \in BOOLEAN /\ tunnels[i].tunnel \in Tunnels
<1>1. /\ Len(tunnels) \in Nat /\ DOMAIN tunnels = 1 .. Len(tunnels)
      /\ tunnels \in [1 .. Len(tunnels) -> Links]
  BY LenProperties
<1>2. \A l \in Links : l.up \in BOOLEAN /\ l.tunnel \in Tunnels
  BY DEF Links
<1> QED
  BY <1>1, <1>2

\* Handlers, and the passing of time, keep a tunnel a tunnel of the same board.
LEMMA HandlerFacts ==
  ASSUME NEW t \in Tunnels
  PROVE  /\ Heart(t) \in Tunnels /\ Heart(t).board = t.board
         /\ \A w \in Weights : Weight(t, w) \in Tunnels /\ Weight(t, w).board = t.board
         /\ [t EXCEPT !.heart = "stale"] \in Tunnels
         /\ [t EXCEPT !.heart = "stale"].board = t.board
BY DEF Tunnels, Heart, Weight

\* A new tunnel has its type, and is not polled.
LEMMA NewTunnelFacts ==
  ASSUME NEW b \in Boards
  PROVE  NewTunnel(b) \in Tunnels /\ ~ Polled(NewTunnel(b)) /\ NewTunnel(b).board = b
BY ReadingsAssumption DEF NewTunnel, Tunnels, Polled, IsStale

\* Without doors, what is polled is a booth's.
LEMMA PolledIsBooth ==
  ASSUME NEW t \in Tunnels, Polled(t)
  PROVE  t.board \in Booths /\ t.board \in Boards
BY SystemAssumption DEF Polled, IsOccupancyDevice, Boards

\* Kinds of displays are apart.
LEMMA BoardFacts ==
  /\ Booths \subseteq Boards /\ Signs \subseteq Boards /\ Boards = Booths \cup Signs
  /\ Booths \cap Signs = {}
BY BoardsAssumption, SystemAssumption DEF Boards

\* A group has a sign of its own and booths of its own.
LEMMA GroupFacts ==
  /\ \A g \in Groups : g.bigsign \in Signs /\ g.devices \subseteq Booths
  /\ \A g, h \in Groups : g.bigsign = h.bigsign => g = h
  /\ \A g, h \in Groups : \A b : b \in g.devices /\ b \in h.devices => g = h
BY SystemAssumption

\* Whatever is recorded, a sign shows one of two things.
LEMMA SignTypes ==
  ASSUME TypeOK, NEW g \in Groups, NEW states
  PROVE  SignAfter(g, states) \in States
<1>1. g.bigsign \in Boards
  BY GroupFacts, BoardFacts
<1> QED
  BY <1>1 DEF TypeOK, SignAfter, SignBefore, States, Cell

\* No two commands are for the same display.
OneEach(commands) == \A c, d \in commands : c.board = d.board => c = d

\* Every board that is sent a command shows it or is known to have missed it; the other
\* boards go on showing what they did.
LEMMA Told ==
  ASSUME NEW commands, NEW deaf, Tell(commands, deaf), OneEach(commands),
         \A c \in commands : c.board \in Boards
  PROVE  /\ \A c \in commands : c.board \in amiss' \/ shown'[c.board] = c.show
         /\ \A b \in Boards : (\A c \in commands : c.board # b) =>
              shown'[b] = shown[b] /\ (b \in amiss => b \in amiss')
<1> DEFINE heard == {c \in commands : Arrives(c)} \ deaf
           To(cs) == {c.board : c \in cs}
<1>1. heard \subseteq commands
  OBVIOUS
<1>2. /\ shown' = [b \in Boards |-> IF \E c \in heard : c.board = b
                                    THEN (CHOOSE c \in heard : c.board = b).show ELSE shown[b]]
      /\ amiss' = (amiss \ To(heard)) \cup To(commands \ heard)
  BY DEF Tell
<1> HIDE DEF heard
<1>3. ASSUME NEW c \in commands PROVE c.board \in amiss' \/ shown'[c.board] = c.show
  <2>1. CASE c \in heard
    <3>1. (CHOOSE d \in heard : d.board = c.board) \in heard
          /\ (CHOOSE d \in heard : d.board = c.board).board = c.board
      BY <2>1
    <3>2. (CHOOSE d \in heard : d.board = c.board) = c
      BY <1>1, <3>1 DEF OneEach
    <3> QED
      BY <1>2, <2>1, <3>2
  <2>2. CASE c \notin heard
    BY <1>2, <2>2
  <2> QED
    BY <2>1, <2>2
<1>4. ASSUME NEW b \in Boards, \A c \in commands : c.board # b
      PROVE  shown'[b] = shown[b] /\ (b \in amiss => b \in amiss')
  BY <1>1, <1>2, <1>4
<1> QED
  BY <1>3, <1>4

\* What is shown, and who missed something, keep their types.
LEMMA ToldTypes ==
  ASSUME NEW commands, NEW deaf, Tell(commands, deaf), TypeOK,
         \A c \in commands : c.board \in Boards /\ c.show \in States
  PROVE  shown' \in [Boards -> States \cup {"idle"}] /\ amiss' \subseteq Boards
<1> DEFINE heard == {c \in commands : Arrives(c)} \ deaf
           To(cs) == {c.board : c \in cs}
<1>1. heard \subseteq commands
  OBVIOUS
<1>2. /\ shown' = [b \in Boards |-> IF \E c \in heard : c.board = b
                                    THEN (CHOOSE c \in heard : c.board = b).show ELSE shown[b]]
      /\ amiss' = (amiss \ To(heard)) \cup To(commands \ heard)
  BY DEF Tell
<1> HIDE DEF heard
<1>3. \A b \in Boards : (\E c \in heard : c.board = b) =>
        (CHOOSE c \in heard : c.board = b).show \in States
  BY <1>1
<1>4. shown \in [Boards -> States \cup {"idle"}] /\ amiss \subseteq Boards
  BY DEF TypeOK
<1> QED
  BY <1>1, <1>2, <1>3, <1>4

-----------------------------------------------------------------------------
(* What a step does to the list of tunnels. *)

\* Nobody comes or goes, no link is mended, and during a pass no reading changes.
InPlace ==
  /\ tunnels' \in Seq(Links) /\ Len(tunnels') = Len(tunnels)
  /\ \A i \in DOMAIN tunnels :
       /\ tunnels'[i].tunnel.board = tunnels[i].tunnel.board
       /\ tunnels'[i].up => tunnels[i].up
       /\ cursor # 0 /\ Polled(tunnels'[i].tunnel) => tunnels'[i].tunnel = tunnels[i].tunnel

Shorter == cursor = 0 /\ cursor' = 0 /\ \E i \in DOMAIN tunnels : tunnels' = RemoveAt(tunnels, i)

Longer ==
  /\ cursor = 0 /\ cursor' = 0
  /\ \E b \in Boards :
       /\ Live(b) = {} /\ Len(tunnels) < MaxTunnels
       /\ tunnels' = Append(tunnels, [up |-> TRUE, tunnel |-> NewTunnel(b)])

Emptied == cursor' = 0 /\ tunnels' = << >>

\* The tunnel at one place changes.
LEMMA OneChanges ==
  ASSUME tunnels \in Seq(Links), NEW i \in DOMAIN tunnels, NEW t \in Tunnels,
         t.board = tunnels[i].tunnel.board,
         cursor # 0 /\ Polled(t) => t = tunnels[i].tunnel,
         tunnels' = [tunnels EXCEPT ![i].tunnel = t]
  PROVE  InPlace
<1>1. /\ Len(tunnels) \in Nat /\ DOMAIN tunnels = 1 .. Len(tunnels)
      /\ tunnels \in [1 .. Len(tunnels) -> Links]
  BY TunnelFacts
<1>2. [tunnels[i] EXCEPT !.tunnel = t] \in Links
  BY <1>1 DEF Links
<1>3. tunnels' \in [1 .. Len(tunnels) -> Links]
  BY <1>1, <1>2
<1>4. \A j \in DOMAIN tunnels :
        IF j = i THEN tunnels'[j].tunnel = t /\ tunnels'[j].up = tunnels[j].up
        ELSE tunnels'[j] = tunnels[j]
  BY <1>1 DEF Links
<1> QED
  BY <1>1, <1>3, <1>4, FunctionIsSeq DEF InPlace

\* The links of some tunnels end.
LEMMA LinksEnd ==
  ASSUME tunnels \in Seq(Links), NEW b, Cut(b)
  PROVE  InPlace
<1>1. /\ Len(tunnels) \in Nat /\ DOMAIN tunnels = 1 .. Len(tunnels)
      /\ tunnels \in [1 .. Len(tunnels) -> Links]
  BY TunnelFacts
<1>2. tunnels' = [i \in DOMAIN tunnels |-> [tunnels[i] EXCEPT !.up = @ /\ i \notin Live(b)]]
  BY DEF Cut
<1>3. \A i \in DOMAIN tunnels :
        /\ [tunnels[i] EXCEPT !.up = @ /\ i \notin Live(b)] \in Links
        /\ [tunnels[i] EXCEPT !.up = @ /\ i \notin Live(b)].tunnel = tunnels[i].tunnel
        /\ [tunnels[i] EXCEPT !.up = @ /\ i \notin Live(b)].up => tunnels[i].up
  BY <1>1 DEF Links
<1>4. tunnels' \in [1 .. Len(tunnels) -> Links]
  BY <1>1, <1>2, <1>3
<1> QED
  BY <1>1, <1>2, <1>3, <1>4, FunctionIsSeq DEF InPlace

\* Every step is of one of these kinds.
LEMMA ListStep ==
  ASSUME TypeOK, [Next]_vars
  PROVE  InPlace \/ Shorter \/ Longer \/ Emptied
<1>1. /\ tunnels \in Seq(Links)
      /\ \A i \in DOMAIN tunnels : tunnels[i].tunnel \in Tunnels
  BY TunnelFacts DEF TypeOK
<1>2. ASSUME UNCHANGED tunnels PROVE InPlace
  BY <1>1, <1>2 DEF InPlace
<1>3. CASE Pass
  BY <1>2, <1>3 DEF Pass, Begin, PassOver, Poll, End
<1>4. CASE Session
  BY <1>2, <1>4 DEF Session, AskExit, RunEnds, HostFails, EndHost, Restart, Emptied
<1>5. CASE Reap \/ DropLive
  <2>1. Dead \subseteq DOMAIN tunnels
    BY DEF Dead
  <2> QED
    BY <1>5, <2>1 DEF Reap, DropLive, EventLoop, Shorter
<1>6. CASE Weigh
  BY <1>2, <1>6 DEF Weigh
<1>7. ASSUME NEW up \in BOOLEAN, GoStale(up) PROVE InPlace
  <2>1. PICK i \in DOMAIN tunnels : tunnels' = [tunnels EXCEPT ![i].tunnel.heart = "stale"]
    BY <1>7 DEF GoStale
  <2> DEFINE t == [tunnels[i].tunnel EXCEPT !.heart = "stale"]
  <2>2. t \in Tunnels /\ t.board = tunnels[i].tunnel.board
    BY <1>1, HandlerFacts
  <2>3. ~ Polled(t)
    BY <1>1 DEF Polled, IsStale, Tunnels
  <2>4. tunnels' = [tunnels EXCEPT ![i].tunnel = t]
    BY <2>1
  <2> HIDE DEF t
  <2> QED
    BY <1>1, <2>2, <2>3, <2>4, OneChanges
<1>8. ASSUME NEW b \in Boards, Connect(b) PROVE Longer
  BY <1>8 DEF Connect, EventLoop, Joined, Longer
<1>9. ASSUME NEW b \in Boards, Heartbeat(b) PROVE InPlace
  <2>1. PICK i \in DOMAIN tunnels :
          tunnels' = [tunnels EXCEPT ![i].tunnel = Heart(tunnels[i].tunnel)]
    BY <1>9 DEF Heartbeat, Live
  <2>2. cursor = 0
    BY <1>9 DEF Heartbeat, EventLoop
  <2> QED
    BY <1>1, <2>1, <2>2, HandlerFacts, OneChanges
<1>10. ASSUME NEW b \in Boards, Report(b) PROVE InPlace
  <2>1. PICK i \in DOMAIN tunnels :
          tunnels' = [tunnels EXCEPT ![i].tunnel = Weight(tunnels[i].tunnel, load[b])]
    BY <1>10 DEF Report, Live
  <2>2. cursor = 0 /\ load[b] \in Weights
    BY <1>10 DEF Report, EventLoop, TypeOK
  <2> QED
    BY <1>1, <2>1, <2>2, HandlerFacts, OneChanges
<1>11. ASSUME NEW b \in Boards, Faults(b) PROVE InPlace
  BY <1>1, <1>2, <1>11, LinksEnd DEF Faults, LinkEnds, GoIdle, Reboot
<1>12. CASE UNCHANGED vars
  BY <1>2, <1>12 DEF vars
<1> QED
  BY <1>3, <1>4, <1>5, <1>6, <1>7, <1>8, <1>9, <1>10, <1>11, <1>12 DEF Next, Served

\* The list keeps its type.
LEMMA ListType ==
  ASSUME TypeOK, [Next]_vars
  PROVE  tunnels' \in Seq(Links) /\ Len(tunnels') <= MaxTunnels
<1>1. tunnels \in Seq(Links) /\ Len(tunnels) \in Nat /\ DOMAIN tunnels = 1 .. Len(tunnels)
      /\ Len(tunnels) <= MaxTunnels
  BY TunnelFacts DEF TypeOK
<1>2. CASE InPlace
  BY <1>1, <1>2 DEF InPlace
<1>3. CASE Shorter
  <2>1. PICK i \in 1 .. Len(tunnels) : tunnels' = RemoveAt(tunnels, i)
    BY <1>1, <1>3 DEF Shorter
  <2>2. tunnels' \in Seq(Links) /\ Len(tunnels') = Len(tunnels) - 1
    BY <1>1, <2>1, WithoutFacts DEF RemoveAt, Without
  <2> QED
    BY <1>1, <2>2, SystemAssumption
<1>4. CASE Longer
  <2>1. PICK b \in Boards : tunnels' = Append(tunnels, [up |-> TRUE, tunnel |-> NewTunnel(b)])
    BY <1>4 DEF Longer
  <2>2. [up |-> TRUE, tunnel |-> NewTunnel(b)] \in Links
    BY NewTunnelFacts DEF Links
  <2>3. tunnels' \in Seq(Links) /\ Len(tunnels') = Len(tunnels) + 1
    BY <1>1, <2>1, <2>2, AppendProperties
  <2>4. Len(tunnels) < MaxTunnels
    BY <1>4 DEF Longer
  <2> QED
    BY <1>1, <2>3, <2>4, SystemAssumption
<1>5. CASE Emptied
  BY <1>5, EmptySeq, SystemAssumption DEF Emptied
<1> QED
  BY <1>2, <1>3, <1>4, <1>5, ListStep

-----------------------------------------------------------------------------
(* What polling one tunnel does. *)

\* The parts of Poll, for the board at the cursor and its group.
PolledBoard == tunnel.board
PolledState == Cell(Occupied(tunnel, DefaultSetting))
PolledGroups == {g \in Groups : PolledBoard \in g.devices}
PolledAll == StatesAfter(PolledBoard, PolledState)
PollCommands == LedCommand(PolledBoard, PolledState) \cup SignCommands(PolledGroups, PolledAll)

\* A poll records the state read, computes the board's group, and sends at most one command
\* to each display.
LEMMA PollFacts ==
  ASSUME TypeOK, NEW losing \in BOOLEAN, Poll(losing)
  PROVE  /\ PolledBoard \in Booths /\ PolledState \in States
         /\ occupancy_states' = [occupancy_states EXCEPT ![PolledBoard] = PolledState]
         /\ bigsign_states' \in [Boards -> States \cup {"unknown"}]
         /\ \A g \in PolledGroups : bigsign_states'[g.bigsign] = SignAfter(g, PolledAll)
         /\ \A b \in Boards : (\A g \in PolledGroups : g.bigsign # b) =>
              bigsign_states'[b] = bigsign_states[b]
         /\ \E deaf : Tell(PollCommands, deaf)
         /\ OneEach(PollCommands)
         /\ \A c \in PollCommands : c.board \in Boards /\ c.show \in States
<1>1. At(cursor) /\ Polled(tunnel)
  BY DEF Poll
<1>2. tunnel \in Tunnels
  BY <1>1, TunnelFacts DEF At, tunnel, TypeOK
<1>3. PolledBoard \in Booths
  BY <1>1, <1>2, PolledIsBooth DEF PolledBoard
<1>4. PolledState \in States
  BY DEF PolledState, Cell, States
<1>5. /\ occupancy_states' = PolledAll
      /\ \E deaf : Tell(PollCommands, deaf)
      /\ bigsign_states' = [s \in Boards |->
           IF \E g \in PolledGroups : g.bigsign = s
           THEN SignAfter(CHOOSE g \in PolledGroups : g.bigsign = s, PolledAll)
           ELSE bigsign_states[s]]
  BY DEF Poll, PolledBoard, PolledState, PolledGroups, PolledAll, PollCommands
<1> HIDE DEF PolledAll
<1>6. PolledGroups \subseteq Groups
  BY DEF PolledGroups
<1>7. \A g \in PolledGroups : (CHOOSE h \in PolledGroups : h.bigsign = g.bigsign) = g
  BY <1>6, GroupFacts
<1>8. \A g \in PolledGroups : g.bigsign \in Boards /\ SignAfter(g, PolledAll) \in States
  BY <1>6, GroupFacts, BoardFacts, SignTypes
<1>9. bigsign_states' \in [Boards -> States \cup {"unknown"}]
  <2>1. \A s \in Boards : (\E g \in PolledGroups : g.bigsign = s) =>
          SignAfter(CHOOSE g \in PolledGroups : g.bigsign = s, PolledAll) \in States
    BY <1>8
  <2>2. bigsign_states \in [Boards -> States \cup {"unknown"}]
    BY DEF TypeOK
  <2> QED
    BY <1>5, <2>1, <2>2
<1>10. \A g \in PolledGroups : bigsign_states'[g.bigsign] = SignAfter(g, PolledAll)
  BY <1>5, <1>7, <1>8
<1>11. \A b \in Boards : (\A g \in PolledGroups : g.bigsign # b) =>
         bigsign_states'[b] = bigsign_states[b]
  BY <1>5
<1>12. /\ \A c \in LedCommand(PolledBoard, PolledState) :
            c.board = PolledBoard /\ c.show = PolledState
       /\ \A c \in SignCommands(PolledGroups, PolledAll) : \E g \in PolledGroups :
            c = [board |-> g.bigsign, show |-> SignAfter(g, PolledAll)]
       /\ \A c, d \in LedCommand(PolledBoard, PolledState) : c = d
  BY DEF LedCommand, SignCommands
<1>13. ASSUME NEW c \in PollCommands PROVE c.board \in Boards /\ c.show \in States
  BY <1>3, <1>4, <1>8, <1>12, BoardFacts DEF PollCommands
<1>14. ASSUME NEW c \in PollCommands, NEW d \in PollCommands, c.board = d.board PROVE c = d
  <2>1. CASE c \in LedCommand(PolledBoard, PolledState)
    BY <1>3, <1>6, <1>12, <1>14, <2>1, GroupFacts, BoardFacts DEF PollCommands
  <2>2. CASE d \in LedCommand(PolledBoard, PolledState)
    BY <1>3, <1>6, <1>12, <1>14, <2>2, GroupFacts, BoardFacts DEF PollCommands
  <2>3. CASE /\ c \in SignCommands(PolledGroups, PolledAll)
             /\ d \in SignCommands(PolledGroups, PolledAll)
    <3>1. PICK g \in PolledGroups : c = [board |-> g.bigsign, show |-> SignAfter(g, PolledAll)]
      BY <1>12, <2>3
    <3>2. PICK h \in PolledGroups : d = [board |-> h.bigsign, show |-> SignAfter(h, PolledAll)]
      BY <1>12, <2>3
    <3>3. g = h
      BY <1>6, <1>14, <3>1, <3>2, GroupFacts
    <3> QED
      BY <3>1, <3>2, <3>3
  <2> QED
    BY <2>1, <2>2, <2>3 DEF PollCommands
<1> QED
  BY <1>3, <1>4, <1>5, <1>9, <1>10, <1>11, <1>13, <1>14 DEF OneEach, PolledAll, StatesAfter

-----------------------------------------------------------------------------
(* Types, and the pass within the list. *)

WithinPass == cursor <= Len(tunnels) + 1

\* The initial state has the types.
LEMMA TypeInit == Init => TypeOK /\ WithinPass
<1> SUFFICES ASSUME Init PROVE TypeOK /\ WithinPass
  OBVIOUS
<1>1. tunnels \in Seq(Links) /\ Len(tunnels) = 0
  BY EmptySeq DEF Init
<1>2. Nothing \in [Boards -> States \cup {"unknown"}]
  BY DEF Nothing
<1>3. shown \in [Boards -> States \cup {"idle"}]
  BY DEF Init, Initially, States
<1> QED
  BY <1>1, <1>2, <1>3, SystemAssumption DEF Init, TypeOK, WithinPass

\* The pass goes from tunnel to tunnel; where the list may grow or shrink it is at rest.
LEMMA CursorStep ==
  ASSUME TypeOK, WithinPass, [Next]_vars
  PROVE  WithinPass' /\ cursor' \in 0 .. MaxTunnels + 1
<1>1. /\ Len(tunnels) \in Nat /\ DOMAIN tunnels = 1 .. Len(tunnels)
      /\ cursor \in Nat
  BY TunnelFacts DEF TypeOK
<1>2. Len(tunnels') \in Nat /\ Len(tunnels') <= MaxTunnels
  BY ListType, LenProperties
<1>3. CASE cursor' = 0
  BY <1>2, <1>3, SystemAssumption DEF WithinPass
<1>4. CASE cursor' = cursor
  BY <1>1, <1>2, <1>3, <1>4, ListStep, SystemAssumption
  DEF InPlace, Shorter, Longer, Emptied, WithinPass
<1>5. CASE Begin \/ PassOver \/ \E losing \in BOOLEAN : Poll(losing)
  <2>1. UNCHANGED tunnels /\ cursor' \in 1 .. Len(tunnels) + 1
    BY <1>1, <1>5 DEF Begin, PassOver, Poll, At, NextTunnel
  <2> QED
    BY <1>1, <1>2, <2>1, SystemAssumption DEF WithinPass
<1>6. CASE End \/ Session
  BY <1>3, <1>4, <1>6
  DEF End, Session, AskExit, RunEnds, HostFails, EndHost, Restart
<1>7. CASE Reap \/ DropLive \/ Weigh \/ (\E up \in BOOLEAN : GoStale(up)) \/ UNCHANGED vars
  BY <1>4, <1>7 DEF Reap, DropLive, EventLoop, Weigh, GoStale, vars
<1>8. ASSUME NEW b \in Boards, Served(b) \/ Faults(b) PROVE cursor' = cursor
  BY <1>8 DEF Served, Connect, Heartbeat, Report, EventLoop, Faults, LinkEnds, GoIdle, Reboot
<1> QED
  BY <1>4, <1>5, <1>6, <1>7, <1>8 DEF Next, Pass

\* Every step keeps the types.
LEMMA TypeStep ==
  ASSUME TypeOK, WithinPass, [Next]_vars
  PROVE  TypeOK' /\ WithinPass'
<1>1. /\ tunnels' \in Seq(Links) /\ Len(tunnels') <= MaxTunnels
      /\ WithinPass' /\ cursor' \in 0 .. MaxTunnels + 1
  BY ListType, CursorStep
<1> DEFINE Rest ==
      /\ host \in {"up", "ending", "down"}
      /\ occupancy_states \in [Boards -> States \cup {"unknown"}]
      /\ bigsign_states \in [Boards -> States \cup {"unknown"}]
      /\ load \in [Booths -> Weights]
      /\ shown \in [Boards -> States \cup {"idle"}]
      /\ amiss \subseteq Boards
<1>2. Rest
  BY DEF TypeOK
<1>3. SUFFICES Rest'
  BY <1>1 DEF TypeOK
<1> USE DEF memory, displays
<1>4. CASE Begin \/ PassOver \/ End
  BY <1>2, <1>4 DEF Begin, PassOver, End
<1>5. ASSUME NEW losing \in BOOLEAN, Poll(losing) PROVE Rest'
  <2>1. occupancy_states' \in [Boards -> States \cup {"unknown"}]
    BY <1>2, <1>5, PollFacts
  <2>2. bigsign_states' \in [Boards -> States \cup {"unknown"}]
    BY <1>5, PollFacts
  <2>3. shown' \in [Boards -> States \cup {"idle"}] /\ amiss' \subseteq Boards
    BY <1>5, PollFacts, ToldTypes
  <2> QED
    BY <1>2, <1>5, <2>1, <2>2, <2>3 DEF Poll
<1>6. CASE RunEnds \/ HostFails
  <2>1. Nothing \in [Boards -> States \cup {"unknown"}] /\ Forgotten \subseteq Boards
    BY <1>2, BoardFacts DEF Nothing, Forgotten
  <2> QED
    BY <1>2, <1>6, <2>1 DEF RunEnds, HostFails, EndHost
<1>7. CASE AskExit \/ Restart
  BY <1>2, <1>7 DEF AskExit, Restart
<1>8. CASE Reap \/ DropLive \/ (\E up \in BOOLEAN : GoStale(up)) \/ UNCHANGED vars
  BY <1>2, <1>8 DEF Reap, DropLive, EventLoop, GoStale, vars
<1>9. CASE Weigh
  BY <1>2, <1>9 DEF Weigh
<1>10. ASSUME NEW b \in Boards, Served(b) PROVE Rest'
  BY <1>2, <1>10 DEF Served, Connect, Heartbeat, Report, EventLoop
<1>11. ASSUME NEW b \in Boards, Faults(b) PROVE Rest'
  BY <1>2, <1>11 DEF Faults, LinkEnds, GoIdle, Reboot, Initially, States
<1> QED
  BY <1>4, <1>5, <1>6, <1>7, <1>8, <1>9, <1>10, <1>11 DEF Next, Pass, Session

\* Every variable of NoVacancy keeps its type, and a pass never leaves the list.
THEOREM TypeCorrect == Spec => []TypeOK
<1>1. TypeOK /\ WithinPass /\ [Next]_vars => TypeOK' /\ WithinPass'
  BY TypeStep
<1> QED
  BY TypeInit, <1>1, PTL DEF Spec

-----------------------------------------------------------------------------
(* Displays. *)

\* The parts of DisplaysFollow, display by display.
LedFollows(b) == b \in amiss \/ occupancy_states[b] = "unknown" \/ shown[b] = occupancy_states[b]
SignFollows(s) == s \in amiss \/ shown[s] = SignBefore(s)

\* The booth that is polled is sent its state unless it is recorded already; the sign of
\* its group is sent the group's state unless that is recorded already.
LEMMA PollDisplays ==
  ASSUME TypeOK, DisplaysFollow, NEW losing \in BOOLEAN, Poll(losing)
  PROVE  DisplaysFollow'
<1>1. /\ PolledBoard \in Booths /\ PolledState \in States
      /\ occupancy_states' = [occupancy_states EXCEPT ![PolledBoard] = PolledState]
      /\ \A g \in PolledGroups : bigsign_states'[g.bigsign] = SignAfter(g, PolledAll)
      /\ \A b \in Boards : (\A g \in PolledGroups : g.bigsign # b) =>
           bigsign_states'[b] = bigsign_states[b]
      /\ OneEach(PollCommands)
      /\ \A c \in PollCommands : c.board \in Boards /\ c.show \in States
  BY PollFacts
<1>2. PICK deaf : Tell(PollCommands, deaf)
  BY PollFacts
<1>3. /\ \A c \in PollCommands : c.board \in amiss' \/ shown'[c.board] = c.show
      /\ \A b \in Boards : (\A c \in PollCommands : c.board # b) =>
           shown'[b] = shown[b] /\ (b \in amiss => b \in amiss')
  BY <1>1, <1>2, Told
<1>4. PolledGroups \subseteq Groups
  BY DEF PolledGroups
<1>5. /\ \A c \in LedCommand(PolledBoard, PolledState) : c.board = PolledBoard
      /\ occupancy_states[PolledBoard] # PolledState =>
           [board |-> PolledBoard, show |-> PolledState] \in PollCommands
      /\ occupancy_states[PolledBoard] = PolledState =>
           LedCommand(PolledBoard, PolledState) = {}
  BY DEF LedCommand, PollCommands
<1>6. /\ \A c \in SignCommands(PolledGroups, PolledAll) : \E g \in PolledGroups :
           c.board = g.bigsign /\ SignAfter(g, PolledAll) # SignBefore(g.bigsign)
      /\ \A g \in PolledGroups : SignAfter(g, PolledAll) # SignBefore(g.bigsign) =>
           [board |-> g.bigsign, show |-> SignAfter(g, PolledAll)] \in PollCommands
  BY DEF SignCommands, PollCommands
<1>7. ASSUME NEW b \in Booths PROVE LedFollows(b)'
  <2>1. LedFollows(b) /\ b \in Boards /\ b \notin Signs
    BY <1>7, BoardFacts DEF DisplaysFollow, LedFollows
  <2>2. CASE b = PolledBoard /\ occupancy_states[b] # PolledState
    <3>1. occupancy_states'[b] = PolledState
      BY <1>1, <2>1, <2>2 DEF TypeOK
    <3> QED
      BY <1>3, <1>5, <2>2, <3>1 DEF LedFollows
  <2>3. CASE b # PolledBoard \/ occupancy_states[b] = PolledState
    <3>1. occupancy_states'[b] = occupancy_states[b]
      BY <1>1, <2>1, <2>3 DEF TypeOK
    <3>2. \A c \in PollCommands : c.board # b
      BY <1>4, <1>5, <1>6, <2>1, <2>3, GroupFacts DEF PollCommands
    <3> QED
      BY <1>3, <2>1, <3>1, <3>2 DEF LedFollows
  <2> QED
    BY <2>2, <2>3
<1>8. ASSUME NEW s \in Signs PROVE SignFollows(s)'
  <2>1. SignFollows(s) /\ s \in Boards /\ s # PolledBoard
    BY <1>1, <1>8, BoardFacts DEF DisplaysFollow, SignFollows
  <2>2. CASE \A g \in PolledGroups : g.bigsign # s
    <3>1. bigsign_states'[s] = bigsign_states[s]
      BY <1>1, <2>1, <2>2
    <3>2. \A c \in PollCommands : c.board # s
      BY <1>5, <1>6, <2>1, <2>2 DEF PollCommands
    <3> QED
      BY <1>3, <2>1, <3>1, <3>2 DEF SignFollows, SignBefore
  <2>3. ASSUME NEW g \in PolledGroups, g.bigsign = s PROVE SignFollows(s)'
    <3>1. SignBefore(s)' = SignAfter(g, PolledAll)
      <4>1. SignAfter(g, PolledAll) # "unknown"
        BY <1>4, SignTypes DEF States
      <4> QED
        BY <1>1, <2>3, <4>1 DEF SignBefore
    <3>2. CASE SignAfter(g, PolledAll) # SignBefore(s)
      BY <1>3, <1>6, <2>3, <3>1, <3>2 DEF SignFollows
    <3>3. CASE SignAfter(g, PolledAll) = SignBefore(s)
      <4>1. \A c \in PollCommands : c.board # s
        BY <1>4, <1>5, <1>6, <2>1, <2>3, <3>3, GroupFacts DEF PollCommands
      <4> QED
        BY <1>3, <2>1, <3>1, <3>3, <4>1 DEF SignFollows
    <3> QED
      BY <3>2, <3>3
  <2> QED
    BY <2>2, <2>3
<1> QED
  BY <1>7, <1>8 DEF DisplaysFollow, LedFollows, SignFollows, SignBefore

\* Every step, of the host, of a board or of the link, keeps DisplaysFollow.
LEMMA DisplaysStep ==
  ASSUME TypeOK, DisplaysFollow, [Next]_vars
  PROVE  DisplaysFollow'
<1> USE DEF memory, displays
<1>1. ASSUME UNCHANGED <<memory, displays>> PROVE DisplaysFollow'
  BY <1>1 DEF DisplaysFollow, SignBefore
<1>2. CASE Begin \/ PassOver \/ End \/ AskExit \/ Restart
  BY <1>1, <1>2 DEF Begin, PassOver, End, AskExit, Restart
<1>3. CASE \E losing \in BOOLEAN : Poll(losing)
  BY <1>3, PollDisplays
<1>4. CASE RunEnds \/ HostFails
  <2>1. /\ occupancy_states' = Nothing /\ bigsign_states' = Nothing
        /\ amiss' = Forgotten /\ UNCHANGED shown
    BY <1>4 DEF RunEnds, HostFails, EndHost
  <2>2. \A b \in Booths : occupancy_states'[b] = "unknown"
    BY <2>1, BoardFacts DEF Nothing
  <2>3. ASSUME NEW s \in Signs PROVE s \in amiss' \/ shown'[s] = "vacant"
    <3>1. SignBefore(s) \in States
      BY BoardFacts DEF TypeOK, SignBefore, States
    <3> QED
      BY <2>1, <3>1 DEF DisplaysFollow, Forgotten, States
  <2>4. \A s \in Signs : SignBefore(s)' = "vacant"
    BY <2>1, BoardFacts DEF SignBefore, Nothing
  <2> QED
    BY <2>2, <2>3, <2>4 DEF DisplaysFollow
<1>5. CASE Reap \/ DropLive \/ Weigh \/ (\E up \in BOOLEAN : GoStale(up)) \/ UNCHANGED vars
  BY <1>1, <1>5 DEF Reap, DropLive, EventLoop, Weigh, GoStale, vars
<1>6. ASSUME NEW b \in Boards, Served(b) \/ LinkEnds(b) PROVE DisplaysFollow'
  BY <1>1, <1>6 DEF Served, Connect, Heartbeat, Report, EventLoop, LinkEnds
<1>7. ASSUME NEW b \in Boards, GoIdle(b) PROVE DisplaysFollow'
  <2>1. /\ b \in Booths /\ b \notin Signs /\ UNCHANGED memory
        /\ shown' = [shown EXCEPT ![b] = "idle"] /\ amiss' = amiss \cup {b}
    BY <1>7, BoardFacts DEF GoIdle
  <2> QED
    BY <2>1 DEF DisplaysFollow, SignBefore, TypeOK
<1>8. ASSUME NEW b \in Boards, Reboot(b) PROVE DisplaysFollow'
  <2>1. /\ UNCHANGED memory /\ shown' = [shown EXCEPT ![b] = Initially(b)]
        /\ amiss' = IF b \in Booths \/ bigsign_states[b] = "occupied"
                    THEN amiss \cup {b} ELSE amiss
    BY <1>8 DEF Reboot
  <2>2. \A c \in Boards : c # b => shown'[c] = shown[c]
    BY <2>1 DEF TypeOK
  <2>3. b \notin Booths /\ bigsign_states[b] # "occupied" =>
          shown'[b] = "vacant" /\ SignBefore(b) = "vacant"
    BY <1>8, <2>1 DEF Initially, SignBefore, TypeOK, States
  <2>4. amiss \subseteq amiss'
        /\ (b \in Booths \/ bigsign_states[b] = "occupied" => b \in amiss')
    BY <2>1
  <2>5. \A c \in Boards : SignBefore(c)' = SignBefore(c) /\ occupancy_states'[c] = occupancy_states[c]
    BY <2>1 DEF SignBefore
  <2>6. ASSUME NEW c \in Booths
        PROVE c \in amiss' \/ occupancy_states'[c] = "unknown" \/ shown'[c] = occupancy_states'[c]
    BY <2>2, <2>4, <2>5, BoardFacts DEF DisplaysFollow
  <2>7. ASSUME NEW s \in Signs PROVE s \in amiss' \/ shown'[s] = SignBefore(s)'
    BY <2>2, <2>3, <2>4, <2>5, BoardFacts DEF DisplaysFollow
  <2> QED
    BY <2>6, <2>7 DEF DisplaysFollow
<1> QED
  BY <1>2, <1>3, <1>4, <1>5, <1>6, <1>7, <1>8 DEF Next, Pass, Session, Faults

\* Nothing is recorded at first, and every sign shows "vacant".
LEMMA DisplaysInit == Init => DisplaysFollow
BY BoardFacts DEF Init, Nothing, Initially, DisplaysFollow, SignBefore

\* Through restarts of the host, dead tunnels, reconnections and reboots, a display agrees
\* with the state recorded for it unless its last command was lost, its board was reset
\* since, or the host forgot a sign it had told "No Vacancy".
THEOREM DisplaysCorrect == Spec => []DisplaysFollow
<1>1. TypeOK /\ WithinPass /\ [Next]_vars => TypeOK' /\ WithinPass'
  BY TypeStep
<1>2. TypeOK /\ DisplaysFollow /\ [Next]_vars => DisplaysFollow'
  BY DisplaysStep
<1> QED
  BY TypeInit, DisplaysInit, <1>1, <1>2, PTL DEF Spec

-----------------------------------------------------------------------------
(* Which of a board's tunnels counts. *)

\* New tunnels are appended, and a board with a working tunnel opens no other: its working
\* tunnel is the last of its tunnels.
LiveIsLast ==
  \A i, j \in DOMAIN tunnels :
    tunnels[i].up /\ tunnels[j].tunnel.board = tunnels[i].tunnel.board => j <= i

\* What the reading of a tunnel means.
Means(t) == Cell(Occupied(t, DefaultSetting))

\* Of the tunnels the pass has left behind, those that work are the ones recorded.
PolledSoFar ==
  \A i \in DOMAIN tunnels :
    i < cursor /\ tunnels[i].up /\ Polled(tunnels[i].tunnel) =>
      occupancy_states[tunnels[i].tunnel.board] = Means(tunnels[i].tunnel)

\* Every step keeps the working tunnel of a board its last.
LEMMA LiveIsLastStep ==
  ASSUME TypeOK, LiveIsLast, [Next]_vars
  PROVE  LiveIsLast'
<1>1. /\ tunnels \in Seq(Links) /\ Len(tunnels) \in Nat /\ DOMAIN tunnels = 1 .. Len(tunnels)
      /\ tunnels' \in Seq(Links) /\ Len(tunnels') \in Nat /\ DOMAIN tunnels' = 1 .. Len(tunnels')
  BY TunnelFacts, ListType, LenProperties DEF TypeOK
<1>2. CASE InPlace
  BY <1>1, <1>2 DEF InPlace, LiveIsLast
<1>3. CASE Shorter
  <2>1. PICK k \in 1 .. Len(tunnels) : tunnels' = RemoveAt(tunnels, k)
    BY <1>1, <1>3 DEF Shorter
  <2> DEFINE old(j) == IF j < k THEN j ELSE j + 1
  <2>2. Len(tunnels') = Len(tunnels) - 1
        /\ \A j \in 1 .. Len(tunnels) - 1 : tunnels'[j] = tunnels[old(j)]
    BY <1>1, <2>1, WithoutFacts DEF RemoveAt, Without
  <2>3. \A i, j \in 1 .. Len(tunnels) - 1 : old(i) \in 1 .. Len(tunnels)
        /\ (old(j) <= old(i) => j <= i)
    BY <1>1, <2>1
  <2> HIDE DEF old
  <2> QED
    BY <1>1, <2>2, <2>3 DEF LiveIsLast
<1>4. CASE Longer
  <2>1. PICK b \in Boards :
          /\ Live(b) = {}
          /\ tunnels' = Append(tunnels, [up |-> TRUE, tunnel |-> NewTunnel(b)])
    BY <1>4 DEF Longer
  <2>2. [up |-> TRUE, tunnel |-> NewTunnel(b)] \in Links
    BY NewTunnelFacts DEF Links
  <2>3. /\ Len(tunnels') = Len(tunnels) + 1
        /\ \A j \in 1 .. Len(tunnels) : tunnels'[j] = tunnels[j]
        /\ tunnels'[Len(tunnels) + 1].tunnel.board = b
    <3>1. tunnels'[Len(tunnels) + 1] = [up |-> TRUE, tunnel |-> NewTunnel(b)]
      BY <1>1, <2>1, <2>2, AppendProperties
    <3> QED
      BY <1>1, <2>1, <2>2, <3>1, AppendProperties, NewTunnelFacts
  <2>4. \A i \in 1 .. Len(tunnels) : tunnels[i].up => tunnels[i].tunnel.board # b
    BY <1>1, <2>1 DEF Live
  <2> QED
    BY <1>1, <2>3, <2>4 DEF LiveIsLast
<1>5. CASE Emptied
  <2>1. Len(tunnels') = 0
    BY <1>5, EmptySeq DEF Emptied
  <2> QED
    BY <1>1, <2>1 DEF LiveIsLast
<1> QED
  BY <1>2, <1>3, <1>4, <1>5, ListStep

\* What is recorded is overwritten by the next tunnel of the same board, if it is polled:
\* never by an older one.
LEMMA PolledSoFarStep ==
  ASSUME TypeOK, LiveIsLast, PolledSoFar, [Next]_vars
  PROVE  PolledSoFar'
<1>1. /\ tunnels \in Seq(Links) /\ Len(tunnels) \in Nat /\ DOMAIN tunnels = 1 .. Len(tunnels)
      /\ \A i \in DOMAIN tunnels : tunnels[i].tunnel \in Tunnels
      /\ cursor \in Nat
  BY TunnelFacts DEF TypeOK
<1>2. ASSUME cursor' = 0 PROVE PolledSoFar'
  <2>1. DOMAIN tunnels' = 1 .. Len(tunnels') /\ Len(tunnels') \in Nat
    BY ListType, LenProperties
  <2> QED
    BY <1>2, <2>1 DEF PolledSoFar
<1>3. ASSUME UNCHANGED <<cursor, occupancy_states>> PROVE PolledSoFar'
  <2>1. CASE cursor = 0
    BY <1>2, <1>3, <2>1
  <2>2. CASE cursor # 0 /\ InPlace
    <3>1. DOMAIN tunnels' = 1 .. Len(tunnels')
      BY <2>2, LenProperties DEF InPlace
    <3> QED
      BY <1>1, <1>3, <2>2, <3>1 DEF InPlace, PolledSoFar
  <2> QED
    BY <1>2, <2>1, <2>2, ListStep DEF Shorter, Longer, Emptied
<1>4. CASE Begin
  <2>1. UNCHANGED <<tunnels, occupancy_states>> /\ cursor' = 1
    BY <1>4 DEF Begin, memory
  <2> QED
    BY <1>1, <2>1 DEF PolledSoFar
<1>5. CASE PassOver
  <2>1. /\ UNCHANGED <<tunnels, occupancy_states>> /\ cursor' = cursor + 1
        /\ ~ Polled(tunnels[cursor].tunnel)
    BY <1>5 DEF PassOver, NextTunnel, memory, tunnel
  <2> QED
    BY <1>1, <2>1 DEF PolledSoFar
<1>6. ASSUME NEW losing \in BOOLEAN, Poll(losing) PROVE PolledSoFar'
  <2>1. /\ UNCHANGED tunnels /\ cursor' = cursor + 1 /\ cursor \in DOMAIN tunnels
        /\ PolledBoard = tunnels[cursor].tunnel.board
        /\ PolledState = Means(tunnels[cursor].tunnel)
    BY <1>6 DEF Poll, At, NextTunnel, PolledBoard, PolledState, Means, tunnel
  <2>2. PolledBoard \in Booths /\ PolledBoard \in Boards
        /\ occupancy_states' = [occupancy_states EXCEPT ![PolledBoard] = PolledState]
    BY <1>6, PollFacts, BoardFacts
  <2>3. SUFFICES ASSUME NEW i \in DOMAIN tunnels, i < cursor + 1, tunnels[i].up,
                        Polled(tunnels[i].tunnel)
                 PROVE  occupancy_states'[tunnels[i].tunnel.board] = Means(tunnels[i].tunnel)
    BY <2>1 DEF PolledSoFar, Means
  <2>4. tunnels[i].tunnel.board \in Boards
    BY <1>1, PolledIsBooth, <2>3
  <2>5. CASE i = cursor
    BY <2>1, <2>2, <2>5 DEF TypeOK
  <2>6. CASE i < cursor
    <3>1. tunnels[i].tunnel.board # PolledBoard
      BY <1>1, <2>1, <2>3, <2>6 DEF LiveIsLast
    <3> QED
      BY <2>2, <2>3, <2>4, <2>6, <3>1 DEF PolledSoFar, TypeOK
  <2> QED
    BY <1>1, <2>3, <2>5, <2>6
<1> USE DEF memory
<1>7. CASE End \/ Session
  BY <1>2, <1>3, <1>7 DEF End, Session, AskExit, RunEnds, HostFails, EndHost, Restart
<1>8. CASE Reap \/ DropLive \/ Weigh \/ (\E up \in BOOLEAN : GoStale(up)) \/ UNCHANGED vars
  BY <1>3, <1>8 DEF Reap, DropLive, EventLoop, Weigh, GoStale, vars
<1>9. ASSUME NEW b \in Boards, Served(b) \/ Faults(b) PROVE PolledSoFar'
  BY <1>3, <1>9
  DEF Served, Connect, Heartbeat, Report, EventLoop, Faults, LinkEnds, GoIdle, Reboot
<1> QED
  BY <1>4, <1>5, <1>6, <1>7, <1>8, <1>9 DEF Next, Pass

\* At first there is no tunnel.
LEMMA NewestInit == Init => LiveIsLast /\ PolledSoFar
<1> SUFFICES ASSUME Init PROVE LiveIsLast /\ PolledSoFar
  OBVIOUS
<1>1. tunnels = << >> /\ DOMAIN tunnels = 1 .. 0
  BY EmptySeq, LenProperties DEF Init
<1> QED
  BY <1>1 DEF LiveIsLast, PolledSoFar

\* Past the last tunnel, PolledSoFar is NewestCounts.
LEMMA NewestFollows == TypeOK /\ PolledSoFar => NewestCounts
<1> SUFFICES ASSUME TypeOK, PolledSoFar, cursor = Len(tunnels) + 1, NEW b \in Booths,
                    NEW i \in Live(b), Polled(tunnels[i].tunnel)
             PROVE  occupancy_states[b] = Cell(Occupied(tunnels[i].tunnel, DefaultSetting))
  BY DEF NewestCounts
<1>1. i \in DOMAIN tunnels /\ tunnels[i].up /\ tunnels[i].tunnel.board = b
  BY DEF Live
<1>2. i \in 1 .. Len(tunnels) /\ Len(tunnels) \in Nat
  BY <1>1, TunnelFacts DEF TypeOK
<1> QED
  BY <1>1, <1>2 DEF PolledSoFar, Means

\* A board that connects again while the host still reads its old tunnels has several
\* readings in one pass; what the pass leaves recorded is the one of its working tunnel.
THEOREM NewestCorrect == Spec => []NewestCounts
<1>1. TypeOK /\ WithinPass /\ [Next]_vars => TypeOK' /\ WithinPass'
  BY TypeStep
<1>2. TypeOK /\ LiveIsLast /\ [Next]_vars => LiveIsLast'
  BY LiveIsLastStep
<1>3. TypeOK /\ LiveIsLast /\ PolledSoFar /\ [Next]_vars => PolledSoFar'
  BY PolledSoFarStep
<1> QED
  BY TypeInit, NewestInit, NewestFollows, <1>1, <1>2, <1>3, PTL DEF Spec
=============================================================================
