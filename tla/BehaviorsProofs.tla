--------------------------- MODULE BehaviorsProofs ---------------------------
(***************************************************************************)
(* Proofs about Behaviors, for any boards, readings, configurations and    *)
(* number of tunnels: its type invariant, that a computed big sign is the  *)
(* conjunction of its members, that LEDs and signs agree, and that a pass  *)
(* leaves in the sheet what it has polled and, for the rest, the snapshot. *)
(***************************************************************************)
EXTENDS Behaviors, ListProofs

-----------------------------------------------------------------------------
(* Lemmas about the helpers. *)

\* The ids of a table are as many as its rows.
LEMMA IdsType ==
  ASSUME NEW T, NEW table \in Seq([id : Boards, occupied : T])
  PROVE  Ids(table) \in Seq(Boards) /\ Len(Ids(table)) = Len(table)
<1>1. DOMAIN table = 1 .. Len(table) /\ Len(table) \in Nat
  BY LenProperties
<1>2. \A i \in 1 .. Len(table) : table[i] \in [id : Boards, occupied : T]
  BY ElementOfSeq
<1>3. Ids(table) \in [1 .. Len(table) -> Boards]
  BY <1>1, <1>2 DEF Ids
<1> QED
  BY <1>1, <1>3, FunctionIsSeq

\* A handler of packet_callback keeps the type of a tunnel.
LEMMA HandlerTypes ==
  ASSUME NEW t \in Tunnels
  PROVE  /\ Heart(t) \in Tunnels
         /\ \A w \in Weights : Weight(t, w) \in Tunnels
         /\ \A d \in Distances : Dist(t, d) \in Tunnels
         /\ \A l \in BOOLEAN : Latch(t, l) \in Tunnels
         /\ [t EXCEPT !.heart = "stale"] \in Tunnels
BY DEF Tunnels, Heart, Weight, Dist, Latch

\* Thresholds read from any configuration, or the default ones, are settings.
LEMMA SettingType ==
  ASSUME NEW config \in DeviceConfigs, NEW b \in Boards
  PROVE  SettingOf(config, b) \in Settings
BY DevicesAssumption, ReadingsAssumption DEF SettingOf

\* In every configuration a group has a sign of its own and boards of its own.
LEMMA GroupFacts ==
  ASSUME groups \in GroupConfigs
  PROVE  /\ DOMAIN groups \subseteq Nat
         /\ \A g \in DOMAIN groups :
              groups[g].bigsign \in Signs /\ groups[g].devices \subseteq Booths \cup Doors
         /\ \A g, h \in DOMAIN groups : g # h =>
              /\ groups[g].bigsign # groups[h].bigsign
              /\ groups[g].devices \cap groups[h].devices = {}
<1>1. groups \in Seq([bigsign : Signs, devices : SUBSET (Booths \cup Doors)])
  BY GroupsAssumption
<1>2. \A g \in 1 .. Len(groups) :
        groups[g] \in [bigsign : Signs, devices : SUBSET (Booths \cup Doors)]
  BY <1>1, ElementOfSeq
<1>3. DOMAIN groups = 1 .. Len(groups) /\ Len(groups) \in Nat
  BY <1>1, LenProperties
<1> QED
  BY <1>2, <1>3, GroupsAssumption

\* So the first group that lists a board is the only one.
LEMMA OneGroup ==
  ASSUME groups \in GroupConfigs, NEW b, NEW g \in GroupsOf(b)
  PROVE  GroupsOf(b) = {g} /\ GroupOf(b) = g
<1>1. GroupsOf(b) = {g} /\ g \in Nat
  BY GroupFacts DEF GroupsOf
<1> QED
  BY <1>1 DEF GroupOf

-----------------------------------------------------------------------------
(* The type invariant. *)

\* The initial state has the types.
LEMMA TypeInit == Init => TypeOK
<1> SUFFICES ASSUME Init PROVE TypeOK
  OBVIOUS
<1>1. sheet \in Seq([id : Boards, occupied : {"TRUE", "FALSE"}])
  <2>1. DOMAIN Roster = 1 .. Len(Roster) /\ Len(Roster) \in Nat
    BY DevicesAssumption, LenProperties
  <2>2. \A i \in 1 .. Len(Roster) : Roster[i] \in Boards
    BY DevicesAssumption, ElementOfSeq
  <2>3. sheet \in [1 .. Len(Roster) -> [id : Boards, occupied : {"TRUE", "FALSE"}]]
    BY <2>1, <2>2 DEF Init
  <2> QED
    BY <2>1, <2>3, FunctionIsSeq
<1>2. /\ tunnels \in Seq(Tunnels) /\ Len(tunnels) <= MaxTunnels
      /\ rows \in Seq([id : Boards, occupied : {"TRUE", "FALSE"}])
      /\ prev_occupancy_row \in Seq(Cells)
      /\ board_ids \in Seq(Boards) /\ occupancies \in Seq(Cells)
      /\ Len(board_ids) = Len(occupancies)
  BY EmptySeq, DevicesAssumption DEF Init
<1>3. seen \in Settings /\ cursor \in 1 .. (MaxTunnels + 1)
  BY ReadingsAssumption, DevicesAssumption DEF Init
<1> QED
  BY <1>1, <1>2, <1>3 DEF Init, TypeOK, States

\* Every step keeps the types.
LEMMA TypeStep == TypeOK /\ [Next]_vars => TypeOK'
<1> SUFFICES ASSUME TypeOK, [Next]_vars PROVE TypeOK'
  OBVIOUS
<1> USE DEF config_vars, state_vars, pass_vars, shown_vars, sheet_vars
<1>a. /\ Len(tunnels) \in Nat /\ MaxTunnels \in Nat
      /\ DOMAIN tunnels = 1 .. Len(tunnels)
      /\ \A i \in DOMAIN tunnels : tunnels[i] \in Tunnels
  BY DevicesAssumption, LenProperties, ElementOfSeq DEF TypeOK
<1>b. Boards = Booths \cup Doors \cup Signs /\ \A g \in DOMAIN groups : groups[g].bigsign \in Signs
  BY GroupFacts DEF TypeOK, Boards
<1>1. CASE DbLock
  BY <1>1 DEF DbLock, TypeOK
<1>2. CASE DbReadRows
  BY <1>2 DEF DbReadRows, TypeOK
<1>3. CASE DbReadGroups
  BY <1>3 DEF DbReadGroups, TypeOK
<1>4. CASE DbReadDevices
  BY <1>4 DEF DbReadDevices, TypeOK
<1>5. CASE DbFail
  BY <1>5 DEF DbFail, TypeOK
<1>6. CASE Snapshot
  <2>1. board_ids' \in Seq(Boards) /\ Len(board_ids') = Len(rows)
    BY <1>6, IdsType DEF Snapshot, TypeOK
  <2>2. occupancies' \in Seq(Cells) /\ Len(occupancies') = Len(rows)
    <3>1. DOMAIN rows = 1 .. Len(rows) /\ Len(rows) \in Nat
      BY LenProperties DEF TypeOK
    <3>2. \A i \in 1 .. Len(rows) : rows[i] \in [id : Boards, occupied : {"TRUE", "FALSE"}]
      BY ElementOfSeq DEF TypeOK
    <3>3. occupancies' \in [1 .. Len(rows) -> Cells]
      BY <1>6, <3>1, <3>2 DEF Snapshot, Cells
    <3> QED
      BY <3>1, <3>3, FunctionIsSeq
  <2> QED
    BY <1>6, <2>1, <2>2, <1>a DEF Snapshot, TypeOK
<1>7. CASE ReadWeightThreshold
  <2>1. cursor \in DOMAIN tunnels /\ tunnels[cursor].board \in Booths
    BY <1>7 DEF ReadWeightThreshold, Looping, tunnel
  <2>2. SettingOf(devices, tunnel.board) \in Settings
    BY <2>1, <1>b, SettingType DEF TypeOK, tunnel
  <2>3. seen' \in Settings
    BY <1>7, <2>2 DEF ReadWeightThreshold, TypeOK, Settings
  <2> QED
    BY <1>7, <2>1, <2>3 DEF ReadWeightThreshold, TypeOK
<1>8. CASE ReadWeightDirection
  <2>1. SettingOf(devices, tunnel.board) \in Settings
    BY <1>8, <1>b, SettingType DEF ReadWeightDirection, TypeOK, tunnel
  <2>2. seen' \in Settings
    BY <1>8, <2>1 DEF ReadWeightDirection, TypeOK, Settings
  <2> QED
    BY <1>8, <2>2 DEF ReadWeightDirection, TypeOK
<1>9. CASE ReadDistanceThreshold
  <2>1. SettingOf(devices, tunnel.board) \in Settings
    BY <1>9, <1>b, SettingType DEF ReadDistanceThreshold, TypeOK, tunnel
  <2>2. seen' \in Settings
    BY <1>9, <2>1 DEF ReadDistanceThreshold, TypeOK, Settings
  <2> QED
    BY <1>9, <2>2 DEF ReadDistanceThreshold, TypeOK
<1>10. CASE Skip
  <2>1. cursor \in DOMAIN tunnels
    BY <1>10 DEF Skip, AtDecision, Looping, TypeOK
  <2>2. cursor + 1 \in 1 .. (MaxTunnels + 1)
    BY <2>1, <1>a DEF TypeOK
  <2> QED
    BY <1>10, <2>2 DEF Skip, TypeOK
<1>11. CASE Decide
  <2> DEFINE b == tunnel.board
             state == Cell(Occupied(tunnel, seen))
  <2>1. cursor \in DOMAIN tunnels /\ b \in Booths \cup Doors
    BY <1>11 DEF Decide, AtDecision, Looping, IsOccupancyDevice, TypeOK
  <2>6. tunnels[cursor].board \in Booths \cup Doors
    BY <2>1 DEF tunnel
  <2>2. state \in States /\ LedAfter(b, state) \in States \cup {"unknown"}
    BY <2>1, <1>b DEF Cell, States, LedAfter, TypeOK
  <2>3. occupancies' \in Seq(Cells) /\ Len(occupancies') = Len(occupancies)
    <3>1. occupancies \in Seq(Cells) /\ state \in Cells
      BY <2>2 DEF TypeOK, Cells
    <3>2. occupancies' \in {occupancies, [occupancies EXCEPT ![RowOf(b)] = state]}
      BY <1>11 DEF Decide
    <3> HIDE DEF b, state
    <3> QED
      BY <3>1, <3>2, ExceptType
  <2>4. occupancy_states' \in [Boards -> States \cup {"unknown"}]
    BY <1>11, <2>2 DEF Decide, TypeOK
  <2>5. leds' \in [Boards -> States \cup {"unknown"}]
    BY <1>11, <2>2 DEF Decide, TypeOK
  <2> QED
    BY <1>11, <2>1, <2>6, <2>3, <2>4, <2>5 DEF Decide, TypeOK
<1>12. ASSUME poll = "groups", NextTunnel
       PROVE  poll' = "loop" /\ cursor' \in 1 .. (MaxTunnels + 1)
  BY <1>12, <1>a DEF NextTunnel, TypeOK
<1>13. CASE UpdateNothing
  BY <1>12, <1>13 DEF UpdateNothing, TypeOK
<1>14. ASSUME poll = "groups", HasGroup(tunnel.board)
       PROVE  GroupOf(tunnel.board) \in DOMAIN groups
  <2>1. PICK g \in GroupsOf(tunnel.board) : TRUE
    BY <1>14 DEF HasGroup
  <2> QED
    BY <2>1, OneGroup DEF GroupsOf, TypeOK
<1>15. CASE UpdateUnknownGroup
  <2>1. bigsign_states' \in [Boards -> States \cup {"unknown"}]
    BY <1>15 DEF UpdateUnknownGroup, TypeOK, States
  <2> QED
    BY <1>12, <1>15, <2>1 DEF UpdateUnknownGroup, TypeOK
<1>16. CASE UpdateGroup
  <2> DEFINE g == GroupOf(tunnel.board)
             s == groups[g].bigsign
  <2>1. g \in DOMAIN groups /\ s \in Signs /\ GroupState(g) \in States
    BY <1>16, <1>14, <1>b DEF UpdateGroup, GroupState, Cell, States
  <2>2. bigsign_states' = [bigsign_states EXCEPT ![s] = GroupState(g)]
    BY <1>16 DEF UpdateGroup
  <2>3. signs' \in {signs, [signs EXCEPT ![s] = GroupState(g)]}
    BY <1>16 DEF UpdateGroup
  <2>4. missed' \in {missed, missed \ {s}, missed \cup {s}} /\ evaluated' = evaluated \cup {g}
    BY <1>16 DEF UpdateGroup
  <2> HIDE DEF g, s
  <2>5. /\ bigsign_states' \in [Boards -> States \cup {"unknown"}]
        /\ signs' \in [Signs -> States] /\ missed' \subseteq Signs
        /\ evaluated' \subseteq DOMAIN groups
    BY <2>1, <2>2, <2>3, <2>4 DEF TypeOK
  <2> QED
    BY <1>12, <1>16, <2>5 DEF UpdateGroup, TypeOK
<1>17. CASE EndUnchanged
  BY <1>17 DEF EndUnchanged, EndPass, TypeOK
<1>18. CASE EndWritten
  <2>1. sheet' \in Seq([id : Boards, occupied : {"TRUE", "FALSE"}])
    <3>1. DOMAIN sheet = 1 .. Len(sheet) /\ Len(sheet) \in Nat
      BY LenProperties DEF TypeOK
    <3>2. \A i \in 1 .. Len(sheet) : sheet[i] \in [id : Boards, occupied : {"TRUE", "FALSE"}]
      BY ElementOfSeq DEF TypeOK
    <3>3. sheet' \in [1 .. Len(sheet) -> [id : Boards, occupied : {"TRUE", "FALSE"}]]
      BY <1>18, <3>1, <3>2 DEF EndWritten, Written, Shown
    <3> QED
      BY <3>1, <3>3, FunctionIsSeq
  <2>2. behind' \subseteq DOMAIN sheet'
    BY <1>18 DEF EndWritten
  <2> QED
    BY <1>18, <2>1, <2>2 DEF EndWritten, EndPass, TypeOK
<1>19. CASE EndWriteFailed
  BY <1>19 DEF EndWriteFailed, EndPass, TypeOK
<1>20. CASE Connect
  <2>1. PICK b \in Boards : tunnels' = Append(tunnels, NewTunnel(b))
    BY <1>20 DEF Connect
  <2>2. NewTunnel(b) \in Tunnels
    BY ReadingsAssumption DEF NewTunnel, Tunnels
  <2>3. tunnels' \in Seq(Tunnels) /\ Len(tunnels') = Len(tunnels) + 1
    BY <2>1, <2>2, AppendProperties DEF TypeOK
  <2> QED
    BY <1>20, <1>a, <2>3 DEF Connect, OnEventLoop, TypeOK
<1>21. CASE Leave
  <2>1. PICK i \in DOMAIN tunnels :
          tunnels' = SubSeq(tunnels, 1, i - 1) \o SubSeq(tunnels, i + 1, Len(tunnels))
    BY <1>21 DEF Leave
  <2>2. /\ SubSeq(tunnels, 1, i - 1) \in Seq(Tunnels)
        /\ Len(SubSeq(tunnels, 1, i - 1)) = i - 1
    BY <1>a, SubSeqProperties
  <2>3. /\ SubSeq(tunnels, i + 1, Len(tunnels)) \in Seq(Tunnels)
        /\ Len(SubSeq(tunnels, i + 1, Len(tunnels))) = Len(tunnels) - i
    BY <1>a, SubSeqProperties
  <2>4. tunnels' \in Seq(Tunnels) /\ Len(tunnels') = (i - 1) + (Len(tunnels) - i)
    BY <2>1, <2>2, <2>3, ConcatProperties
  <2>5. Len(tunnels') <= MaxTunnels
    BY <1>a, <2>4 DEF TypeOK
  <2> QED
    BY <1>21, <2>4, <2>5 DEF Leave, OnEventLoop, TypeOK
<1>22. ASSUME NEW i \in DOMAIN tunnels, NEW t \in Tunnels, tunnels' = [tunnels EXCEPT ![i] = t],
              t.board = tunnels[i].board
       PROVE  /\ tunnels' \in Seq(Tunnels) /\ Len(tunnels') = Len(tunnels)
              /\ DOMAIN tunnels' = DOMAIN tunnels
              /\ \A j \in DOMAIN tunnels : tunnels'[j].board = tunnels[j].board
  BY <1>22, <1>a, ExceptSeq DEF TypeOK
<1>23. CASE Heartbeat
  <2>1. PICK i \in DOMAIN tunnels : tunnels' = [tunnels EXCEPT ![i] = Heart(tunnels[i])]
    BY <1>23 DEF Heartbeat
  <2>2. Heart(tunnels[i]) \in Tunnels /\ Heart(tunnels[i]).board = tunnels[i].board
    BY <1>a, HandlerTypes DEF Heart, Tunnels
  <2>3. tunnels' \in Seq(Tunnels) /\ Len(tunnels') = Len(tunnels)
    BY <2>1, <2>2, <1>22
  <2> QED
    BY <1>23, <2>3 DEF Heartbeat, OnEventLoop, TypeOK
<1>24. CASE Report
  <2>1. PICK i \in DOMAIN tunnels :
          \/ \E w \in Weights : tunnels' = [tunnels EXCEPT ![i] = Weight(tunnels[i], w)]
          \/ \E d \in Distances : tunnels' = [tunnels EXCEPT ![i] = Dist(tunnels[i], d)]
          \/ \E l \in BOOLEAN : tunnels' = [tunnels EXCEPT ![i] = Latch(tunnels[i], l)]
    BY <1>24 DEF Report
  <2>2. PICK t \in Tunnels : tunnels' = [tunnels EXCEPT ![i] = t] /\ t.board = tunnels[i].board
    BY <2>1, <1>a, HandlerTypes DEF Weight, Dist, Latch, Tunnels
  <2>3. tunnels' \in Seq(Tunnels) /\ Len(tunnels') = Len(tunnels)
    BY <2>2, <1>22
  <2> QED
    BY <1>24, <2>3 DEF Report, OnEventLoop, TypeOK
<1>25. CASE GoStale
  <2>1. PICK i \in DOMAIN tunnels :
          tunnels' = [tunnels EXCEPT ![i] = [tunnels[i] EXCEPT !.heart = "stale"]]
    BY <1>25 DEF GoStale
  <2>2. /\ [tunnels[i] EXCEPT !.heart = "stale"] \in Tunnels
        /\ [tunnels[i] EXCEPT !.heart = "stale"].board = tunnels[i].board
    BY <1>a, HandlerTypes DEF Tunnels
  <2>3. /\ tunnels' \in Seq(Tunnels) /\ Len(tunnels') = Len(tunnels)
        /\ DOMAIN tunnels' = DOMAIN tunnels
        /\ \A j \in DOMAIN tunnels : tunnels'[j].board = tunnels[j].board
    BY <2>1, <2>2, <1>22
  <2> QED
    BY <1>25, <2>3 DEF GoStale, TypeOK
<1>26. CASE SortSheet
  <2>1. sheet' \in Seq([id : Boards, occupied : {"TRUE", "FALSE"}])
    <3>1. DOMAIN sheet = 1 .. Len(sheet) /\ Len(sheet) \in Nat
      BY LenProperties DEF TypeOK
    <3>2. \A i \in 1 .. Len(sheet) : sheet[i] \in [id : Boards, occupied : {"TRUE", "FALSE"}]
      BY ElementOfSeq DEF TypeOK
    <3>3. sheet' \in [1 .. Len(sheet) -> [id : Boards, occupied : {"TRUE", "FALSE"}]]
      BY <1>26, <3>1, <3>2 DEF SortSheet
    <3> QED
      BY <3>1, <3>3, FunctionIsSeq
  <2> QED
    BY <1>26, <2>1 DEF SortSheet, TypeOK
<1>27. CASE UNCHANGED vars
  BY <1>27 DEF vars, TypeOK
<1> QED
  BY <1>1, <1>2, <1>3, <1>4, <1>5, <1>6, <1>7, <1>8, <1>9, <1>10, <1>11, <1>13, <1>15, <1>16,
     <1>17, <1>18, <1>19, <1>20, <1>21, <1>23, <1>24, <1>25, <1>26, <1>27
  DEF Next, PollStep, DbStep, Environment

\* Every variable of Behaviors keeps its type, and a pass that is under way is at a
\* tunnel of an occupancy device.
THEOREM TypeCorrect == Spec => []TypeOK
BY TypeInit, TypeStep, PTL DEF Spec

-----------------------------------------------------------------------------
(* Signs and LEDs. *)

\* A group that was computed keeps all its members known.
EvaluatedKnown == \A g \in evaluated : GroupKnown(g)

\* A board that is polled is never registered as a sign, so its group is never skipped.
BoardsAreNotSigns == \A b \in Booths \cup Doors : bigsign_states[b] = "unknown"

\* The last LED command of a board is its last state.
LedsFollow == leds = occupancy_states

\* The last command of a sign is its recorded state unless that change was missed.
SignsFollow ==
  \A s \in Signs \ missed :
    signs[s] = IF bigsign_states[s] = "unknown" THEN "vacant" ELSE bigsign_states[s]

\* The inductive invariant.
DisplayInv ==
  /\ TypeOK
  /\ EvaluatedKnown
  /\ BoardsAreNotSigns
  /\ LedsFollow
  /\ SignsFollow
  /\ SignAgrees

\* Before the first pass nothing is computed and nothing shown.
LEMMA DisplayInit == Init => DisplayInv
<1> SUFFICES ASSUME Init PROVE DisplayInv
  OBVIOUS
<1>1. TypeOK
  BY TypeInit
<1>2. BoardsAreNotSigns
  BY DEF Init, BoardsAreNotSigns, Boards
<1>3. SignsFollow
  BY DEF Init, SignsFollow, Boards
<1> QED
  BY <1>1, <1>2, <1>3 DEF Init, DisplayInv, EvaluatedKnown, LedsFollow, SignAgrees

\* Decide changes the state of one board, whose group then lags until it is updated.
LEMMA DecideKeepsDisplays ==
  ASSUME DisplayInv, Decide
  PROVE  EvaluatedKnown' /\ LedsFollow' /\ SignAgrees'
<1> USE DEF config_vars, state_vars, pass_vars, shown_vars, sheet_vars
<1> DEFINE b == tunnel.board
           state == Cell(Occupied(tunnel, seen))
<1>1. b \in Boards /\ state \in States
  BY DEF Decide, IsOccupancyDevice, Boards, Cell, States
<1>2. /\ occupancy_states' = [occupancy_states EXCEPT ![b] = state]
      /\ leds' = [leds EXCEPT ![b] = LedAfter(b, state)]
      /\ poll' = "groups" /\ tunnel' = tunnel
      /\ UNCHANGED <<groups, evaluated, bigsign_states>>
  BY DEF Decide, tunnel
<1>3. poll # "groups"
  BY DEF Decide, AtDecision
<1>4. /\ occupancy_states \in [Boards -> States \cup {"unknown"}]
      /\ leds = occupancy_states
      /\ evaluated \subseteq DOMAIN groups
      /\ \A g \in DOMAIN groups : groups[g].devices \subseteq Boards
  BY GroupFacts DEF DisplayInv, TypeOK, LedsFollow, Boards
<1> HIDE DEF b, state
<1>5. LedsFollow'
  BY <1>1, <1>2, <1>4 DEF LedsFollow, LedAfter
<1>6. EvaluatedKnown'
  BY <1>1, <1>2, <1>4 DEF DisplayInv, EvaluatedKnown, GroupKnown, States
<1>7. SignAgrees'
  <2> SUFFICES ASSUME NEW g \in evaluated, b \notin groups[g].devices
               PROVE  bigsign_states[groups[g].bigsign] = "occupied" <=>
                        \A m \in groups[g].devices : occupancy_states'[m] = "occupied"
    BY <1>2 DEF SignAgrees, Lagging, b
  <2>1. \A m \in groups[g].devices : occupancy_states'[m] = occupancy_states[m]
    BY <1>1, <1>2, <1>4
  <2> QED
    BY <1>3, <2>1 DEF DisplayInv, SignAgrees, Lagging
<1> QED
  BY <1>5, <1>6, <1>7

\* A group whose members are not all known is not among the evaluated ones.
LEMMA UnknownGroupKeepsDisplays ==
  ASSUME DisplayInv, UpdateUnknownGroup
  PROVE  EvaluatedKnown' /\ BoardsAreNotSigns' /\ SignsFollow' /\ SignAgrees'
<1> USE DEF config_vars, state_vars, pass_vars, shown_vars, sheet_vars
<1>1. PICK g \in GroupsOf(tunnel.board) : GroupOf(tunnel.board) = g /\ GroupsOf(tunnel.board) = {g}
  BY OneGroup DEF UpdateUnknownGroup, HasGroup, DisplayInv, TypeOK
<1>2. g \in DOMAIN groups /\ ~ GroupKnown(g) /\ groups[g].bigsign \in Signs
  BY <1>1, GroupFacts DEF UpdateUnknownGroup, GroupsOf, DisplayInv, TypeOK
<1> DEFINE s == groups[g].bigsign
<1>3. /\ bigsign_states' = [bigsign_states EXCEPT ![s] =
                             IF bigsign_states[s] = "unknown" THEN "vacant" ELSE bigsign_states[s]]
      /\ poll' = "loop"
      /\ UNCHANGED <<groups, evaluated, occupancy_states, signs, missed>>
  BY <1>1 DEF UpdateUnknownGroup, NextTunnel
<1>4. /\ bigsign_states \in [Boards -> States \cup {"unknown"}]
      /\ evaluated \subseteq DOMAIN groups
      /\ Signs \cap (Booths \cup Doors) = {} /\ Signs \subseteq Boards
  BY BoardsAssumption DEF DisplayInv, TypeOK, Boards
<1>5. g \notin evaluated
  BY <1>2 DEF DisplayInv, EvaluatedKnown
<1> HIDE DEF s
<1>6. EvaluatedKnown'
  BY <1>3 DEF DisplayInv, EvaluatedKnown, GroupKnown
<1>7. BoardsAreNotSigns' /\ SignsFollow'
  BY <1>2, <1>3, <1>4 DEF DisplayInv, BoardsAreNotSigns, SignsFollow, s, Boards
<1>8. SignAgrees'
  <2> SUFFICES ASSUME NEW h \in evaluated
               PROVE  bigsign_states'[groups[h].bigsign] = "occupied" <=>
                        \A m \in groups[h].devices : occupancy_states[m] = "occupied"
    BY <1>3 DEF SignAgrees, Lagging
  <2>1. h # g /\ groups[h].bigsign # s /\ h \in DOMAIN groups
    BY <1>2, <1>4, <1>5, GroupFacts DEF s, DisplayInv, TypeOK
  <2>2. tunnel.board \notin groups[h].devices
    BY <1>1, <2>1 DEF GroupsOf
  <2>3. bigsign_states'[groups[h].bigsign] = bigsign_states[groups[h].bigsign]
    BY <1>3, <1>4, <2>1
  <2> QED
    BY <2>2, <2>3 DEF DisplayInv, SignAgrees, Lagging
<1> QED
  BY <1>6, <1>7, <1>8

\* The group of the polled board is recomputed; the other groups have other signs.
LEMMA UpdateGroupKeepsDisplays ==
  ASSUME DisplayInv, UpdateGroup
  PROVE  EvaluatedKnown' /\ BoardsAreNotSigns' /\ SignsFollow' /\ SignAgrees'
<1> USE DEF config_vars, state_vars, pass_vars, shown_vars, sheet_vars
<1>1. PICK g \in GroupsOf(tunnel.board) : GroupOf(tunnel.board) = g /\ GroupsOf(tunnel.board) = {g}
  BY OneGroup DEF UpdateGroup, HasGroup, DisplayInv, TypeOK
<1>2. g \in DOMAIN groups /\ GroupKnown(g) /\ groups[g].bigsign \in Signs
  BY <1>1, GroupFacts DEF UpdateGroup, GroupsOf, DisplayInv, TypeOK
<1> DEFINE s == groups[g].bigsign
           before == IF bigsign_states[s] = "unknown" THEN "vacant" ELSE bigsign_states[s]
           now == GroupState(g)
<1>3. /\ bigsign_states' = [bigsign_states EXCEPT ![s] = now]
      /\ evaluated' = evaluated \cup {g}
      /\ poll' = "loop"
      /\ UNCHANGED <<groups, occupancy_states>>
  BY <1>1 DEF UpdateGroup, NextTunnel
<1>4. \/ now = before /\ signs' = signs /\ missed' = missed
      \/ signs' = [signs EXCEPT ![s] = now] /\ missed' = missed \ {s}
      \/ signs' = signs /\ missed' = missed \cup {s}
  BY <1>1 DEF UpdateGroup
<1>5. /\ bigsign_states \in [Boards -> States \cup {"unknown"}]
      /\ signs \in [Signs -> States] /\ now \in States /\ s \in Signs
      /\ evaluated \subseteq DOMAIN groups
      /\ Signs \cap (Booths \cup Doors) = {} /\ Signs \subseteq Boards
      /\ now = "occupied" <=> \A m \in groups[g].devices : occupancy_states[m] = "occupied"
  BY <1>2, BoardsAssumption DEF DisplayInv, TypeOK, Boards, GroupState, Cell, States
<1>6. EvaluatedKnown'
  BY <1>2, <1>3 DEF DisplayInv, EvaluatedKnown, GroupKnown
<1> HIDE DEF now
<1>7. BoardsAreNotSigns'
  BY <1>3, <1>5 DEF DisplayInv, BoardsAreNotSigns, Boards
<1>8. SignsFollow'
  <2> SUFFICES ASSUME NEW t \in Signs, t \notin missed'
               PROVE  signs'[t] = IF bigsign_states'[t] = "unknown" THEN "vacant"
                                  ELSE bigsign_states'[t]
    BY DEF SignsFollow
  <2>1. CASE t = s
    BY <1>3, <1>4, <1>5, <2>1 DEF DisplayInv, SignsFollow, States
  <2>2. CASE t # s
    BY <1>3, <1>4, <1>5, <2>2 DEF DisplayInv, SignsFollow
  <2> QED
    BY <2>1, <2>2
<1>9. SignAgrees'
  <2> SUFFICES ASSUME NEW h \in evaluated'
               PROVE  bigsign_states'[groups[h].bigsign] = "occupied" <=>
                        \A m \in groups[h].devices : occupancy_states[m] = "occupied"
    BY <1>3 DEF SignAgrees, Lagging
  <2>1. CASE h = g
    BY <1>3, <1>5, <2>1
  <2>2. CASE h # g
    <3>1. h \in evaluated /\ h \in DOMAIN groups /\ groups[h].bigsign # s
      BY <1>2, <1>3, <1>5, <2>2, GroupFacts DEF DisplayInv, TypeOK
    <3>2. tunnel.board \notin groups[h].devices
      BY <1>1, <2>2, <3>1 DEF GroupsOf
    <3>3. bigsign_states'[groups[h].bigsign] = bigsign_states[groups[h].bigsign]
      BY <1>3, <1>5, <3>1
    <3> QED
      BY <3>1, <3>2, <3>3 DEF DisplayInv, SignAgrees, Lagging
  <2> QED
    BY <2>1, <2>2
<1> QED
  BY <1>6, <1>7, <1>8, <1>9

\* The board of a pass that is under way does not change under it.
LEMMA PassTunnelStable ==
  ASSUME TypeOK, GoStale, poll = "groups"
  PROVE  tunnel'.board = tunnel.board
<1>1. /\ cursor \in DOMAIN tunnels /\ cursor' = cursor
      /\ \A i \in DOMAIN tunnels : tunnels[i] \in Tunnels
  BY ElementOfSeq, LenProperties DEF TypeOK, GoStale, pass_vars
<1>2. PICK i \in DOMAIN tunnels :
        tunnels' = [tunnels EXCEPT ![i] = [tunnels[i] EXCEPT !.heart = "stale"]]
  BY DEF GoStale
<1> QED
  BY <1>1, <1>2 DEF tunnel, Tunnels

\* Every step keeps what the displays and the recorded states have in common.
LEMMA DisplayStep == DisplayInv /\ [Next]_vars => DisplayInv'
<1> SUFFICES ASSUME DisplayInv, [Next]_vars PROVE DisplayInv'
  OBVIOUS
<1> USE DEF config_vars, state_vars, pass_vars, shown_vars, sheet_vars
<1>1. TypeOK'
  BY TypeStep DEF DisplayInv
<1>2. ASSUME UNCHANGED <<groups, evaluated, state_vars, shown_vars>>,
             poll # "groups" \/ (poll' = "groups" /\ tunnel'.board = tunnel.board)
      PROVE  DisplayInv'
  <2>1. EvaluatedKnown' /\ BoardsAreNotSigns' /\ LedsFollow' /\ SignsFollow'
    BY <1>2 DEF DisplayInv, EvaluatedKnown, GroupKnown, BoardsAreNotSigns, LedsFollow, SignsFollow
  <2>2. SignAgrees'
    BY <1>2 DEF DisplayInv, SignAgrees, Lagging
  <2> QED
    BY <1>1, <2>1, <2>2 DEF DisplayInv
<1>3. CASE DbReadGroups
  <2>1. CASE groups' = groups
    BY <1>2, <1>3, <2>1 DEF DbReadGroups, tunnel
  <2>2. CASE groups' # groups
    BY <1>1, <1>3, <2>2 DEF DbReadGroups, DisplayInv, EvaluatedKnown, BoardsAreNotSigns,
                            LedsFollow, SignsFollow, SignAgrees
  <2> QED
    BY <2>1, <2>2
<1>4. CASE DbLock \/ DbReadRows \/ DbReadDevices \/ DbFail \/ SortSheet
  BY <1>2, <1>4 DEF DbLock, DbReadRows, DbReadDevices, DbFail, SortSheet, tunnel
<1>5. CASE Snapshot \/ ReadWeightThreshold \/ ReadWeightDirection \/ ReadDistanceThreshold \/ Skip
  BY <1>2, <1>5 DEF Snapshot, ReadWeightThreshold, ReadWeightDirection, ReadDistanceThreshold,
                    Skip, AtDecision
<1>6. CASE Decide
  <2>1. EvaluatedKnown' /\ LedsFollow' /\ SignAgrees'
    BY <1>6, DecideKeepsDisplays
  <2>2. BoardsAreNotSigns' /\ SignsFollow'
    BY <1>6 DEF Decide, DisplayInv, BoardsAreNotSigns, SignsFollow
  <2> QED
    BY <1>1, <2>1, <2>2 DEF DisplayInv
<1>7. CASE UpdateNothing
  <2>1. /\ UNCHANGED <<groups, evaluated, state_vars, shown_vars>>
        /\ poll = "groups" /\ poll' = "loop" /\ GroupsOf(tunnel.board) = {}
    BY <1>7 DEF UpdateNothing, NextTunnel, HasGroup, DisplayInv, TypeOK, BoardsAreNotSigns, tunnel
  <2>2. \A g \in evaluated : ~ Lagging(g)
    BY <2>1 DEF GroupsOf, Lagging, DisplayInv, TypeOK
  <2>3. SignAgrees'
    BY <2>1, <2>2 DEF SignAgrees, DisplayInv
  <2>4. EvaluatedKnown' /\ BoardsAreNotSigns' /\ LedsFollow' /\ SignsFollow'
    BY <2>1 DEF DisplayInv, EvaluatedKnown, GroupKnown, BoardsAreNotSigns, LedsFollow, SignsFollow
  <2> QED
    BY <1>1, <2>3, <2>4 DEF DisplayInv
<1>8. CASE UpdateUnknownGroup
  <2>1. LedsFollow'
    BY <1>8 DEF UpdateUnknownGroup, DisplayInv, LedsFollow
  <2> QED
    BY <1>1, <1>8, <2>1, UnknownGroupKeepsDisplays DEF DisplayInv
<1>9. CASE UpdateGroup
  <2>1. LedsFollow'
    BY <1>9 DEF UpdateGroup, DisplayInv, LedsFollow
  <2> QED
    BY <1>1, <1>9, <2>1, UpdateGroupKeepsDisplays DEF DisplayInv
<1>10. CASE EndUnchanged \/ EndWritten \/ EndWriteFailed
  BY <1>2, <1>10 DEF EndUnchanged, EndWritten, EndWriteFailed, EndPass
<1>11. CASE Connect \/ Leave \/ Heartbeat \/ Report
  BY <1>2, <1>11 DEF Connect, Leave, Heartbeat, Report, OnEventLoop
<1>12. CASE GoStale
  BY <1>2, <1>12, PassTunnelStable DEF GoStale, DisplayInv
<1>13. CASE UNCHANGED vars
  BY <1>2, <1>13 DEF vars, tunnel
<1> QED
  BY <1>3, <1>4, <1>5, <1>6, <1>7, <1>8, <1>9, <1>10, <1>11, <1>12, <1>13
  DEF Next, PollStep, DbStep, Environment

\* Once computed, the state of a big sign is the conjunction of its members' states: no
\* interleaving of the polling pass with the thread that replaces the groups breaks it.
THEOREM SignCorrect == Spec => []SignAgrees
<1>1. DisplayInv => SignAgrees
  BY DEF DisplayInv
<1> QED
  BY <1>1, DisplayInit, DisplayStep, PTL DEF Spec

\* LEDs and big signs never tell the visitors different things, except for a sign whose
\* last change found no tunnel to be written to.
THEOREM DisplaysCorrect == Spec => []DisplaysAgree
<1>1. DisplayInv => DisplaysAgree
  <2> SUFFICES ASSUME DisplayInv, NEW g \in evaluated, ~ Lagging(g),
                      groups[g].bigsign \notin missed
               PROVE  signs[groups[g].bigsign] = "occupied" <=>
                        \A b \in groups[g].devices : leds[b] = "occupied"
    BY DEF DisplaysAgree
  <2>1. groups[g].bigsign \in Signs
    BY GroupFacts DEF DisplayInv, TypeOK
  <2>2. signs[groups[g].bigsign] = "occupied" <=> bigsign_states[groups[g].bigsign] = "occupied"
    BY <2>1 DEF DisplayInv, SignsFollow
  <2> QED
    BY <2>2 DEF DisplayInv, SignAgrees, LedsFollow
<1> QED
  BY <1>1, DisplayInit, DisplayStep, PTL DEF Spec
-----------------------------------------------------------------------------
(* The sheet. *)

\* The cell of a board that the pass has found live holds its state in the list, every other
\* cell a value read from the sheet.
ListHolds ==
  \A i \in DOMAIN board_ids :
    /\ FoundLive(i) => occupancies[i] = occupancy_states[board_ids[i]]
    /\ ~ FoundLive(i) => occupancies[i] \in {"TRUE", "FALSE"}

\* While a row is not behind, the sheet has the order of the rows read last and of the
\* snapshot, and the row's cell shows what the list written last has for it.
InStep ==
  \A i \in DOMAIN sheet \ behind :
    /\ board_ids = Ids(sheet) /\ Ids(rows) = Ids(sheet)
    /\ i \in DOMAIN prev_occupancy_row
    /\ sheet[i].occupied = Shown(prev_occupancy_row[i])

\* Between two passes the list counts as written.
ListKept == poll = "sleep" => occupancies = prev_occupancy_row

SheetInv == ListHolds /\ InStep /\ ListKept

\* At first there is no list, and every row is behind.
LEMMA SheetInit == Init => SheetInv
BY DEF Init, SheetInv, ListHolds, InStep, ListKept

\* The rows of a table, the ids of a table and the list of occupancies.
LEMMA TableFacts ==
  ASSUME TypeOK
  PROVE  /\ DOMAIN sheet = 1 .. Len(sheet) /\ Len(sheet) \in Nat
         /\ DOMAIN Ids(sheet) = DOMAIN sheet
         /\ \A i \in DOMAIN sheet : Ids(sheet)[i] = sheet[i].id
         /\ \A i \in DOMAIN sheet : sheet[i] \in [id : Boards, occupied : {"TRUE", "FALSE"}]
         /\ DOMAIN occupancies = DOMAIN board_ids
         /\ DOMAIN board_ids = 1 .. Len(board_ids) /\ Len(board_ids) \in Nat
         /\ \A i \in DOMAIN board_ids : board_ids[i] \in Boards
<1>1. DOMAIN sheet = 1 .. Len(sheet) /\ Len(sheet) \in Nat
  BY LenProperties DEF TypeOK
<1>2. \A i \in DOMAIN sheet : sheet[i] \in [id : Boards, occupied : {"TRUE", "FALSE"}]
  BY <1>1, ElementOfSeq DEF TypeOK
<1>3. DOMAIN Ids(sheet) = DOMAIN sheet /\ \A i \in DOMAIN sheet : Ids(sheet)[i] = sheet[i].id
  BY DEF Ids
<1>4. DOMAIN board_ids = 1 .. Len(board_ids) /\ Len(board_ids) \in Nat
  BY LenProperties DEF TypeOK
<1>5. DOMAIN occupancies = 1 .. Len(board_ids)
  BY LenProperties DEF TypeOK
<1>6. \A i \in DOMAIN board_ids : board_ids[i] \in Boards
  BY <1>4, ElementOfSeq DEF TypeOK
<1> QED
  BY <1>1, <1>2, <1>3, <1>4, <1>5, <1>6

\* The row of a board that has one is the first that bears its id.
LEMMA RowFacts ==
  ASSUME TypeOK, NEW b \in Range(board_ids)
  PROVE  RowOf(b) \in DOMAIN board_ids /\ board_ids[RowOf(b)] = b
<1> DEFINE T == {i \in DOMAIN board_ids : board_ids[i] = b}
<1>1. T \subseteq Nat /\ T # {}
  BY TableFacts DEF Range
<1>2. PICK i \in T : \A j \in T : i <= j
  BY <1>1, SmallestInSet
<1>3. \E k \in DOMAIN board_ids :
        board_ids[k] = b /\ \A j \in DOMAIN board_ids : board_ids[j] = b => k <= j
  BY <1>2
<1> QED
  BY <1>3 DEF RowOf

\* The parts of SheetInv are what SheetAgrees needs.
LEMMA SheetImplies == TypeOK /\ SheetInv => SheetAgrees
<1> SUFFICES ASSUME TypeOK, SheetInv, poll = "sleep", NEW i \in DOMAIN sheet \ behind
             PROVE  /\ sheet[i].id = board_ids[i]
                    /\ sheet[i].occupied = IF FoundLive(i)
                                          THEN Shown(occupancy_states[board_ids[i]])
                                          ELSE occupancies[i]
  BY DEF SheetAgrees
<1>1. /\ board_ids = Ids(sheet)
      /\ sheet[i].occupied = Shown(occupancies[i])
  BY DEF SheetInv, InStep, ListKept
<1>2. sheet[i].id = board_ids[i] /\ i \in DOMAIN board_ids
  BY <1>1, TableFacts
<1>3. /\ FoundLive(i) => occupancies[i] = occupancy_states[board_ids[i]]
      /\ ~ FoundLive(i) => occupancies[i] \in {"TRUE", "FALSE"}
  BY <1>2 DEF SheetInv, ListHolds
<1>4. occupancies[i] \in {"TRUE", "FALSE"} => Shown(occupancies[i]) = occupancies[i]
  BY DEF Shown
<1> QED
  BY <1>1, <1>2, <1>3, <1>4

\* A poll sets the cell of the board's first row; the cells of other boards stay right.
LEMMA DecideKeepsList ==
  ASSUME TypeOK, SheetInv, Decide
  PROVE  ListHolds'
<1> USE DEF config_vars, state_vars, pass_vars, shown_vars, sheet_vars
<1> DEFINE b == tunnel.board
           state == Cell(Occupied(tunnel, seen))
<1>1. /\ UNCHANGED board_ids /\ b \in Boards
      /\ occupancy_states' = [occupancy_states EXCEPT ![b] = state]
      /\ occupancies' = IF b \in Range(board_ids)
                        THEN [occupancies EXCEPT ![RowOf(b)] = state]
                        ELSE occupancies
      /\ polled' = polled \cup ({b} \cap Range(board_ids))
  BY DEF Decide, AtDecision, IsOccupancyDevice, Boards
<1> HIDE DEF b, state
<1>2. occupancy_states \in [Boards -> States \cup {"unknown"}]
  BY DEF TypeOK
<1> SUFFICES ASSUME NEW i \in DOMAIN board_ids
             PROVE  /\ FoundLive(i)' => occupancies'[i] = occupancy_states'[board_ids[i]]
                    /\ ~ FoundLive(i)' => occupancies'[i] \in {"TRUE", "FALSE"}
  BY <1>1 DEF ListHolds
<1>3. /\ i \in DOMAIN occupancies /\ board_ids[i] \in Boards
      /\ board_ids[i] \in Range(board_ids)
  BY TableFacts DEF Range
<1>4. FoundLive(i)' <=> board_ids[i] \in polled' /\ RowOf(board_ids[i]) = i
  BY <1>1 DEF FoundLive, RowOf
<1>5. CASE board_ids[i] = b
  <2>1. board_ids[i] \in polled' /\ b \in Range(board_ids)
    BY <1>1, <1>3, <1>5
  <2>2. CASE RowOf(b) = i
    <3>1. occupancies'[i] = state /\ occupancy_states'[board_ids[i]] = state
      BY <1>1, <1>2, <1>3, <1>5, <2>1, <2>2
    <3> QED
      BY <1>4, <1>5, <2>1, <2>2, <3>1
  <2>3. CASE RowOf(b) # i
    <3>1. occupancies'[i] = occupancies[i]
      BY <1>1, <1>3, <2>1, <2>3
    <3>2. ~ FoundLive(i) /\ ~ FoundLive(i)'
      BY <1>4, <1>5, <2>3 DEF FoundLive
    <3> QED
      BY <3>1, <3>2 DEF SheetInv, ListHolds
  <2> QED
    BY <2>2, <2>3
<1>6. CASE board_ids[i] # b
  <2>1. FoundLive(i)' <=> FoundLive(i)
    BY <1>1, <1>4, <1>6 DEF FoundLive
  <2>2. b \in Range(board_ids) => RowOf(b) # i
    BY <1>6, RowFacts
  <2>3. occupancies'[i] = occupancies[i]
    BY <1>1, <1>3, <2>2
  <2>4. occupancy_states'[board_ids[i]] = occupancy_states[board_ids[i]]
    BY <1>1, <1>2, <1>3, <1>6
  <2> QED
    BY <2>1, <2>3, <2>4 DEF SheetInv, ListHolds
<1> QED
  BY <1>5, <1>6

\* A list that is written while all are in step leaves no row behind; one that is not leaves
\* behind the cells in which it differs from the list before.
LEMMA EndKeepsSheet ==
  ASSUME TypeOK, SheetInv, EndUnchanged \/ EndWritten \/ EndWriteFailed
  PROVE  SheetInv'
<1> USE DEF config_vars, state_vars, pass_vars, shown_vars, sheet_vars
<1>1. /\ poll' = "sleep"
      /\ UNCHANGED <<rows, occupancy_states, board_ids, occupancies, polled>>
      /\ occupancies = prev_occupancy_row'
  BY DEF EndUnchanged, EndWritten, EndWriteFailed, EndPass
<1>2. ListHolds' /\ ListKept'
  BY <1>1 DEF SheetInv, ListHolds, ListKept, FoundLive, RowOf
<1>3. CASE EndUnchanged
  <2>1. UNCHANGED <<sheet, prev_occupancy_row, behind>>
    BY <1>3 DEF EndUnchanged
  <2> QED
    BY <1>1, <1>2, <2>1 DEF SheetInv, InStep, Ids
<1>4. CASE EndWriteFailed
  <2>1. UNCHANGED sheet /\ behind' = behind \cup {i \in DOMAIN sheet : Differs(i)}
    BY <1>4 DEF EndWriteFailed
  <2>2. \A i \in DOMAIN sheet \ behind' :
          i \in DOMAIN occupancies /\ occupancies[i] = prev_occupancy_row[i]
    BY <2>1 DEF Differs
  <2>3. InStep'
    BY <1>1, <2>1, <2>2 DEF SheetInv, InStep, Ids
  <2> QED
    BY <1>2, <2>3 DEF SheetInv
<1>5. CASE EndWritten
  <2>1. /\ sheet' = [i \in DOMAIN sheet |-> Written(i)]
        /\ behind' = IF board_ids = Ids(sheet) /\ Ids(rows) = Ids(sheet)
                     THEN {} ELSE DOMAIN sheet
    BY <1>5 DEF EndWritten
  <2>2. \A i \in DOMAIN sheet : sheet'[i].id = sheet[i].id
    BY <2>1, TableFacts DEF Written
  <2>3. Ids(sheet)' = Ids(sheet) /\ Ids(rows)' = Ids(rows) /\ DOMAIN sheet' = DOMAIN sheet
    BY <1>1, <2>1, <2>2 DEF Ids
  <2>4. ASSUME NEW i \in DOMAIN sheet, i \notin behind'
        PROVE  /\ board_ids = Ids(sheet) /\ Ids(rows) = Ids(sheet)
               /\ i \in DOMAIN occupancies
               /\ sheet'[i].occupied = Shown(occupancies[i])
    <3>1. board_ids = Ids(sheet) /\ Ids(rows) = Ids(sheet)
      BY <2>1, <2>4
    <3>2. i \in DOMAIN occupancies
      BY <3>1, TableFacts
    <3> QED
      BY <2>1, <3>1, <3>2, TableFacts DEF Written
  <2>5. InStep'
    BY <1>1, <2>3, <2>4 DEF InStep
  <2> QED
    BY <1>2, <2>5 DEF SheetInv
<1> QED
  BY <1>3, <1>4, <1>5

\* Every step keeps the sheet, the rows and the list in step.
LEMMA SheetStep == TypeOK /\ SheetInv /\ [Next]_vars => SheetInv'
<1> SUFFICES ASSUME TypeOK, SheetInv, [Next]_vars PROVE SheetInv'
  OBVIOUS
<1> USE DEF config_vars, state_vars, pass_vars, shown_vars, sheet_vars
\* Most steps of a pass, and all but one of the environment, touch nothing of this.
<1>a. ASSUME UNCHANGED <<occupancies, board_ids, rows, occupancy_states, sheet_vars>>,
             poll' = "sleep" => poll = "sleep"
      PROVE  SheetInv'
  BY <1>a DEF SheetInv, ListHolds, InStep, ListKept, FoundLive, RowOf, Ids
<1>1. CASE DbLock \/ DbReadGroups \/ DbReadDevices \/ DbFail \/ GoStale \/ UNCHANGED vars
  BY <1>1, <1>a DEF DbLock, DbReadGroups, DbReadDevices, DbFail, GoStale, vars
<1>2. CASE DbReadRows
  <2>1. /\ rows' = sheet
        /\ UNCHANGED <<occupancies, board_ids, occupancy_states, sheet_vars, poll>>
    BY <1>2 DEF DbReadRows
  <2> QED
    BY <2>1 DEF SheetInv, ListHolds, InStep, ListKept, FoundLive, RowOf, Ids
<1>3. CASE Snapshot
  <2>1. /\ poll' = "loop" /\ polled' = {}
        /\ board_ids' = Ids(rows) /\ occupancies' = [i \in DOMAIN rows |-> rows[i].occupied]
        /\ UNCHANGED <<rows, sheet, prev_occupancy_row, behind>>
    BY <1>3 DEF Snapshot
  <2>2. \A i \in DOMAIN rows : rows[i].occupied \in {"TRUE", "FALSE"}
    <3>1. DOMAIN rows = 1 .. Len(rows)
      BY LenProperties DEF TypeOK
    <3>2. \A i \in 1 .. Len(rows) : rows[i] \in [id : Boards, occupied : {"TRUE", "FALSE"}]
      BY ElementOfSeq DEF TypeOK
    <3> QED
      BY <3>1, <3>2
  <2>3. ListHolds'
    <3>1. DOMAIN board_ids' = DOMAIN rows
      BY <2>1 DEF Ids
    <3> QED
      BY <2>1, <2>2, <3>1 DEF ListHolds, FoundLive
  <2> QED
    BY <2>1, <2>3 DEF SheetInv, InStep, ListKept, Ids
<1>4. CASE ReadWeightThreshold \/ ReadWeightDirection \/ ReadDistanceThreshold \/ Skip
           \/ UpdateNothing \/ UpdateUnknownGroup \/ UpdateGroup
  BY <1>4, <1>a DEF ReadWeightThreshold, ReadWeightDirection, ReadDistanceThreshold, Skip,
    AtDecision, UpdateNothing, UpdateUnknownGroup, UpdateGroup, NextTunnel
<1>5. CASE Decide
  <2>1. /\ poll' # "sleep"
        /\ UNCHANGED <<board_ids, rows, sheet, prev_occupancy_row, behind>>
    BY <1>5 DEF Decide
  <2>2. InStep' /\ ListKept'
    BY <2>1 DEF SheetInv, InStep, ListKept, Ids
  <2> QED
    BY <1>5, <2>2, DecideKeepsList DEF SheetInv
<1>6. CASE EndUnchanged \/ EndWritten \/ EndWriteFailed
  BY <1>6, EndKeepsSheet
<1>7. CASE Connect \/ Leave \/ Heartbeat \/ Report
  BY <1>7, <1>a DEF Connect, Leave, Heartbeat, Report, OnEventLoop
<1>8. CASE SortSheet
  <2>1. /\ DOMAIN sheet' = DOMAIN sheet /\ behind' = DOMAIN sheet
        /\ UNCHANGED <<occupancies, board_ids, occupancy_states, polled, poll,
                       prev_occupancy_row>>
    BY <1>8 DEF SortSheet
  <2> QED
    BY <2>1 DEF SheetInv, ListHolds, InStep, ListKept, FoundLive, RowOf
<1> QED
  BY <1>1, <1>2, <1>3, <1>4, <1>5, <1>6, <1>7, <1>8 DEF Next, PollStep, DbStep, Environment

\* Written by position and only when the list has changed, the "occupied" column shows after
\* a pass the state of every board that the pass found live, and elsewhere what the snapshot
\* had; except in cells that a failed write was to change and in rows that have moved, until
\* a list is written in the order of the rows again.
THEOREM SheetCorrect == Spec => []SheetAgrees
BY TypeInit, TypeStep, SheetInit, SheetStep, SheetImplies, PTL DEF Spec
=============================================================================
