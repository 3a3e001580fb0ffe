----------------------------- MODULE Behaviors -----------------------------
(***************************************************************************)
(* novacancy/behaviors.py: the polling pass that turns the boards'         *)
(* readings into LED commands, big sign commands and cells of the Google   *)
(* sheet, against the daemon thread that re-reads the sheet.               *)
(*                                                                         *)
(* Two processes share rows_lock, rows and config:                         *)
(*   poll_occupancy  a task of the event loop.  It has no await inside a   *)
(*                   pass, so nothing else of the event loop (packets,     *)
(*                   connections) runs between its steps, but the thread   *)
(*                   does: the thresholds are read without the lock.       *)
(*   poll_db         a thread.  It holds rows_lock during its three reads. *)
(* The boards and the people who edit the sheet are the environment.       *)
(*                                                                         *)
(* leds and signs hold the last command written for a board; what a lossy  *)
(* link does to a command is the subject of module TunnelClient.           *)
(***************************************************************************)
EXTENDS NoVacancyTunnel, Sequences, Functions

CONSTANTS
  MaxTunnels,     \* bound on the tunnels connected at the same time
  Roster,         \* the board ids of the "database" sheet, in the order of its rows
  GroupConfigs,   \* what a read of the "groups" sheet may return
  DeviceConfigs   \* what a read of the "devices" sheet may return

States == {"vacant", "occupied"}

\* A group is [bigsign, devices]; a configuration lists them in the order in which
\* the sheet does.  The configurations of interest give every board and every sign
\* to at most one group, and never use one id as both.
ASSUME GroupsAssumption ==
  \A config \in GroupConfigs :
    /\ config \in Seq([bigsign : Signs, devices : SUBSET (Booths \cup Doors)])
    /\ \A g, h \in DOMAIN config : g # h =>
         /\ config[g].bigsign # config[h].bigsign
         /\ config[g].devices \cap config[h].devices = {}

ASSUME DevicesAssumption ==
  /\ \A config \in DeviceConfigs :
       DOMAIN config \subseteq Booths /\ \A b \in DOMAIN config : config[b] \in Settings
  /\ << >> \in GroupConfigs /\ << >> \in DeviceConfigs
  /\ Roster \in Seq(Boards) /\ MaxTunnels \in Nat

VARIABLES
  tunnels,            \* tunnel_factory.tunnels
  rows,               \* self.rows: the rows of the sheet as last read
  groups, devices,    \* self.config.groups and self.config.devices
  occupancy_states, bigsign_states, prev_occupancy_row,
  poll,               \* where poll_occupancy is
  cursor,             \* the tunnel its loop is at
  board_ids, occupancies, \* its locals
  seen,               \* the thresholds get_occupancy has read so far
  db,                 \* where poll_db is; it holds rows_lock unless it sleeps
  sheet,              \* the "id" and "occupied" columns of the Google sheet
  leds, signs,        \* the last command written for a board
  evaluated,          \* history: groups computed since the group configuration changed
  missed,             \* history: signs whose last change found no tunnel
  polled,             \* history: boards with a row that this pass has found live
  behind              \* history: rows whose cell a failed write was to change, or all rows
                      \* once they have moved; a write in the order of the rows clears it

config_vars == <<rows, groups, devices>>
state_vars == <<occupancy_states, bigsign_states>>
pass_vars == <<poll, cursor, board_ids, occupancies, seen>>
shown_vars == <<leds, signs, missed>>
sheet_vars == <<sheet, prev_occupancy_row, polled, behind>>
vars == <<tunnels, config_vars, state_vars, pass_vars, db, shown_vars, sheet_vars, evaluated>>

RowsLockFree == db = "sleep"

Ids(table) == [i \in DOMAIN table |-> table[i].id]

\* str() of a cell read from the sheet differs from the bool a live board yields, so
\* the row compares unequal even where the sheet shows the same.
Cell(occupied) == IF occupied THEN "occupied" ELSE "vacant"
\* Mutant of Shown: only the cells of live boards are formatted as booleans.
ShownLive(cell) == IF cell = "occupied" THEN "TRUE" ELSE "FALSE"
Shown(cell) == IF cell \in {"occupied", "TRUE"} THEN "TRUE" ELSE "FALSE"

Init ==
  /\ tunnels = << >>
  /\ rows = << >>
  /\ groups \in GroupConfigs /\ devices \in DeviceConfigs
  /\ occupancy_states = [b \in Boards |-> "unknown"]
  /\ bigsign_states = [b \in Boards |-> "unknown"]
  /\ prev_occupancy_row = << >>
  /\ poll = "sleep" /\ cursor = 1
  /\ board_ids = << >> /\ occupancies = << >>
  /\ seen = DefaultSetting
  /\ db = "sleep"
  /\ sheet = [i \in DOMAIN Roster |-> [id |-> Roster[i], occupied |-> "FALSE"]]
  /\ leds = [b \in Boards |-> "unknown"]
  /\ signs = [s \in Signs |-> "vacant"]
  /\ evaluated = {} /\ missed = {}
  /\ polled = {} /\ behind = DOMAIN sheet

-----------------------------------------------------------------------------
(* poll_db, the daemon thread. *)

DbLock ==
  /\ RowsLockFree
  /\ db' = "rows"
  /\ UNCHANGED <<tunnels, config_vars, state_vars, pass_vars, shown_vars, sheet_vars, evaluated>>

DbReadRows ==
  /\ db = "rows"
  /\ rows' = sheet
  /\ db' = "groups"
  /\ UNCHANGED <<tunnels, groups, devices, state_vars, pass_vars, shown_vars, sheet_vars,
                 evaluated>>

DbReadGroups ==
  /\ db = "groups"
  /\ groups' \in GroupConfigs
  /\ evaluated' = IF groups' = groups THEN evaluated ELSE {}
  /\ db' = "devices"
  /\ UNCHANGED <<tunnels, rows, devices, state_vars, pass_vars, shown_vars, sheet_vars>>

\* Mutant of DbReadDevices: the thread sleeps before it leaves the with block.
DbNeverUnlocks ==
  /\ db = "devices"
  /\ devices' \in DeviceConfigs
  /\ db' = "rows"
  /\ UNCHANGED <<tunnels, rows, groups, state_vars, pass_vars, shown_vars, sheet_vars, evaluated>>

DbReadDevices ==
  /\ db = "devices"
  /\ devices' \in DeviceConfigs
  /\ db' = "sleep"
  /\ UNCHANGED <<tunnels, rows, groups, state_vars, pass_vars, shown_vars, sheet_vars, evaluated>>

\* Any of the three reads may raise: the ones before it keep their effect.
DbFail ==
  /\ db # "sleep"
  /\ db' = "sleep"
  /\ UNCHANGED <<tunnels, config_vars, state_vars, pass_vars, shown_vars, sheet_vars, evaluated>>

-----------------------------------------------------------------------------
(* poll_occupancy, one pass over the tunnels. *)

tunnel == tunnels[cursor]
Looping == cursor \in DOMAIN tunnels

\* The pass begins with a copy of the rows, taken under the lock.
Snapshot ==
  /\ poll = "sleep" /\ RowsLockFree
  /\ board_ids' = Ids(rows)
  /\ occupancies' = [i \in DOMAIN rows |-> rows[i].occupied]
  /\ cursor' = 1
  /\ poll' = "loop"
  /\ polled' = {}
  /\ UNCHANGED <<tunnels, config_vars, state_vars, seen, db, shown_vars,
                 sheet, prev_occupancy_row, behind, evaluated>>

\* get_occupancy of a booth reads config.devices three times without the lock.
ReadWeightThreshold ==
  /\ poll = "loop" /\ Looping
  /\ tunnel.heart # "silent" /\ tunnel.board \in Booths
  /\ seen' = [seen EXCEPT !.weight = SettingOf(devices, tunnel.board).weight]
  /\ poll' = "direction"
  /\ UNCHANGED <<tunnels, config_vars, state_vars, cursor, board_ids, occupancies,
                 db, shown_vars, sheet_vars, evaluated>>

ReadWeightDirection ==
  /\ poll = "direction"
  /\ seen' = [seen EXCEPT !.above = SettingOf(devices, tunnel.board).above]
  /\ poll' = "distance"
  /\ UNCHANGED <<tunnels, config_vars, state_vars, cursor, board_ids, occupancies,
                 db, shown_vars, sheet_vars, evaluated>>

ReadDistanceThreshold ==
  /\ poll = "distance"
  /\ seen' = [seen EXCEPT !.distance = SettingOf(devices, tunnel.board).distance]
  /\ poll' = "decide"
  /\ UNCHANGED <<tunnels, config_vars, state_vars, cursor, board_ids, occupancies,
                 db, shown_vars, sheet_vars, evaluated>>

\* A door, a sign and a silent tunnel need no thresholds.
AtDecision ==
  \/ poll = "decide"
  \/ poll = "loop" /\ Looping /\ (tunnel.heart = "silent" \/ tunnel.board \notin Booths)

\* A stale tunnel and a sign are passed over.
Skip ==
  /\ AtDecision
  /\ IsStale(tunnel) \/ ~ IsOccupancyDevice(tunnel)
  /\ cursor' = cursor + 1
  /\ poll' = "loop"
  /\ UNCHANGED <<tunnels, config_vars, state_vars, board_ids, occupancies, seen,
                 db, shown_vars, sheet_vars, evaluated>>

\* list.index: the first row with this board's id.
RowOf(b) == CHOOSE i \in DOMAIN board_ids :
              /\ board_ids[i] = b
              /\ \A j \in DOMAIN board_ids : board_ids[j] = b => i <= j

\* Mutant of LedAfter: a board seen for the first time counts as unchanged.
LedIfKnown(b, state) ==
  IF occupancy_states[b] \in {state, "unknown"} THEN leds[b] ELSE state

\* A board seen for the first time counts as changed, so its LED is always set.
LedAfter(b, state) == IF occupancy_states[b] = state THEN leds[b] ELSE state

Decide ==
  LET b == tunnel.board
      state == Cell(Occupied(tunnel, seen))
  IN  /\ AtDecision
      /\ ~ IsStale(tunnel) /\ IsOccupancyDevice(tunnel)
      /\ leds' = [leds EXCEPT ![b] = LedAfter(b, state)]
      /\ occupancy_states' = [occupancy_states EXCEPT ![b] = state]
      /\ occupancies' = IF b \in Range(board_ids)
                        THEN [occupancies EXCEPT ![RowOf(b)] = state]
                        ELSE occupancies
      /\ polled' = polled \cup ({b} \cap Range(board_ids))
      /\ poll' = "groups"
      /\ UNCHANGED <<tunnels, config_vars, bigsign_states, cursor, board_ids, seen,
                     db, signs, missed, sheet, prev_occupancy_row, behind, evaluated>>

\* get_group_name, get_board_bigsign and get_group_ids: the first group of the
\* configuration that lists the board.
GroupsOf(b) == {g \in DOMAIN groups : b \in groups[g].devices}
GroupOf(b) == CHOOSE g \in GroupsOf(b) : \A h \in GroupsOf(b) : g <= h

\* A board that is registered as a sign has no group to update.
HasGroup(b) == bigsign_states[b] = "unknown" /\ GroupsOf(b) # {}

\* all(states), defined once every member has been seen.
GroupKnown(g) == \A b \in groups[g].devices : occupancy_states[b] # "unknown"
\* Mutant of GroupState: any(states).
GroupStateAny(g) == Cell(\E b \in groups[g].devices : occupancy_states[b] = "occupied")
GroupState(g) == Cell(\A b \in groups[g].devices : occupancy_states[b] = "occupied")

Connected(s) == \E i \in DOMAIN tunnels : HasId(tunnels[i], s)

NextTunnel == poll' = "loop" /\ cursor' = cursor + 1

\* update_groups takes rows_lock: the event loop waits while the thread reads.
UpdateNothing ==
  /\ poll = "groups" /\ RowsLockFree
  /\ ~ HasGroup(tunnel.board)
  /\ NextTunnel
  /\ UNCHANGED <<tunnels, config_vars, state_vars, board_ids, occupancies, seen,
                 db, shown_vars, sheet_vars, evaluated>>

\* The sign is registered as vacant even if its state cannot be computed yet.
UpdateUnknownGroup ==
  LET g == GroupOf(tunnel.board) IN
  /\ poll = "groups" /\ RowsLockFree
  /\ HasGroup(tunnel.board) /\ ~ GroupKnown(g)
  /\ bigsign_states' = [bigsign_states EXCEPT ![groups[g].bigsign] =
                          IF @ = "unknown" THEN "vacant" ELSE @]
  /\ NextTunnel
  /\ UNCHANGED <<tunnels, config_vars, occupancy_states, board_ids, occupancies, seen,
                 db, shown_vars, sheet_vars, evaluated>>

\* A changed state is recorded whether or not there was a tunnel to write it to.
UpdateGroup ==
  LET g == GroupOf(tunnel.board)
      s == groups[g].bigsign
      before == IF bigsign_states[s] = "unknown" THEN "vacant" ELSE bigsign_states[s]
      changed == GroupState(g) # before
  IN  /\ poll = "groups" /\ RowsLockFree
      /\ HasGroup(tunnel.board) /\ GroupKnown(g)
      /\ signs' = IF changed /\ Connected(s) THEN [signs EXCEPT ![s] = GroupState(g)] ELSE signs
      /\ missed' = IF ~ changed THEN missed
                   ELSE IF Connected(s) THEN missed \ {s} ELSE missed \cup {s}
      /\ bigsign_states' = [bigsign_states EXCEPT ![s] = GroupState(g)]
      /\ evaluated' = evaluated \cup {g}
      /\ NextTunnel
      /\ UNCHANGED <<tunnels, config_vars, occupancy_states, board_ids, occupancies, seen,
                     db, leds, sheet_vars>>

\* The pass ends.  Only a row that differs from the previous one is written ...
EndPass ==
  /\ poll = "loop" /\ ~ Looping
  /\ poll' = "sleep"
  /\ UNCHANGED <<tunnels, config_vars, state_vars, cursor, board_ids, occupancies, seen,
                 db, shown_vars, evaluated>>

EndUnchanged ==
  /\ EndPass
  /\ occupancies = prev_occupancy_row
  /\ UNCHANGED sheet_vars

\* ... by position, down the column, whatever the rows are by then ...
Differs(i) ==
  \/ i \notin DOMAIN occupancies \cap DOMAIN prev_occupancy_row
  \/ occupancies[i] # prev_occupancy_row[i]

\* Mutant of Written: only the cells that differ from the previous list are written.
WrittenIfDifferent(i) ==
  IF i \in DOMAIN occupancies /\ Differs(i)
  THEN [sheet[i] EXCEPT !.occupied = Shown(occupancies[i])] ELSE sheet[i]
Written(i) ==
  IF i \in DOMAIN occupancies
  THEN [sheet[i] EXCEPT !.occupied = Shown(occupancies[i])] ELSE sheet[i]

EndWritten ==
  /\ EndPass
  /\ occupancies # prev_occupancy_row
  /\ sheet' = [i \in DOMAIN sheet |-> Written(i)]
  /\ prev_occupancy_row' = occupancies
  /\ behind' = IF board_ids = Ids(sheet) /\ Ids(rows) = Ids(sheet) THEN {} ELSE DOMAIN sheet
  /\ UNCHANGED polled

\* ... and it counts as written even if the write raised.
EndWriteFailed ==
  /\ EndPass
  /\ occupancies # prev_occupancy_row
  /\ prev_occupancy_row' = occupancies
  /\ behind' = behind \cup {i \in DOMAIN sheet : Differs(i)}
  /\ UNCHANGED <<sheet, polled>>

-----------------------------------------------------------------------------
(* The environment.  Whatever runs on the event loop runs between two passes. *)

OnEventLoop ==
  /\ poll = "sleep"
  /\ UNCHANGED <<config_vars, state_vars, pass_vars, db, shown_vars, sheet_vars, evaluated>>

\* TunnelSocketFactory appends a new tunnel and drops any (module TunnelFactory).
Connect ==
  /\ OnEventLoop
  /\ Len(tunnels) < MaxTunnels
  /\ \E b \in Boards : tunnels' = Append(tunnels, NewTunnel(b))

Leave ==
  /\ OnEventLoop
  /\ \E i \in DOMAIN tunnels :
       tunnels' = SubSeq(tunnels, 1, i - 1) \o SubSeq(tunnels, i + 1, Len(tunnels))

Heartbeat ==
  /\ OnEventLoop
  /\ \E i \in DOMAIN tunnels : tunnels' = [tunnels EXCEPT ![i] = Heart(@)]

Report ==
  /\ OnEventLoop
  /\ \E i \in DOMAIN tunnels :
       \/ /\ tunnels[i].board \in Booths
          /\ \/ \E w \in Weights : tunnels' = [tunnels EXCEPT ![i] = Weight(@, w)]
             \/ \E d \in Distances : tunnels' = [tunnels EXCEPT ![i] = Dist(@, d)]
       \/ /\ tunnels[i].board \in Doors
          /\ \E l \in BOOLEAN : tunnels' = [tunnels EXCEPT ![i] = Latch(@, l)]

\* More than two heartbeat intervals have passed; this may happen during a pass.
GoStale ==
  /\ \E i \in DOMAIN tunnels :
       /\ tunnels[i].heart = "fresh"
       /\ tunnels' = [tunnels EXCEPT ![i].heart = "stale"]
  /\ UNCHANGED <<config_vars, state_vars, pass_vars, db, shown_vars, sheet_vars, evaluated>>

\* Somebody sorts the sheet: the rows move with their cells.
SortSheet ==
  /\ \E order \in [DOMAIN sheet -> DOMAIN sheet] :
       /\ IsInjective(order)
       /\ sheet' = [i \in DOMAIN sheet |-> sheet[order[i]]]
  /\ behind' = DOMAIN sheet
  /\ UNCHANGED <<tunnels, config_vars, state_vars, pass_vars, db, shown_vars,
                 prev_occupancy_row, polled, evaluated>>

-----------------------------------------------------------------------------

PollStep ==
  \/ Snapshot \/ ReadWeightThreshold \/ ReadWeightDirection \/ ReadDistanceThreshold
  \/ Skip \/ Decide \/ UpdateNothing \/ UpdateUnknownGroup \/ UpdateGroup
  \/ EndUnchanged \/ EndWritten \/ EndWriteFailed
DbStep == DbLock \/ DbReadRows \/ DbReadGroups \/ DbReadDevices \/ DbFail
Environment == Connect \/ Leave \/ Heartbeat \/ Report \/ GoStale \/ SortSheet

Next == PollStep \/ DbStep \/ Environment

Spec == Init /\ [][Next]_vars

\* Both loops keep running.  poll_db sleeps for five seconds outside the lock in every
\* round, so a poll that waits for rows_lock finds it free again and again.
FairSpec == Spec /\ SF_vars(PollStep) /\ WF_vars(DbStep)

-----------------------------------------------------------------------------
(* Properties. *)

Cells == States \cup {"TRUE", "FALSE"}

\* Every variable has its type; a pass that is under way is at a tunnel.
TypeOK ==
  /\ tunnels \in Seq(Tunnels) /\ Len(tunnels) <= MaxTunnels
  /\ rows \in Seq([id : Boards, occupied : {"TRUE", "FALSE"}])
  /\ sheet \in Seq([id : Boards, occupied : {"TRUE", "FALSE"}])
  /\ groups \in GroupConfigs /\ devices \in DeviceConfigs
  /\ occupancy_states \in [Boards -> States \cup {"unknown"}]
  /\ bigsign_states \in [Boards -> States \cup {"unknown"}]
  /\ prev_occupancy_row \in Seq(Cells)
  /\ board_ids \in Seq(Boards) /\ occupancies \in Seq(Cells)
  /\ Len(board_ids) = Len(occupancies)
  /\ seen \in Settings
  /\ cursor \in 1 .. (MaxTunnels + 1)
  /\ poll \in {"sleep", "loop", "direction", "distance", "decide", "groups"}
  /\ poll \notin {"sleep", "loop"} =>
       cursor \in DOMAIN tunnels /\ tunnels[cursor].board \in Booths \cup Doors
  /\ db \in {"sleep", "rows", "groups", "devices"}
  /\ leds \in [Boards -> States \cup {"unknown"}]
  /\ signs \in [Signs -> States] /\ missed \subseteq Signs
  /\ evaluated \subseteq DOMAIN groups
  /\ polled \subseteq Boards /\ behind \subseteq DOMAIN sheet

\* Between deciding a board's occupancy and updating its group, that group lags.
Lagging(g) == poll = "groups" /\ tunnel.board \in groups[g].devices

\* The state of a big sign is recomputed only for the group of the board just polled,
\* under a lock the polling thread may have to wait for and against a configuration the
\* other thread replaces.  Once computed it stays the conjunction of its members' states.
SignAgrees ==
  \A g \in evaluated :
    \/ Lagging(g)
    \/ bigsign_states[groups[g].bigsign] = "occupied" <=>
         \A b \in groups[g].devices : occupancy_states[b] = "occupied"

\* What the visitors see agrees: unless its last change found no tunnel, a big sign was
\* told "No Vacancy" exactly when every board of its group was told to show "occupied".
\* Nothing resends a LED pattern or a sign state that once got lost.
DisplaysAgree ==
  \A g \in evaluated :
    \/ Lagging(g)
    \/ groups[g].bigsign \in missed
    \/ signs[groups[g].bigsign] = "occupied" <=>
         \A b \in groups[g].devices : leds[b] = "occupied"

\* The row whose cell the pass has set: the first of a board that it found live.
FoundLive(i) == board_ids[i] \in polled /\ RowOf(board_ids[i]) = i

\* The "occupied" column is written by position, from a snapshot of the rows, and only when
\* the list differs from the one before, whether or not that one could be written.  After a
\* pass the row of every board the pass found live shows the board's state, and every other
\* row what the snapshot had, be it older than what is known of its board.  Excepted are the
\* cells that a failed write was to change and rows that have moved; the first list that is
\* written when the snapshot and the rows have the order of the sheet makes up for these.
SheetAgrees ==
  poll = "sleep" =>
    \A i \in DOMAIN sheet \ behind :
      /\ sheet[i].id = board_ids[i]
      /\ sheet[i].occupied = IF FoundLive(i) THEN Shown(occupancy_states[board_ids[i]])
                                             ELSE occupancies[i]

AtMostOneFresh(b) ==
  \A i, j \in DOMAIN tunnels :
    (\A k \in {i, j} : tunnels[k].board = b /\ tunnels[k].heart = "fresh") => i = j

\* Every board that still reports shows what its readings mean under the current
\* thresholds, and so does the sign of its group once the whole group is known.
Settled ==
  \A i \in DOMAIN tunnels :
    LET b == tunnels[i].board
        state == Cell(Occupied(tunnels[i], SettingOf(devices, b)))
    IN  tunnels[i].heart = "fresh" /\ b \notin Signs /\ AtMostOneFresh(b) =>
          /\ occupancy_states[b] = state /\ leds[b] = state
          /\ \A g \in GroupsOf(b) :
               GroupKnown(g) /\ (\A m \in groups[g].devices : AtMostOneFresh(m)) =>
                 g \in evaluated /\ bigsign_states[groups[g].bigsign] = GroupState(g)

\* A pass may mix the thresholds of two configurations and decide a state that neither
\* justifies.  Such errors do not last: when the boards and the sheet's configuration
\* stop changing, every display becomes right and stays right.
Converges ==
  <>[][UNCHANGED <<tunnels, groups, devices>>]_vars => <>[]Settled
=============================================================================
