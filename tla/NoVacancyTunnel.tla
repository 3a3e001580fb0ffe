-------------------------- MODULE NoVacancyTunnel --------------------------
(***************************************************************************)
(* novacancy/tunnel_client.py: what the host knows about one connected     *)
(* board (a NoVacancyTunnelClient) and how it turns the sensor readings    *)
(* into an occupancy.  No state of its own: Behaviors keeps a sequence of  *)
(* the records defined here.                                               *)
(*                                                                         *)
(* A board is a member of Booths, Doors or Signs (DeviceType; the type     *)
(* comes with the first heartbeat, together with the id).  Readings are    *)
(* integers; a distance of 0 stands for every distance of at most 0.1.     *)
(***************************************************************************)
EXTENDS Integers

CONSTANTS
  Booths, Doors, Signs,  \* board ids, by the type the board was built for
  Weights, Distances,    \* the readings a booth may report
  DefaultSetting         \* the thresholds of a board without a row in the sheet

Boards == Booths \cup Doors \cup Signs

\* A booth's row of the "devices" sheet.
Settings == [weight : Int, above : BOOLEAN, distance : Int]

ASSUME BoardsAssumption ==
  /\ Booths \cap Doors = {}
  /\ Signs \cap (Booths \cup Doors) = {}

ASSUME ReadingsAssumption ==
  /\ Weights \subseteq Int /\ 0 \in Weights
  /\ Distances \subseteq Nat /\ 0 \in Distances
  /\ DefaultSetting \in Settings

\* What a tunnel remembers of its board: "silent" until the first heartbeat
\* (board_id is "" and the tunnel counts as stale), then "fresh" or "stale".
Tunnels == [board : Boards, heart : {"silent", "fresh", "stale"},
            weight : Weights, distance : Distances, latch : BOOLEAN]

NewTunnel(b) ==
  [board |-> b, heart |-> "silent", weight |-> 0, distance |-> 0, latch |-> FALSE]

IsStale(t) == t.heart # "fresh"

\* Mutant of IsOccupancyDevice: the device type is not looked at.
AnyDevice(t) == TRUE
IsOccupancyDevice(t) == t.board \in Booths \cup Doors
HasId(t, b) == t.heart # "silent" /\ t.board = b

\* Handlers of packet_callback, one per category of packet.
Heart(t) == [t EXCEPT !.heart = "fresh"]
Weight(t, w) == [t EXCEPT !.weight = w]
Dist(t, d) == [t EXCEPT !.distance = d]
Latch(t, l) == [t EXCEPT !.latch = l]

\* get_occupancy for a booth, given the three thresholds it has read.
BoothOccupied(t, setting) ==
  \/ IF setting.above THEN t.weight > setting.weight ELSE t.weight < setting.weight
  \/ 0 < t.distance /\ t.distance < setting.distance

Occupied(t, setting) ==
  IF t.board \in Booths THEN BoothOccupied(t, setting) ELSE t.latch

\* get_nested_default on a devices configuration: a board without a row has the
\* default thresholds.
SettingOf(config, b) ==
  IF b \in DOMAIN config THEN config[b] ELSE DefaultSetting
=============================================================================
