------------------------------ MODULE NoVacancy ------------------------------
(***************************************************************************)
(* The whole system under faults: the polling pass of novacancy/           *)
(* behaviors.py over the tunnels of TunnelSocketFactory, the boards that   *)
(* obey its commands (loop and setup of firmware/src/main.cpp), and the    *)
(* session that ends and is started again (lib/session.py, main.py,        *)
(* systemd).                                                               *)
(*                                                                         *)
(* Boards lose their connections, reboot, and connect again while the host *)
(* still holds their dead tunnels; commands are written once and may be    *)
(* lost; the host forgets everything when it ends.                         *)
(*                                                                         *)
(* The pass is in steps of one tunnel: nothing of the event loop comes in  *)
(* between, boards and time do.  The configuration stays as it is: module  *)
(* Behaviors changes it.                                                   *)
(***************************************************************************)
EXTENDS NoVacancyTunnel, SequencesExt

CONSTANTS
  MaxTunnels,   \* bound on the tunnels the factory holds
  MaxDead,      \* bound on those whose link is dead
  Groups        \* the "groups" sheet: a set of [bigsign, devices]

ASSUME SystemAssumption ==
  /\ MaxTunnels \in Nat /\ MaxDead \in Nat /\ Doors = {}
  /\ \A g \in Groups : g.bigsign \in Signs /\ g.devices \subseteq Booths
  /\ \A g, h \in Groups : g # h =>
       g.bigsign # h.bigsign /\ g.devices \cap h.devices = {}

VARIABLES
  host,      \* "up", "ending" once ask_exit has cancelled its tasks, or "down"
  tunnels,   \* tunnel_factory.tunnels, each with whether its link still works
  occupancy_states, bigsign_states,
  cursor,    \* the tunnel the pass is at, 0 between two passes
  load,      \* what is on a booth's scale
  shown,     \* a booth's LEDs, a sign's relay
  amiss      \* history: the boards that missed a command, or forgot what they were told,
             \* and the signs of which the host has forgotten what they were told

memory == <<occupancy_states, bigsign_states>>
displays == <<shown, amiss>>
vars == <<host, tunnels, memory, cursor, load, displays>>

Links == [up : BOOLEAN, tunnel : Tunnels]
States == {"vacant", "occupied"}
Nothing == [b \in Boards |-> "unknown"]
Cell(occupied) == IF occupied THEN "occupied" ELSE "vacant"

\* What setup leaves on: IDLE_COLOR, or the relay low.
Initially(b) == IF b \in Booths THEN "idle" ELSE "vacant"

Init ==
  /\ host = "up" /\ tunnels = << >>
  /\ occupancy_states = Nothing /\ bigsign_states = Nothing
  /\ cursor = 0
  /\ load \in [Booths -> Weights]
  /\ shown = [b \in Boards |-> Initially(b)]
  /\ amiss = {}

Live(b) == {i \in DOMAIN tunnels : tunnels[i].up /\ tunnels[i].tunnel.board = b}
Dead == {i \in DOMAIN tunnels : ~ tunnels[i].up}

-----------------------------------------------------------------------------
(* One pass of poll_occupancy. *)

Begin ==
  /\ host = "up" /\ cursor = 0
  /\ cursor' = 1
  /\ UNCHANGED <<host, tunnels, memory, load, displays>>

At(i) == cursor = i /\ i \in DOMAIN tunnels
tunnel == tunnels[cursor].tunnel
Polled(t) == ~ IsStale(t) /\ IsOccupancyDevice(t)

\* Mutant of NextTunnel: the loop passes over a tunnel.
SkipOne == cursor' = cursor + 2
NextTunnel == cursor' = cursor + 1

\* Mutant of PassOver: the loop ends at a tunnel that is not polled (break, not continue).
PassOverEndsLoop ==
  /\ At(cursor) /\ ~ Polled(tunnel)
  /\ cursor' = Len(tunnels) + 1
  /\ UNCHANGED <<host, tunnels, memory, load, displays>>

PassOver ==
  /\ At(cursor) /\ ~ Polled(tunnel)
  /\ NextTunnel
  /\ UNCHANGED <<host, tunnels, memory, load, displays>>

StatesAfter(b, state) == [occupancy_states EXCEPT ![b] = state]

\* A sign nobody has computed yet is taken for one that shows "Vacancy".
SignBefore(s) == IF bigsign_states[s] = "unknown" THEN "vacant" ELSE bigsign_states[s]

\* update_groups with all(states); a group with a member not seen yet keeps its sign.
SignAfter(g, states) ==
  IF \E d \in g.devices : states[d] = "unknown" THEN SignBefore(g.bigsign)
  ELSE Cell(\A d \in g.devices : states[d] = "occupied")

\* get_tunnel: the first tunnel with this id, whether its link works or not.
TunnelsOf(s) == {i \in DOMAIN tunnels : HasId(tunnels[i].tunnel, s)}
GetTunnel(s) == CHOOSE i \in TunnelsOf(s) : \A j \in TunnelsOf(s) : i <= j

Reaches(i) == tunnels[i].up
\* Mutant of LedCommand: a board seen for the first time counts as unchanged.
LedIfKnown(b, state) ==
  IF occupancy_states[b] \in {state, "unknown"} THEN {} ELSE {[board |-> b, show |-> state]}
LedCommand(b, state) ==
  IF occupancy_states[b] = state THEN {} ELSE {[board |-> b, show |-> state]}

\* Mutant of SignCommands: the state is stored before it is compared.
SignStored(changed, states) == {}
SignCommands(changed, states) ==
  {[board |-> g.bigsign, show |-> SignAfter(g, states)] : g \in
     {h \in changed : SignAfter(h, states) # SignBefore(h.bigsign)}}

\* set_led goes to the tunnel that was polled, set_bigsign to the one get_tunnel finds.
Arrives(c) ==
  IF c.board \in Booths THEN Reaches(cursor)
  ELSE TunnelsOf(c.board) # {} /\ Reaches(GetTunnel(c.board))

\* Commands are written once.  One that the board fails to read (deaf) is lost, and so is
\* one written to a tunnel whose link is dead or to a sign without a tunnel.
Tell(commands, deaf) ==
  LET heard == {c \in commands : Arrives(c)} \ deaf
      To(cs) == {c.board : c \in cs}
  IN  /\ deaf \subseteq {c \in commands : Arrives(c)}
      /\ shown' = [b \in Boards |->
                     IF \E c \in heard : c.board = b
                     THEN (CHOOSE c \in heard : c.board = b).show ELSE shown[b]]
      /\ amiss' = (amiss \ To(heard)) \cup To(commands \ heard)

Poll(losing) ==
  LET b == tunnel.board
      state == Cell(Occupied(tunnel, DefaultSetting))
      states == StatesAfter(b, state)
      groups == {g \in Groups : b \in g.devices}
      commands == LedCommand(b, state) \cup SignCommands(groups, states)
  IN  /\ At(cursor) /\ Polled(tunnel)
      /\ \E deaf \in SUBSET commands : (deaf # {} <=> losing) /\ Tell(commands, deaf)
      /\ occupancy_states' = states
      /\ bigsign_states' = [s \in Boards |->
           IF \E g \in groups : g.bigsign = s
           THEN SignAfter(CHOOSE g \in groups : g.bigsign = s, states) ELSE bigsign_states[s]]
      /\ NextTunnel
      /\ UNCHANGED <<host, tunnels, load>>

\* The row is written to the sheet (module Behaviors); the task sleeps.
End ==
  /\ cursor > Len(tunnels)
  /\ cursor' = 0
  /\ UNCHANGED <<host, tunnels, memory, load, displays>>

-----------------------------------------------------------------------------
(* What runs on the event loop between two passes: the factory and the callbacks. *)

EventLoop == host = "up" /\ cursor = 0 /\ UNCHANGED <<host, memory, cursor, load, displays>>

\* Mutant of Joined: new tunnels are put in front.
JoinedFirst(link) == <<link>> \o tunnels
Joined(link) == Append(tunnels, link)

\* A board without a working connection dials until it has one.
Connect(b) ==
  /\ EventLoop
  /\ Live(b) = {} /\ Len(tunnels) < MaxTunnels
  /\ tunnels' = Joined([up |-> TRUE, tunnel |-> NewTunnel(b)])

Heartbeat(b) ==
  /\ EventLoop
  /\ \E i \in Live(b) : tunnels' = [tunnels EXCEPT ![i].tunnel = Heart(@)]

Report(b) ==
  /\ EventLoop
  /\ b \in Booths
  /\ \E i \in Live(b) : tunnels' = [tunnels EXCEPT ![i].tunnel = Weight(@, load[b])]

\* The end of the stream, or a recv that times out; then the sweep.
Reap ==
  /\ EventLoop
  /\ \E i \in Dead : tunnels' = RemoveAt(tunnels, i)

\* A sweep that pops a position twice, or a recv that times out on a busy board.
DropLive ==
  /\ EventLoop
  /\ \E i \in DOMAIN tunnels \ Dead : tunnels' = RemoveAt(tunnels, i)

-----------------------------------------------------------------------------
(* Time and the boards, at any moment. *)

GoStale(up) ==
  /\ \E i \in DOMAIN tunnels :
       /\ Polled(tunnels[i].tunnel) /\ tunnels[i].up = up
       /\ tunnels' = [tunnels EXCEPT ![i].tunnel.heart = "stale"]
  /\ UNCHANGED <<host, memory, cursor, load, displays>>

\* Somebody enters a booth or leaves it.
Weigh ==
  /\ \E b \in Booths, w \in Weights : w # load[b] /\ load' = [load EXCEPT ![b] = w]
  /\ UNCHANGED <<host, tunnels, memory, cursor, displays>>

\* The link of board b ends; the host learns of it later.  MaxDead bounds how many tunnels
\* with a dead link wait for the sweep.
Cut(b) ==
  /\ Cardinality(Dead \cup Live(b)) <= MaxDead
  /\ tunnels' = [i \in DOMAIN tunnels |-> [tunnels[i] EXCEPT !.up = @ /\ i \notin Live(b)]]

\* No ping for too long, a reset, the radio.
LinkEnds(b) ==
  /\ Live(b) # {}
  /\ Cut(b)
  /\ UNCHANGED <<host, memory, cursor, load, displays>>

\* The loop that connects again gives a booth its idle colour after a failed attempt.
GoIdle(b) ==
  /\ b \in Booths /\ Live(b) = {}
  /\ shown' = [shown EXCEPT ![b] = "idle"]
  /\ amiss' = amiss \cup {b}
  /\ UNCHANGED <<host, tunnels, memory, cursor, load>>

\* setup: a sign that is not meant to show "No Vacancy" forgets nothing.
Reboot(b) ==
  /\ Cut(b)
  /\ shown' = [shown EXCEPT ![b] = Initially(b)]
  /\ amiss' = IF b \in Booths \/ bigsign_states[b] = "occupied" THEN amiss \cup {b} ELSE amiss
  /\ UNCHANGED <<host, memory, cursor, load>>

-----------------------------------------------------------------------------
(* Session.run: the tasks are gathered; the first that ends with an exception or a *)
(* cancellation ends the run, stop closes the tunnels, and systemd starts again.   *)

\* SIGINT or SIGTERM: every task is cancelled at its next await.
AskExit ==
  /\ host = "up"
  /\ host' = "ending"
  /\ UNCHANGED <<tunnels, memory, cursor, load, displays>>

\* A booth's board is told again when it is seen again, a sign only when it changes.
Forgotten == amiss \cup {s \in Signs : shown[s] = "occupied"}

EndHost ==
  /\ host' = "down"
  /\ tunnels' = << >> /\ cursor' = 0
  /\ occupancy_states' = Nothing /\ bigsign_states' = Nothing
  /\ amiss' = Forgotten
  /\ UNCHANGED <<load, shown>>

RunEnds == host = "ending" /\ cursor = 0 /\ EndHost

\* A task raises, in a pass or between two; or the power fails.
HostFails == host # "down" /\ EndHost

Restart ==
  /\ host = "down"
  /\ host' = "up"
  /\ UNCHANGED <<tunnels, memory, cursor, load, displays>>

-----------------------------------------------------------------------------

Pass == Begin \/ PassOver \/ (\E losing \in BOOLEAN : Poll(losing)) \/ End
Served(b) == Connect(b) \/ Heartbeat(b) \/ Report(b)
Session == AskExit \/ RunEnds \/ HostFails \/ Restart

Faults(b) == LinkEnds(b) \/ GoIdle(b) \/ Reboot(b)

Next ==
  \/ Pass \/ Session
  \/ Reap \/ DropLive \/ Weigh
  \/ \E up \in BOOLEAN : GoStale(up)
  \/ \E b \in Boards : Served(b) \/ Faults(b)

Spec == Init /\ [][Next]_vars

\* The tasks of the event loop take turns: between two passes, which are a second apart,
\* packets are read, connections taken and dead tunnels removed (module TunnelFactory).  A
\* board dials, sends heartbeats and reports in an endless loop.
FairSpec ==
  /\ Spec
  /\ WF_vars(Pass) /\ SF_vars(Reap)
  /\ WF_vars(RunEnds) /\ WF_vars(Restart)
  /\ \A b \in Boards : SF_vars(Served(b))

-----------------------------------------------------------------------------
(* Properties. *)

\* Every variable has its type.
TypeOK ==
  /\ host \in {"up", "ending", "down"}
  /\ tunnels \in Seq(Links) /\ Len(tunnels) <= MaxTunnels
  /\ occupancy_states \in [Boards -> States \cup {"unknown"}]
  /\ bigsign_states \in [Boards -> States \cup {"unknown"}]
  /\ cursor \in 0 .. MaxTunnels + 1
  /\ load \in [Booths -> Weights]
  /\ shown \in [Boards -> States \cup {"idle"}]
  /\ amiss \subseteq Boards

\* Commands are written once, on a change, to whichever tunnel the code finds.  Through
\* restarts of the host, dead tunnels and reconnections a display agrees with the state
\* recorded for it, unless its last command was lost, the board was reset since, or the
\* host forgot a sign it had told "No Vacancy".
DisplaysFollow ==
  /\ \A b \in Booths :
       b \in amiss \/ occupancy_states[b] = "unknown" \/ shown[b] = occupancy_states[b]
  /\ \A s \in Signs : s \in amiss \/ shown[s] = SignBefore(s)

\* A board that connects again may have several fresh tunnels, with different readings, in
\* one pass; the recorded state changes to and fro.  At the end of the pass it is the one
\* that the readings of the board's working tunnel mean.
NewestCounts ==
  cursor = Len(tunnels) + 1 =>
    \A b \in Booths : \A i \in Live(b) :
      Polled(tunnels[i].tunnel) =>
        occupancy_states[b] = Cell(Occupied(tunnels[i].tunnel, DefaultSetting))

Fault == \/ DropLive \/ GoStale(TRUE) \/ AskExit \/ HostFails \/ Poll(TRUE)
         \/ \E b \in Boards : Faults(b)
FaultsStop == <>[][~ Fault]_vars

\* However boards and host have failed: when they fail no more and nobody moves, every
\* booth's state becomes what is on its scale, and every sign's that of its group.
Truthful ==
  FaultsStop /\ <>[][load' = load]_load =>
    /\ \A b \in Booths :
         <>[](occupancy_states[b] = Cell(Occupied(Weight(NewTunnel(b), load[b]), DefaultSetting)))
    /\ \A g \in Groups : <>[](cursor = 0 =>
         (bigsign_states[g.bigsign] = "occupied" <=>
            \A b \in g.devices : occupancy_states[b] = "occupied"))

\* Nothing sends a lost command again.  The next change heals the display: a board whose
\* state goes on changing shows it in the end, whatever it has missed before.
Heals ==
  FaultsStop =>
    /\ \A b \in Booths :
         []<><<occupancy_states'[b] # occupancy_states[b]>>_vars => <>[](b \notin amiss)
    /\ \A s \in Signs :
         []<><<SignBefore(s)' # SignBefore(s)>>_vars => <>[](s \notin amiss)
=============================================================================
