--------------------------- MODULE TunnelFactory ---------------------------
(***************************************************************************)
(* TunnelSocketFactory (lib/tunnel/socket/server.py): how connections of   *)
(* boards become tunnels, are read in turn, stop and are removed.          *)
(*                                                                         *)
(*   the accept thread  takes connections from the kernel's backlog and    *)
(*                      puts them on a queue;                              *)
(*   update             a task of the event loop: _check_clients (remove   *)
(*                      stopped tunnels, drain the queue), then one read   *)
(*                      per tunnel, with an await after each;              *)
(*   writers            other tasks that write to a tunnel while update    *)
(*                      awaits; a failed write stops the tunnel;           *)
(*   boards             connect, close, vanish and connect again           *)
(*                      (check_connection in firmware/src/tunnel/          *)
(*                      socket.cpp).                                       *)
(*                                                                         *)
(* A connection is <<board, k>>: the board's k-th, used again once it is   *)
(* gone on both sides.                                                     *)
(***************************************************************************)
EXTENDS Naturals, Sequences, Functions

CONSTANTS Boards,
          MaxConns,    \* bound on the connections of one board that somebody remembers
          MaxBacklog   \* connections the kernel keeps for listen(0)

ASSUME FactoryAssumption == MaxConns \in Nat \ {0} /\ MaxBacklog \in Nat \ {0}

Conns == Boards \X (1 .. MaxConns)
Owner(c) == c[1]

VARIABLES
  backlog,   \* established, not accepted yet
  queue,     \* _clients_queue
  tunnels,   \* self.tunnels
  running,   \* the tunnels whose is_running is set
  link,      \* what became of a connection
  task,      \* where update is
  index,     \* its loops' index into tunnels, counted from 0 as in the code
  delete_indices,
  pops,      \* how many of delete_indices the round still has to pop
  factory    \* "running", "stopped" by stop(), or "raised" an IndexError

sweep_vars == <<index, delete_indices, pops>>
vars == <<backlog, queue, tunnels, running, link, task, sweep_vars, factory>>

\* "up"       both ends are open,
\* "closed"   the board closed it: the host reads the end of the stream,
\* "gone"     the board vanished: the host reads nothing until recv times out,
\* "dropped"  the host dropped its end: the board finds it closed, or silent for longer
\*            than PING_TIMEOUT.
Links == {"none", "up", "closed", "gone", "dropped"}

Init ==
  /\ backlog = << >> /\ queue = << >> /\ tunnels = << >>
  /\ running = {}
  /\ link = [c \in Conns |-> "none"]
  /\ task = "awaiting"
  /\ index = 0 /\ delete_indices = << >> /\ pops = 0
  /\ factory = "running"

Connected(b) == \E c \in Conns : Owner(c) = b /\ link[c] \in {"up", "dropped"}

-----------------------------------------------------------------------------
(* Boards. *)

Dial(b) ==
  /\ factory = "running" /\ Len(backlog) < MaxBacklog
  /\ ~ Connected(b)
  /\ \E c \in Conns :
       /\ Owner(c) = b /\ link[c] = "none"
       /\ link' = [link EXCEPT ![c] = "up"]
       /\ backlog' = Append(backlog, c)
  /\ UNCHANGED <<queue, tunnels, running, task, sweep_vars, factory>>

LinkBreaks(from, to) ==
  /\ \E c \in Conns : link[c] = from /\ link' = [link EXCEPT ![c] = to]
  /\ UNCHANGED <<backlog, queue, tunnels, running, task, sweep_vars, factory>>

\* No ping for PING_TIMEOUT: connect() first closes the old connection.  Or a reset.
BoardCloses == LinkBreaks("up", "closed")
\* Power or radio lost: nothing is sent any more, not even a FIN.
BoardVanishes == LinkBreaks("up", "gone")
BoardNotices == LinkBreaks("dropped", "none")

-----------------------------------------------------------------------------
(* The accept thread. *)

Accept ==
  /\ factory = "running" /\ backlog # << >>
  /\ queue' = Append(queue, Head(backlog))
  /\ backlog' = Tail(backlog)
  /\ UNCHANGED <<tunnels, running, link, task, sweep_vars, factory>>

-----------------------------------------------------------------------------
(* _check_clients.  The loop that pops delete_indices is nested in the enumeration, and  *)
(* the indices are never cleared: every later round pops the same positions again, from  *)
(* a list that has moved up.  The enumeration ends when its index reaches the length the *)
(* list has by then.                                                                     *)

CheckClients ==
  /\ factory = "running" /\ task = "awaiting"
  /\ task' = "enumerate"
  /\ UNCHANGED <<backlog, queue, tunnels, running, link, sweep_vars, factory>>

\* Mutants of Noted: the stopped tunnel is forgotten; indices counted from one too few.
NoneNoted == delete_indices
PreviousNoted == Append(delete_indices, index - 1)
Noted == Append(delete_indices, index)

Visit ==
  /\ factory = "running" /\ task = "enumerate" /\ index < Len(tunnels)
  /\ delete_indices' = IF tunnels[index + 1] \in running THEN delete_indices ELSE Noted
  /\ pops' = Len(delete_indices')
  /\ task' = "pop"
  /\ UNCHANGED <<backlog, queue, tunnels, running, link, index, factory>>

\* Mutant of Victim: delete_indices is walked from the front.
VictimForward == delete_indices[Len(delete_indices) + 1 - pops]
\* delete_indices[::-1]
Victim == delete_indices[pops]

\* Mutant of Remove: the tunnel after the one that stopped.
RemoveNext(i) == SubSeq(tunnels, 1, i + 1) \o SubSeq(tunnels, i + 3, Len(tunnels))
Remove(i) == SubSeq(tunnels, 1, i) \o SubSeq(tunnels, i + 2, Len(tunnels))

\* A tunnel that is removed from the list is garbage: its socket is closed, or held
\* without a reader by the local variables of the accept thread.
LinkAfter(c) == IF link[c] = "up" THEN "dropped" ELSE "none"

Popped(i) ==
  /\ tunnels' = Remove(i)
  /\ running' = running \ {tunnels[i + 1]}
  /\ link' = [link EXCEPT ![tunnels[i + 1]] = LinkAfter(tunnels[i + 1])]
  /\ UNCHANGED factory

\* "pop index out of range": the exception ends the update task and with it the session.
PopRaises ==
  /\ factory' = "raised"
  /\ UNCHANGED <<tunnels, running, link>>

Pop ==
  /\ factory = "running" /\ task = "pop" /\ pops > 0
  /\ IF Victim < Len(tunnels) THEN Popped(Victim) ELSE PopRaises
  /\ pops' = pops - 1
  /\ UNCHANGED <<backlog, queue, task, index, delete_indices>>

NextRound ==
  /\ factory = "running" /\ task = "pop" /\ pops = 0
  /\ index' = index + 1
  /\ task' = "enumerate"
  /\ UNCHANGED <<backlog, queue, tunnels, running, link, delete_indices, pops, factory>>

\* Mutant of Started: the new tunnels are appended without a call of start.
NoneStarted == running
Started == running \cup Range(queue)

\* The enumeration is over, its locals are gone; the queue is emptied, the reading begins.
Drain ==
  /\ factory = "running" /\ task = "enumerate" /\ index >= Len(tunnels)
  /\ tunnels' = tunnels \o queue
  /\ running' = Started
  /\ queue' = << >>
  /\ task' = "read"
  /\ index' = 0 /\ delete_indices' = << >>
  /\ UNCHANGED <<backlog, link, pops, factory>>

-----------------------------------------------------------------------------
(* update: one read per tunnel. *)

\* Read by read the event loop gets its turn; at the end of the list update returns.
Reading == factory = "running" /\ task = "read" /\ index < Len(tunnels)
tunnel == tunnels[index + 1]

ReadNext ==
  /\ index' = index + 1
  /\ UNCHANGED <<backlog, queue, tunnels, link, task, delete_indices, pops, factory>>

\* A stopped tunnel reads nothing; a running one whose board sends, packets.
Read ==
  /\ Reading
  /\ tunnel \in running => link[tunnel] = "up"
  /\ ReadNext
  /\ UNCHANGED running

StopTunnel(c) == running' = running \ {c}

\* recv returns b"" or raises.
ReadEnds ==
  /\ Reading
  /\ tunnel \in running /\ link[tunnel] \in {"closed", "gone"}
  /\ ReadNext
  /\ StopTunnel(tunnel)

\* recv times out on a board that is merely silent, say while it plays a file.
ReadTimesOut ==
  /\ Reading
  /\ tunnel \in running /\ link[tunnel] = "up"
  /\ ReadNext
  /\ StopTunnel(tunnel)

ReadDone ==
  /\ factory = "running" /\ task = "read" /\ index >= Len(tunnels)
  /\ task' = "awaiting" /\ index' = 0
  /\ UNCHANGED <<backlog, queue, tunnels, running, link, delete_indices, pops, factory>>

EventLoopFree == factory = "running" /\ task \in {"awaiting", "read"}

\* sendall raises, in whatever task writes to the tunnel.
WriteFails ==
  /\ EventLoopFree
  /\ \E c \in running : link[c] \in {"closed", "gone"} /\ StopTunnel(c)
  /\ UNCHANGED <<backlog, queue, tunnels, link, task, sweep_vars, factory>>

\* The session ends: the accept thread leaves its loop, every tunnel stops.
Stop ==
  /\ EventLoopFree
  /\ factory' = "stopped"
  /\ running' = {}
  /\ UNCHANGED <<backlog, queue, tunnels, link, task, sweep_vars>>

\* Nothing happens in a session that has ended.
Ended == factory # "running" /\ UNCHANGED vars

-----------------------------------------------------------------------------

Update ==
  \/ CheckClients \/ Visit \/ Pop \/ NextRound \/ Drain
  \/ Read \/ ReadEnds \/ ReadTimesOut \/ ReadDone

Next ==
  \/ \E b \in Boards : Dial(b)
  \/ BoardCloses \/ BoardVanishes \/ BoardNotices
  \/ Accept \/ Update \/ WriteFails \/ Stop \/ Ended

Spec == Init /\ [][Next]_vars

\* The thread and the task run in endless loops; a recv returns after ten seconds at the
\* latest; a board tries to connect until it succeeds.
FairSpec ==
  /\ Spec
  /\ WF_vars(Accept) /\ WF_vars(Update)
  /\ WF_vars(BoardNotices) /\ \A b \in Boards : WF_vars(Dial(b))

-----------------------------------------------------------------------------
(* Properties. *)

\* Every variable has its type; an index of a loop over tunnels is never negative.
TypeOK ==
  /\ backlog \in Seq(Conns) /\ queue \in Seq(Conns) /\ tunnels \in Seq(Conns)
  /\ running \subseteq Conns
  /\ link \in [Conns -> Links]
  /\ task \in {"awaiting", "enumerate", "pop", "read"}
  /\ index \in Nat /\ pops \in Nat
  /\ delete_indices \in Seq(Nat)
  /\ factory \in {"running", "stopped", "raised"}

Held == Range(backlog) \cup Range(queue) \cup Range(tunnels)

\* A connection is in one place at a time, and once; the host holds exactly those that
\* are open at its end, and only tunnels run.
Conserved ==
  /\ IsInjective(backlog \o queue \o tunnels)
  /\ \A c \in Conns : link[c] \in {"up", "closed", "gone"} <=> c \in Held
  /\ running \subseteq Range(tunnels)

\* Popping the same positions again, from a list that has already moved up, never runs
\* past its end: the update task is not ended by an IndexError.
NeverRaises == factory # "raised"

\* A stopped tunnel does not stay in the list for ever, although one sweep can miss it.
Reaped ==
  \A c \in Conns :
    c \in Range(tunnels) \ running ~> c \notin Range(tunnels) \/ factory # "running"

Served(b) ==
  \E c \in running : Owner(c) = b /\ link[c] = "up"

\* When the boards stop leaving, every one of them ends up with a tunnel that is read,
\* whatever live tunnels the sweep has thrown away on the way.
EventuallyServed ==
  <>[][~ (BoardCloses \/ BoardVanishes \/ ReadTimesOut)]_vars =>
    <>[](factory # "running" \/ \A b \in Boards : Served(b))

\* "Call this in a loop to read all buffered data and run callbacks" (update in
\* lib/tunnel/client.py): while a tunnel runs and its board is connected, update keeps it.
LiveTunnelKept ==
  [][\A c \in running : link[c] = "up" => c \in Range(tunnels')]_vars
=============================================================================
