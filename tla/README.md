# NoVacancy in TLA+

NoVacancy tells visitors which booths (and doors) of a building are free. A
board in every booth reports weight, distance or a latch; a host decides which
are occupied, lights the booth's LED, switches a big sign ("Vacancy" / "No
Vacancy") for each group of booths, and writes a column of a Google sheet that a
web page reads. This directory holds TLA+ models of the host and of its protocol
with the boards, TLC configurations that check them on small instances, and
proofs, checked by TLAPS, of theorems about them for instances of every size.

To check a module: `tlc -config <cfg> <module>`; to check its proofs:
`tlapm <module>Proofs.tla`.

## 1. The system

### Components, their state and operations

| component | code | state | operations |
|---|---|---|---|
| Behaviors | `novacancy/behaviors.py` | `occupancy_states`, `bigsign_states`, `prev_occupancy_row`, `rows`, `config.groups`, `config.devices`, `rows_lock` | the task `poll_occupancy`, with `update_groups`; the thread `poll_db` |
| NoVacancyTunnelClient | `novacancy/tunnel_client.py` | board id and type, last heartbeat, weight, distance, latch | `packet_callback`, `get_occupancy`, `is_stale`, `set_led`, `set_bigsign` |
| Google sheet access | `novacancy/google_sheets.py` | none (the sheet) | three reads, one positional write |
| TunnelSocketFactory, TunnelSocketServer | `lib/tunnel/socket/server.py` | `tunnels`, `_clients_queue`, `is_running` of each tunnel | the accepting thread, `_check_clients`, `update`, `_read`, `_write`, `stop` |
| TunnelBaseClient | `lib/tunnel/client.py`, `handshake.py`, `result.py` | `buffer`, `pending_handshakes`, `pending_gets` | `update`, `check_handshakes`, `handle_result`, `write`, `write_handshake`, `get` |
| TunnelProtocol | `lib/tunnel/protocol.py`, `firmware/src/tunnel/protocol.cpp` | packet counts of both directions | `make_packet`, `parse_buffer`, `parse_packet`; `makePacket`, `parsePacket` |
| Firmware | `firmware/src/tunnel/socket.cpp`, `firmware/src/main.cpp` | connection, ping timer, counts, what it shows | `check_connection`, `readPacket`, `writePacket`, `loop` |
| Session, main | `lib/session.py`, `main.py` | asyncio tasks | `run`, `stop`, `ask_exit`; the tasks `update_tunnel`, `ping_tunnel` |
| RecursiveNamespace, Config | `lib/recursive_namespace.py`, `lib/config.py` | a nested dictionary, a YAML file | nested get and set, merge, load, save |
| desk tools | `lib/tunnel/socket/client.py`, `lib/tunnel/serial`, `firmware/src/tunnel/serial.cpp`, test scripts | a socket and its thread; a serial port | as the tunnel's |
| logging, web page, deployment | `lib/logger_manager.py`, `web/`, `systemd/`, Docker and make files | log files | none that change the system's state |

### How they interact

Three concurrent activities run on the host: the **event loop** of asyncio with
`update_tunnel`, `ping_tunnel` and `poll_occupancy`; the **accepting thread** of
the factory, which hands connections over in a queue; and the **thread
`poll_db`**, which shares `rows`, `config` and `rows_lock` with
`poll_occupancy`. On the event loop code between two `await`s is atomic with
respect to other tasks, never with respect to the threads. `Behaviors` walks
over `tunnel_factory.tunnels` and writes handshakes to them; `update` of each
tunnel reads packets, resolves handshakes and gets, and runs callbacks that set
what `get_occupancy` reads. The boards, the network between, the sheet and the
people who edit it are concurrent, too.

### What is hard

* **Threads**: thresholds are read one by one without the lock while `poll_db`
  replaces them; groups change between two updates of a pass; `rows_lock` is
  held during I/O and blocks the event loop.
* **Lists that change underfoot**: `_check_clients` pops from the list it
  enumerates, more than once per position.
* **Awaits**: `handle_result` awaits callbacks in the middle of a batch; a `get`
  resumes some time after its event was set.
* **An unreliable peer**: packets and confirms are lost, commands written again,
  boards vanish, reboot and connect again.
* **Bytes**: packets arrive in chunks, amid debug text, with bodies that may
  contain the protocol's own special bytes.
* **Partial failure**: any read or write of the sheet may raise; a sign may be
  absent when it is to change.

`PROJECT.json` lists these hazards one by one, with the line where each bites
and the property that covers it, or the reason why none does. These are known
and not covered:

* what people write into the cells of the column itself, which the snapshot of a
  silent board's cell puts back (`novacancy/behaviors.py:50`); an id that is a
  sign in one configuration and a booth in the next is not polled for its group
  any more (`:114`); the models keep the ids apart;
* a sheet row without its last cell fails every poll
  (`novacancy/google_sheets.py:109`), one malformed row discards all thresholds or
  groups (`:125`, `:147`), and a group named `items` or `values` hides a method of
  its namespace (`lib/recursive_namespace.py:333`): cells are not modelled;
* a `get` without timeout on a tunnel that has stopped waits for ever
  (`lib/tunnel/client.py:213`), as its comment says it may; debug text stays in the
  buffer and is printed at every update until a packet follows (`:88`);
* packet numbers from 2^31 on (`lib/tunnel/handshake.py:39`), four thousand million
  packets into a connection;
* the accepting thread dies when `bind` fails (`lib/tunnel/socket/server.py:34`),
  the reading thread of `TunnelSocketClient` at the first silence
  (`lib/tunnel/socket/client.py:49`);
* `ask_exit_and_wait` turns for ever beside a task that swallows its cancellation
  (`lib/session.py:62`): there is none, and nothing calls it.

### What makes each component correct

* Behaviors: signs and LEDs agree with each other and with the recorded states
  (`SignAgrees`, `DisplaysAgree`), the sheet with the states of the boards that the
  pass found live and with the snapshot for the others (`SheetAgrees`), and when
  nothing changes any more everything becomes right (`Converges`).
* TunnelSocketFactory: no connection is lost or held twice (`Conserved`), the
  sweep stays in range (`NeverRaises`), the dead go (`Reaped`), the living are
  served in the end (`EventuallyServed`) and kept (`LiveTunnelKept`, which fails).
* TunnelBaseClient: only what arrived is confirmed (`Delivers`), commands are
  not undone by older ones (`ConfirmedShown`), repeated ones arrive
  (`Delivered`), a `get` is answered in turn (`OldestFirst`), with the next packet
  (`GetReturnsNext`, `PacketReachesWaiter`, which fail).
* TunnelProtocol and the firmware's reader: packets are found in order and in
  full (`FoundInOrder`, `AllFound`), the getters give what was written
  (`ReadBack`), lost packets are noticed (`HostNotices`, `BoardNotices`).
* The system under faults: displays differ from what the host has recorded only
  for a reason (`DisplaysFollow`), the newest tunnel of a board decides
  (`NewestCounts`), the records become true (`Truthful`) and the displays right
  again (`Heals`).
* RecursiveNamespace and Config: what is set, merged, flattened, saved and looked
  up fits together (`SetsOnlyThere`, `MergeOverlays`, `FlatKeysLead`,
  `SavedIsLoaded`, `DefaultGiven`).

## 2. The modules

| module | models | actions and the code they stand for |
|---|---|---|
| `NoVacancyTunnel` | what Behaviors sees of a tunnel | `Heart`, `Weight`, `Dist`, `Latch` (`packet_callback`); `Occupied`, `IsStale`, `SettingOf` |
| `Behaviors` (extends it) | `poll_occupancy` against `poll_db` | `Snapshot`; `ReadWeightThreshold`, `ReadWeightDirection`, `ReadDistanceThreshold` (the three unlocked reads); `Skip`, `Decide`; `UpdateNothing`, `UpdateUnknownGroup`, `UpdateGroup` (`update_groups`); `EndUnchanged`, `EndWritten`, `EndWriteFailed`; `DbLock`, `DbReadRows`, `DbReadGroups`, `DbReadDevices`, `DbFail`; environment: `Connect`, `Leave`, `Heartbeat`, `Report`, `GoStale`, `SortSheet` |
| `TunnelFactory` | accepting, sweeping, reading | `Accept`; `CheckClients`, `Visit`, `Pop`, `NextRound`, `Drain` (`_check_clients`, one step per round and pop); `Read`, `ReadEnds`, `ReadTimesOut`, `ReadDone` (`update`); `WriteFails`, `Stop`; boards: `Dial`, `BoardCloses`, `BoardVanishes`, `BoardNotices` |
| `Delivery` | the abstract promise of a handshake | `Send`, `Receive`, `Confirm` |
| `TunnelClient` (implements it) | one tunnel, both ends | `Write`, `WriteHandshake`, `Get`, `GetReturns`, `GetTimesOut`; `BeginUpdate`, `CheckHandshake`, `Read`, `HandleError`, `HandleConfirm`, `HandleResult`, `Resume`, `EndUpdate` (`update`); `IntervalPasses`, `TimeoutPasses`; `SendTimesOut`, `Stop`; board: `BoardReads`, `BoardDrops`, `BoardWrites` |
| `NoVacancy` (extends `NoVacancyTunnel`) | the polling pass, the boards and the session, with their faults | `Begin`, `PassOver`, `Poll`, `End` (`poll_occupancy`, one step per tunnel, with `update_groups`, `get_tunnel` and what the boards do with the commands); `Connect`, `Heartbeat`, `Report`, `GoIdle`, `Reboot` (`loop`, `setup` of the firmware); `Reap`, `DropLive` (`_check_clients`); `AskExit`, `RunEnds`, `HostFails`, `Restart` (`Session.run`, `main`); `LinkEnds`, `GoStale`, `Weigh` |
| `Packets` | a packet as bytes, written and read on both ends | operators: `MakePacket` (`make_packet`, `makePacket`) of arguments that fit (`Fits`), `Parses`, `Parsed` (`parse_packet`, `parsePacket`), `Get` (the getters, `GetNext` one after another) |
| `PacketFramer` (extends it) | how both ends find packets in a stream | `SendPacket`, `Debug`; `Update` (`parse_buffer`; `Scan` is its loop as a recursive function, `Results` what it makes of one packet); `BoardReads`, `BoardTimesOut` (`readPacket`, byte by byte) |
| `PacketCount` | packet numbers on both ends | `HostWrites`, `HostWritesAgain`, `BoardWrites`; `LoseToHost`, `LoseToBoard`, `Damage`; `HostReads`, `HostReadsError` (`parse_packet` and the counting in `parse_buffer`), `BoardReads`, `BoardReadsHandshake`, `BoardReadsError` (`parsePacket`); `Reconnect` |
| `RecursiveNamespace` | the methods of the class | operators on trees: `Update`, `ToDict`, `GetNested`, `GetNestedDefault`, `SetItem`, `SetNested`, `Flatten`, `Merge` |
| `Config` (extends it) | a configuration and its file | `SetKey`, `Set`, `Overlay`, `UpdateWith`, `Restart` (save, then load) |
| `MCBehaviors`, `MCNoVacancy`, `MCPacketFramer`, `MCConfig` | values of constants for TLC | |
| `BehaviorsProofs`, `TunnelFactoryProofs`, `TunnelClientProofs`, `PacketCountProofs`, `NoVacancyProofs`, `PacketsProofs`, `PacketFramerProofs` | theorems about the module of the same name | |
| `ListProofs` | facts about lists that the others rest on, among them induction over numbers | |

Names of variables are those of the code where it has them. History variables
(`evaluated`, `missed`, `polled`, `behind`; `amiss`; `written`, `received`, the field
`first` of a future; `sent`, `found`, `spoiled`; `heard`, `lost_to_host`, ...) exist for
properties only and are marked in the declarations; no guard of the code's steps reads
them. `map` in `PROJECT.json` names the lines each definition stands for.

### Abstractions

* Weights and distances are members of small sets of integers, ids and
  categories are model values, payloads are what a property can tell apart.
* A timer is an action that may fire once it is armed: `GoStale`,
  `IntervalPasses`, `TimeoutPasses`, `GetTimesOut`, `ReadTimesOut`. A property
  that holds here holds for every length of the intervals.
* In `Behaviors` a command is what was last written for a board, whichever of
  its tunnels it was written to; what the link does to it is the subject of
  `TunnelClient`. A tunnel may leave at any time the event loop is free: the
  reasons are the subject of `TunnelFactory`.
* `NoVacancy` joins what the other modules take apart, at a coarser grain: the
  pass goes tunnel by tunnel, for nothing of the event loop runs in between; the
  configuration stays (module `Behaviors` changes it); a command either reaches
  the board or is lost, which is what `TunnelClient` makes of a handshake without
  `write_interval`. That a sweep or a time-out removes a live tunnel
  (`TunnelFactory`) is the action `DropLive`.
* In `Packets` a float is its bytes in memory and a category its bytes. A string
  the host reads is modelled as `get_string` reads it, which never goes past the
  two length bytes (no packet to the host holds a string).
* In `TunnelClient` and `PacketCount` a packet is a record; how it is found in
  bytes is the subject of `PacketFramer`. A damaged packet is one whose checksum
  fails. Errors found after the checksum are in `Packets`: the type, and the
  category, which is an error on the host if it is not UTF-8 or too long, on a board if
  it begins with a 0, and on both if it is empty (`IsCategory`).
* A board copies a string or category into 16 bytes without looking at its length
  (`firmware/src/tunnel/protocol.cpp:97-108`). What a longer one overwrites is
  undefined and not modelled: `Readable` and `ReadableCategory`, which say what can
  be read back, exclude it. What the host writes to a board is shorter (categories such
  as "bigsign", the LED patterns "occupied" and "vacant").
* In `Config` an overlay is loaded for the merge and dropped, so that it does not
  matter that `merge` stores the overlay's own sub-namespaces.
* The list `pending_handshakes` is a set, for it is always ordered by packet
  number.
* `_check_clients` is modelled pop by pop, though nothing interrupts it, so that
  the proofs can speak about its loop.

## 3. The runs

| run | instance | distinct states | shows |
|---|---|---|---|
| `behaviors_signs` | two booths, one sign, three groupings | 1.5e6 | `TypeOK`, `SignAgrees`, `DisplaysAgree` |
| `behaviors_sheet` | two doors with a row each, sorting, failed writes | 1.4e6 | `SheetAgrees` |
| `behaviors_converges` | one booth, two sets of thresholds, two groupings | 8.9e5 | `Converges` |
| `factory` | two boards, two connections each, backlog of one | 3.8e5 | `TypeOK`, `Conserved`, `NeverRaises`, `Reaped`, `EventuallyServed` |
| `factory_kept` | the same | | `LiveTunnelKept` fails |
| `client` | one category, handshakes written again and not; two packets, two gets | 2.2e5 | `TypeOK`, `OldestFirst`, `ConfirmedShown`, `Delivers`, `Delivered` |
| `client_next`, `client_waiter` | one category | | `GetReturnsNext`, `PacketReachesWaiter` fail |
| `framer` | two packets out of three to the host or five to the board, stray bytes, two time-outs | 2.0e4 | `FoundInOrder`, `ReadBack`, `AllFound` |
| `packet_count` | three packets per protocol object, one repeat, two under way | 3.7e5 | `TypeOK`, `HostNotices`, `BoardNotices` |
| `novacancy` | one booth, its sign, three tunnels, one of them dead | 2.6e5 | `TypeOK`, `DisplaysFollow`, `NewestCounts`, `Truthful`, `Heals` |
| `config` | two names, three files, three values, keys of up to three | 2.4e3 | `TypeOK`, `FlatKeysLead`, `DefaultGiven`, `SetsOnlyThere`, `MergeOverlays`, `SavedIsLoaded` |

Every property of a passing run has a mutant: a definition of the code with a
plausible mistake in it (`\* Mutant of ...` in the modules), under which the same
run finds the property violated.

### Bounds, and why they are enough

* `behaviors_signs`: a conjunction needs two members to differ from each of
  them; three groupings (none, both booths, one of them) let a group appear,
  lose a member and vanish under a pass. `MaxTunnels = 2` lets a board have two
  tunnels, or two boards one each, or a sign and a booth. The readings are an
  empty and an occupied one.
* `behaviors_sheet`: two rows are what it takes to swap them.
* `behaviors_converges`: one booth's thresholds differ in value and direction,
  so that a torn mixture decides what neither configuration would.
* `factory`: four connections are what it takes to have a dead tunnel in front of
  two live ones and a third to arrive; a connection's name is used again when
  both sides have forgotten it, so runs of any length are covered.
* `client`: two packets let a newer command follow an older one, and two
  gets wait together; the link may hold both. Losses, time-outs and repeats are
  not bounded.
* `framer`: two packets, for what the first leaves behind to meet the second;
  among them a number, a float and a string that hold start and stop bytes,
  negative and unsigned numbers, and a packet of exactly `MAX_PACKET_LEN`, which is
  23 here for 128. Two stray bytes between packets make a single and a doubled
  start byte. The sequence of `Update` steps cuts the stream in every way, and the
  board gives up after any byte, twice.
* `packet_count`: a loss between two packets that are read takes three; one
  repeat and one loss cancel each other in the board's count.
* `novacancy`: three tunnels are a booth's old one, its new one and the sign's;
  one dead tunnel is what it takes for `get_tunnel` to find the wrong one, and for
  a reading of an old tunnel to meet one of the new. A group of one booth is enough
  for what happens to commands; conjunctions are the subject of `behaviors_signs`.
* `config`: with two names and keys of up to three, a value can be hidden, passed
  by and replaced on every level; a file with a list of a namespace and a scalar
  leads through lists.

### Fairness

* `Behaviors`: `poll_db` loops for ever (weak). `poll_occupancy` needs
  `rows_lock`, which `poll_db` releases for five seconds in every round: its
  steps are enabled again and again and it gets the lock (strong).
* `TunnelFactory`: the thread and the task loop for ever and each `recv` returns
  within ten seconds (weak on `Accept`, `Update`); a board that finds its
  connection closed, or hears no ping, notices and dials until it succeeds
  (`check_connection` in the firmware's loop; weak). Nothing is assumed of
  failures: `EventuallyServed` is about behaviours in which they stop.
* `NoVacancy`: the tasks of the event loop take turns and a pass is a second away
  from the next (weak on `Pass`; strong on what is only possible between two
  passes: `Reap`, and `Served(b)`, a board's endless loop of dialling, heartbeats
  and reports). A cancelled session ends and systemd starts it again (weak on
  `RunEnds`, `Restart`). Nothing is assumed of failures: `Truthful` and `Heals` are
  about behaviours in which they stop (`FaultsStop`). `Heals` moreover needs the
  state to go on changing, for nothing in the code sends a lost command again.
* `TunnelClient`: `update` is called in a loop and time passes (weak). A packet
  written again and again gets through some time, and so does its confirm
  (strong, on `ReadsHandshake(n)` and `HandlesConfirm(n)`): without that no
  protocol over a lossy link delivers.
* A deadlock is an error in every run but `framer`, where the stream ends when
  all packets are found; `Ended` in `TunnelFactory` and `TunnelClient` is a
  session or connection that is over.

## 4. What is proved

All theorems are for every value of the constants that meets the assumptions
next to their declaration (`BoardsAssumption`, `ReadingsAssumption`,
`GroupsAssumption`, `DevicesAssumption`, `SystemAssumption`, `FactoryAssumption`,
`ClientAssumption`, `CountAssumption`, `FramerAssumption`, `MessagesAssumption`,
`StringsAssumption`): any number of boards, groups, tunnels, packets, losses, bytes.
Every invariant of the runs of `Behaviors`, `TunnelFactory`, `TunnelClient`,
`PacketCount` and `NoVacancy` is proved as it stands, and with them the action
properties `HostNotices` and `BoardNotices` and the refinement `Delivers`; of the
three of `PacketFramer` one as it stands and two under a condition. Most of them are
not inductive; what each needs is said here.

* **`BehaviorsProofs`**: `TypeCorrect`, `SignCorrect`, `DisplaysCorrect` and
  `SheetCorrect`.
  - For `SignAgrees` and `DisplaysAgree`, `DisplayInv` adds that a computed group
    keeps all its members known (`EvaluatedKnown`), that no polled board is
    registered as a sign and so skipped (`BoardsAreNotSigns`), that LEDs show the
    recorded states (`LedsFollow`), and signs theirs unless a change was missed
    (`SignsFollow`). The two steps that matter are `Decide`, after which the board's
    group lags, and `UpdateGroup`, which makes up for it. `GroupsAssumption` (a board
    in one group, a sign for one group, no id as both) is what keeps one group's
    update from disturbing another's.
  - For `SheetAgrees`, `SheetInv` follows a cell through a pass. The list that a pass
    makes has the recorded state in the first row of each board it has found live, and
    the snapshot's cell in every other row (`ListHolds`, kept by every further poll).
    Where no row is behind, the snapshot, the rows of `poll_db` and the sheet have the
    same ids in the same order, and the sheet shows `prev_occupancy_row` (`InStep`),
    without which a write that is skipped because the list has not changed would leave
    the sheet behind; between two passes that list is the one the pass made
    (`ListKept`).
* **`TunnelFactoryProofs`**: `TypeCorrect`, `SweepCorrect` and
  `ConnectionsConserved`.
  - No pop of a sweep is out of range, though positions are popped repeatedly.
    `SweepInv`: the positions noted lie far enough apart, and far enough in front of
    the enumeration's index, for each of them to be popped once more (`Apart`); in a
    round the index is within the list as long as it was when the round began.
  - `Conserved` speaks of the three lists joined; the proof takes it apart list by
    list (`ConservedInv`, shown equivalent) and follows each connection as the head of
    one list becomes the last of the next. A pop needs `SweepInv`: only within the
    list does it take a connection out, and the host lets go of that one.
* **`TunnelClientProofs`**: `TypeCorrect`, `DeliveryImplemented`, `OldestCorrect`
  and `ConfirmedShownCorrect`.
  - Under the refinement mapping `sent` = handshakes made, `confirmed` = handshakes
    made and not pending, every step of `TunnelClient` is a step of `Delivery` or a
    stutter. `DeliveryInv` adds that every handshake under way is one that was made,
    that every confirm, on the link or in a batch not yet handled, bears the number of
    a handshake the board has read, and that numbers made are below the count, so that
    a new one is new.
  - `OldestFirst` is inductive: the future that is set is the first of its category,
    and a removal keeps the order of the others.
  - For `ConfirmedShown`, `ShownInv` says that commands of a category of which none is
    written again (`Plain`) are under way in the order of their numbers, each newer
    than what the board shows (`NewerAndNewer`), so that what the board has received it
    shows, or something newer (`ReceivedShown`); what is not pending was received
    (`ConfirmedReceived`), which is where `DeliveryInv` is needed.
* **`PacketCountProofs`**: `TypeCorrect`, `LossesNoticed` and `WarningsExact`.
  - `CountInv`: what is under way to the host bears the last numbers the board gave,
    in order; once the host has read a packet, its count is behind the first of them
    by exactly what was lost since.
  - On the way to the board a repeated handshake bears an old number, so numbers under
    way are not consecutive. `BoardInv` says that there is a numbering of the positions
    that passes over repeats, gives every other packet its number and ends at the
    host's count; the board's count and what was lost since its last normal packet
    make up the number of the first position and the repeats read since.
* **`NoVacancyProofs`**: `TypeCorrect`, `DisplaysCorrect` and `NewestCorrect`, over
  every fault of the system: lost commands, dead links, reboots, restarts of the host.
  - `TypeOK` needs that a pass stays within the list of tunnels (`WithinPass`).
  - `DisplaysFollow` is inductive. The step that matters is `Poll`: of the commands of
    one poll no two are for the same board (`SystemAssumption`: a sign has one group),
    each shows the state just recorded, and a board that gets none keeps both.
  - For `NewestCounts`: the working tunnel of a board is the last of its tunnels
    (`LiveIsLast`: new ones are appended, and a board opens one when its old one is
    dead), so that in a pass nothing polled after it overwrites what it reported
    (`PolledSoFar`).
* **`PacketsProofs`**: `GettersReadBack` and `PacketReadBack`, about the operators.
  - The hypotheses are what the code can read: a board's strings fit `to_string`
    (`FitsString`), a category is one its reader decodes (`ReadableCategory`).
  - A number of one, two or four bytes is got back from them (`ReadNumber`), a
    checksum from its two hexadecimal digits, a segment from what it is followed by;
    the getters then by induction over the arguments, each of which leaves exactly the
    segments behind it.
  - The first separator of a packet is the one behind the category, for neither the
    type nor the number is looked at and the category has none; so both ends agree
    about where the data begins, whatever bytes it holds, though the board looks for
    it through the checksum, too.
* **`PacketFramerProofs`**: `AllFoundCorrect`, `InOrderCorrect` and `ReadBackCorrect`.
  - The bytes written so far are text and packets in turn (`Layout`), of which the
    reader has taken some (`Unread`). Writing more changes nothing about what is there
    (`SendGrows`, `DebugGrows`).
  - For the host, `Scan` is unfolded from the end of the buffer (`ScanIs`) and followed
    over one stretch of text and packet after another: text is walked over and its last
    start byte takes the packet's first along exactly if `Masks` says so (`MasksNext`,
    `TextStands`); a packet in full is found and the scan goes on behind it
    (`PacketStands`); a packet whose first byte is gone is walked over, if there are no
    start bytes in it (`SpoiledStands`); a packet that has not arrived in full ends the
    scan or is not seen. Downward induction over the packets then says what a scan finds
    (`ScanFinds`), and `HostInv` that the buffer begins where the last packet found ends:
    with that a chunk that ends anywhere, in the middle of a length say, loses nothing.
  - For the board, `BoardInv` relates the buffer to the packet that is being read: what
    it has of it, or nothing or a start byte alone behind a time-out (`Leftover`), until
    the packet's last byte. `Short` (no packet is longer than `MAX_PACKET_LEN`) is why
    only the packets of exactly this length are given up (`TooLong`).
  - Two conditions are needed, and are conditions on the packets that are hit only. If
    one has start bytes in its body (`Deceptive`), its rest may be taken for a packet,
    which is why `AllFound` excludes it. At a time-out the board parses what it has read
    as it is (`firmware/src/tunnel/socket.cpp:118`, `:154`), and a part of a packet
    may end in a stop byte and in front of it, by chance, the checksum of what precedes
    (`Severable`): then a packet with cut off arguments is found. `FoundInOrder` and
    `ReadBack` are therefore proved of the states in which no packet that was hit is
    of either kind. Only a board can sever a packet, and without a stray start byte or
    a time-out no packet is hit: then all three hold without a condition.
    The messages of the run include packets with start bytes, and TLC finds both
    properties to hold there without the condition; none of them is `Severable`.
  - The proofs assume that the text of a device does not have both start bytes
    (`FramerAssumption`): behind the two, any text is the length of a packet.

The recurring facts about lists (what remains when a position is taken out, when
one list is appended to another, when the head moves, what a part of a list has) are
lemmas of `ListProofs`. Where an operator is a recursive function of a number (`Scan`,
`Total`, `Get`) or a fold, facts about it for every input are proved by induction:
the theorems of the library that take an operator cannot be cited, but that a set
of natural numbers has a smallest element can be (`SmallestInSet`), and a set says
for which numbers the fact fails.

A proof has corrected the model once: the cases of `FromHex` (what `strtol` makes of
the two digits of a checksum) overlapped for the board, in such a way that TLC took
the right one.

### Only model-checked

* Liveness (`Converges`, `Reaped`, `EventuallyServed`, `Delivered`, `Truthful`,
  `Heals`), which is beyond the prover, as is everything that needs `ENABLED`.
* `FoundInOrder` and `ReadBack` where a packet that was hit has start bytes in its
  body: false in general, and true of the messages of the run.
* The invariants of `Config` (`TypeOK`, `FlatKeysLead`, `DefaultGiven`,
  `SetsOnlyThere`, `MergeOverlays`, `SavedIsLoaded`). The methods of
  `RecursiveNamespace` are recursive on trees, which have no number to do induction
  over; they are `RECURSIVE` operators, which the prover does not reason about.

## 5. Where the code and its documentation disagree

1. `_check_clients` drops live tunnels (`factory_kept`,
   `lib/tunnel/socket/server.py:62-63`). The loop that pops is nested in the one
   that collects. With a dead tunnel in front of live ones, the second round pops
   the same position again. The board notices when pings cease and connects again,
   so that all are served in the end (`EventuallyServed`).
2. `get` may return a later packet than the next one (`client_next`,
   `lib/tunnel/client.py:155`).
3. A `get` that timed out takes the answers of later ones (`client_waiter`,
   `lib/tunnel/client.py:214`).

Observations outside the runs, met while modelling:

* A failed handshake is warned about at every update, for ever, and not thrown:
  nothing sets the flag that would throw (`lib/tunnel/client.py:54`, `:184`), though
  `lib/tunnel/client.py:70` and `lib/tunnel/protocol.py:23-24` promise the exception.
* `write_handshake` warns of a `write_interval` greater than the timeout that the
  "Packet will not be rewritten" (`lib/tunnel/client.py:230-234`), but
  `should_write_again` does not look at the timeout (`handshake.py:45-55`) and an
  expired handshake stays pending: it is rewritten until it is confirmed. `Delivered`
  states and checks what the code does, not what the warning says.
* The cell of a board that a pass does not find live is written back from the snapshot
  (`novacancy/behaviors.py:50`), up to five seconds old: a door that was polled
  occupied and falls silent before `poll_db` has read the column again gets its "FALSE"
  back. `SheetAgrees` says so of these cells and only of these.
* On a `Config`, `config[key] = {...}` raises TypeError: `__setitem__` calls the class
  with the keys of the dictionary (`lib/recursive_namespace.py:330`), and
  `Config.__init__` takes none (`lib/config.py:11`). `set_nested` converts first.
* An error before the first good packet makes `parse_packet` count that packet as
  out of sync, for `read_packet_num` is no longer -1 when it arrives
  (`lib/tunnel/protocol.py:380`; `HostNotices` starts at the first packet read).
* `get_string` of the host takes the two length bytes for the beginning of the
  string (`lib/tunnel/result.py:120-128`); the length of a string with characters
  outside ASCII counts characters, not bytes (`lib/tunnel/protocol.py:174-179`); an
  integer given for a float key is left out without a word (`:145-169`).
* The checksum does not cover the length bytes, which `lib/tunnel/protocol.py:40`
  says it does: it covers what `packet_header` and the segments make (`:212`).
* A string or category of 16 bytes or more overruns the board's `STRING_CONVERT_ARRAY`
  (`firmware/src/tunnel/protocol.cpp:97`); nothing on the host keeps to that length.
* The host writes packets of up to 128 bytes, the board reads up to 127
  (`TooLong` in `PacketFramer`).
* At a time-out the board parses what it has read of a packet as if it were one
  (`firmware/src/tunnel/socket.cpp:118`). The checksum rules out most such parts, not
  all: `Severable` in `PacketFramerProofs` is the condition the proof had to name.
* `get_nested_default` lets IndexError and TypeError of lists through
  (`lib/recursive_namespace.py:72`); `flatten` joins keys with "/" whatever separator
  it is given (`:214`); `set_nested` without `create` creates the last key (`:142`,
  against `:127`).
* `save` empties the file before it finds out that it cannot represent the
  configuration (`lib/config.py:35`), and `set_config` calls it without a path
  (`main.py:50`).
* A host that starts again takes every sign for "Vacancy"
  (`novacancy/behaviors.py:127`), a booth that lost its LED command or its power is
  told nothing until its state changes (`:66`): `DisplaysFollow` names these cases,
  and `Heals` when they end.

## 6. What is not modelled

* `TunnelSocketClient`, the serial tunnel and the test scripts: tools of a desk.
* Sensors, sound and their delays; what lies behind the end of the firmware's
  buffers, and what strings of more than 15 bytes do there; the 64-bit keys `l` and
  `m` and numbers from 2^31 on, which exceed TLC's integers (a confirm is read signed,
  `handshake.py:39`).
* Damaged length bytes: parse_buffer may wait for 65535 bytes
  (`lib/tunnel/protocol.py:300`), more than a checked stream has.
* `SessionFinishedException` and `ask_exit_and_wait`, which nothing raises;
  `set_config` and `set_volume`, which nothing calls; when `ping_tunnel` writes.
* Cells of the sheet that are missing or malformed, and YAML itself.
* The log, the web page and the deployment keep no state of the system.

## 7. Plan

Done, in this order: `Behaviors`, `TunnelFactory`, `TunnelClient` with
`Delivery`, `PacketFramer`, `PacketCount`, the theorems above; then `NoVacancy`,
`RecursiveNamespace` with `Config`, and `Packets` with both ends in `PacketFramer`.

Of the theorems, every invariant that a run checks is proved but those of `Config`,
two of them (`FoundInOrder`, `ReadBack`) under the condition said above. What is left
within the prover's reach is an abstract specification of the sheet (a column that
follows the states) which `Behaviors` implements between two changes of the rows.

Next, modules: `TunnelSocketClient`, the reading thread against `_read` and
`flush`.
