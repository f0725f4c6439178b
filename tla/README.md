# A formal model of the BACnet gateway example

The program is a BACnet gateway (profile B-GW): it shows three slave devices of
a foreign, Modbus-like bus as BACnet objects. `src/main.cpp` polls each slave's
sensor into a cache, serves BACnet clients from that cache, and writes the
winning value of each commandable output through to the slave. The foreign bus
is behind the seam `src/ForeignBus.h`; the one driver in the repository is the
simulation in `src/simulation/`. `src/common/` holds what the example shares with
others of its series: sockets, keyboard, restarts, the frame log.

This directory holds TLA+ modules for it, TLC configurations that check them on
small instances, and TLAPS proofs for every value of the constants.

## Inventory: the system's parts

Everything runs on one thread. The hard part is not parallelism but
*conversation*: requests take time, answers come in a later pass of the loop or
never, and clients, cables and stalls get in between.

| part | state | operations | interacts with |
|---|---|---|---|
| main loop (`main.cpp:1167`) | `running` | one pass: stack tick, foreign bus, test control, key, 1 ms sleep | calls everything |
| start-up (`main.cpp:1040-1165`) | mode, instance, port, the stack's database | arguments, sockets, set-up calls, announcements | stack, transport, test control |
| command handling (`main.cpp:184-270, 755-832`) | `Commandable`: 16 slots and a default per output | `CommandWrite`, `SetPropertyNull`, `WinningValue`, acceptance of values | the stack calls it back inside its tick; the write-through reads the winner |
| poll and offline detection (`main.cpp:378-428`) | cached reading, `online`, `consecutiveFailedPolls`, `nextPollAt`, `pollTransactionId` | `ServicePoll`, `SlaveWentOffline`, `SlaveCameBack` | driver; write-through (`written`); discovery switches |
| write-through (`main.cpp:206, 430-461`) | `WriteThrough` per output | `ServiceWriteThrough`: check, then start | driver; winner; `online` |
| seam (`ForeignBus.h`) | the requests in flight | `StartRead`, `StartWrite`, `Service`, `CheckTransaction` | gateway above, driver below |
| simulated bus (`SimulatedForeignBus.cpp`) | slaves (true connection, three registers, drift), `g_transactions`, `g_nextTransactionId` | the seam's, and `SetSlaveOnline`, `SetPoint` | polled by the gateway, reached into by test control and keys |
| test control (`SimulationControl.cpp`) | a UDP socket on loopback | `offline`, `online`, `set`, `get`, one datagram per pass | simulated bus |
| keyboard (`CASExampleHelper.cpp`, `main.cpp:1175`) | terminal mode, `O_NONBLOCK` | nudge the boiler, toggle its cable, re-announce, quit | simulated bus |
| virtual network and discovery (`main.cpp:272-376, 905-1010`) | the stack's switches per virtual device | announcements, `SetVirtualDeviceDiscoverable`, `FindMappedPoint` | poll; stack |
| property reads (`main.cpp:484-754`) | none | `GetProperty*` from the cache | stack |
| UDP transport (`CASExampleHelper.cpp:60-266, 362-435, 1989-2073`, `SimpleUDP.cpp`) | a table of bindings, a round-robin cursor | set-up, send, receive, shut-down | stack |
| restart scheduling (`CASExampleHelper.cpp:1830`) | one pending restart | request, due | not called by this example's `main.cpp` |
| frame decoder (`CASExampleHelper.cpp:1215-1820`) | none | one walk over a datagram, two views of it | the RX/TX log |
| name tables and log (`CASExampleHelper.cpp`, `CASExampleLog.cpp`) | log level | look-up, formatting | all |
| wire tests and their client (`wiretest/`, `tests/`) | invoke ids, sockets | requests with retries | the program, over UDP |
| BACnet stack | a private submodule, absent | | calls the callbacks |

What makes each part correct, and what is hard about it:

- **Command handling**: the gateway and the stack each resolve the
  `Priority_Array`; they must name the same winner, and a command must take
  effect unless overridden.
- **Poll**: a transaction id must be checked until finished and never again; a
  dead slave must be noticed within a known time although the loop stalls; a
  live one must never be declared dead because the *gateway* was slow.
- **Write-through**: `written` and `lastWrittenValue` claim something about a
  device the gateway cannot see. The winner changes while a write is in
  flight; the slave is declared offline under it; a retry timer runs across an
  outage; an answer is lost. Still, the last command must land.
- **Driver**: ids are a wrapping 32-bit counter; one finished transaction that
  is never checked stays for ever; an answer and a timeout may come due in the
  same pass.
- **Mapping and set-up**: two places know which objects there are, in two modes;
  set-up calls depend on each other's order.
- **Discovery**: a virtual device must be hidden exactly while its slave is
  believed offline, and announced only when it can be reached; each switch is two
  stack calls either of which may fail.
- **Conversion**: a value is scaled, rounded, cast to `uint16_t` on the way out
  and to `int16_t` on the way in; the accepted range must survive all of it.
- **Transport**: no socket starves another, failed set-ups leak nothing.
- **Decoder**: every length in a frame is somebody else's claim.

`PROJECT.json` lists these as hazards at the lines where they bite.

## The modules

The gateway and what is below it:

| module | models | from |
|---|---|---|
| `Commandable` | `Priority_Array`, commands, the winner | `struct Commandable`, `EffectivePriority`, `WinningValue`, `CommandWrite` |
| `RegisterMap` | slaves, tables, outcomes, value/register conversion, accepted values | `ForeignBus.h`, `main.cpp:417, 458, 764` |
| `SimulatedForeignBus` | the driver and the three devices | `SimulatedForeignBus.cpp` |
| `Gateway` | what the gateway knows of each slave and the handlers that change it, over whatever a driver answers | `struct GatewayedSlave`, `ServicePoll`, `ServiceWriteThrough`, `SlaveWentOffline`, `SlaveCameBack`, `SetProperty*` |
| `GatewaySystem` | the loop: gateway, driver, clients, test control and keys in the order of `main()`; most of the properties | `main.cpp:463-474, 1167-1214` |
| `ForeignBus` | the seam as an abstract specification: both sides' promises | `ForeignBus.h` |
| `SeamRefinement` | `GatewaySystem` implements `ForeignBus`, transactions seen without their ages | |
| `GatewayOnSeam` | the same `Gateway` composed with `ForeignBus` instead of the simulation: any driver behind the seam | `main.cpp:463-474`, `ForeignBus.h` |

The program around it:

| module | models | from |
|---|---|---|
| `BACnetObjects` | `FindMappedPoint`, `FindCommandable` and every callback that reads, writes or accepts | `main.cpp`, sections 2 and 4 to 6 |
| `StartUp` | the command line, and the set-up calls in their order, with the virtual network they name | `main.cpp`, sections 8 and 9; `Parse*Arg` |
| `Keyboard` | terminal mode, `O_NONBLOCK`, `PollKey` | `EnableRawInput`, `PollKey`, `RestoreInput` |
| `GatewayProgram` | `main()` from its arguments to its return value; composes `StartUp`, `BACnetObjects`, `Keyboard` and `Gateway` in either mode | `main.cpp:1040-1220` |

The parts that share no state with it:

| module | models | from |
|---|---|---|
| `TestControl` | a command's checks, casts, effect and reply, over `SimulatedForeignBus` | `SimulationControl.cpp` |
| `UdpTransport` | bindings, sockets, receive and send callbacks, `SendIAm` | `CASExampleHelper.cpp`, `SimpleUDP.cpp` |
| `RestartScheduler` | `RequestRestart`, `RestartDue` | `CASExampleHelper.cpp:1830` |
| `FrameDecoder` | `DecodeBacnetFrame` with every length check, and the facts that the summary and the XML dump each show, by their own conditions | `CASExampleHelper.cpp:1215-1820` |
| `NameTables` | `LookUpIdName`'s binary search, a step per comparison | `CASExampleHelper.cpp:1195` |

`MCGatewaySystem`, `MCGatewayOnSeam`, `MCGatewayProgram`, `MCValues` and `MCParts` are
the small instances. `GatewayProof` (the handlers' lemmas), `GatewaySystemProof`,
`TransactionsProof`, `OutputsProof`, `SeamProof`, `OnSeamProof`, `ProgramProof` and
`PartsProof` hold the theorems.

How the state corresponds to the code:

- In `GatewaySystem`, `pc` and `unit` are the program counter of one pass: `Tick`
  (client callbacks, any number), `Poll`, `setpoint`, `enable` for each slave in turn,
  `Control`, `Key`. Each call of a handler is one action, the whole of it;
  nothing else can run inside one, as in the code.
- Time: the code reads the clock once per pass and compares instants only with
  each other. The model keeps ages (`transactions[id].age` is `now - startedAt`)
  and remaining times (`nextPollIn`, `retryIn`, zero once reached). A pass takes
  at least one tick, because it sleeps a millisecond, and at most `MAX_STEP`,
  a bound on stalls. Only `RestartScheduler` keeps the clock itself.
- A slot of a `Priority_Array` is a value or `Null`. The code keeps the value of
  a relinquished slot, which nothing reads.
- Engineering values are integers in hundredths, so that rounding to tenths of a
  degree is visible; a register is a number below 65536.
- `transactions` is `g_transactions`, a function from the live ids. The
  *finished* ones keep age 0, since nobody looks at their start again.
- `online` is what the gateway believes, `connected` what is true.
- `silence` and `overridden` are history variables: how long ago a slave last
  answered a poll, and which outputs somebody set at the device since the
  gateway last wrote them. No guard reads them. Likewise `announced`, `reply`,
  `received`, `sent`, `overtaken` and `promised` in the modules that have them.
- `discoverable` is external: the stack's switches, as
  `BACnetStack_SetServiceEnabled` sets them when it does not refuse. So is
  `database`, the set of the set-up calls the stack accepted.
- `GatewayOnSeam` has no ages: any request may finish in any pass. What a driver may
  do is three switches: `REFUSES` (a start may return 0), `NOISY` (a request to a slave
  that answers may time out), `LOSES_ANSWERS` (a write may take effect and time out).
- `GatewayProgram` lets the calls of a pass come in any order, which allows more than
  the loop does, and leaves the write-through to the two systems above: no callback
  looks at it. Its texts (object names and the like) are tuples of what tells
  them apart, not characters.
- `FrameDecoder` keeps the octets of a datagram, for lengths and offsets are what it is
  about. `memory` behind `frameLength` still holds what was received before: an
  offset that runs over the end would read it.

## What the runs check

| run | instance | properties |
|---|---|---|
| `one_slave` | one slave, two commands at different priorities (one invalid) and a release, the cable pulled and restored at will, stalls past the timeout, ids that wrap | `TypeOK`, `OwnedTransactions`, `WrittenMeansLanded`, `DiscoverableWhileOnline`, `BeliefFollowsTheWire`, `ImplementsSeam` |
| `silence` | the same without clients, with a stack that may refuse to switch discovery; a history long enough to measure | `BoundedSilence` |
| `two_slaves` | two slaves on different poll cycles share the ids and the loop; the operator may quit, so the system may stop (`CHECK_DEADLOCK FALSE`) | `OwnedTransactions`, `WrittenMeansLanded` |
| `local_changes` | points set at the device, before, under and after the client's own command; readings below zero, nudges, a cable toggled by key | `WrittenMeansLanded`, `CachedReading` |
| `liveness` | the fair loop over the simulated bus | `WritesLand`, `OutagesReported`, `SlavesComeBack` |
| `seam` | the gateway over a driver that refuses starts and loses frames, a setpoint changed or lost at the device | `TypeOK`, `NothingForgotten`, `WrittenMeansHeld`, `KeepsTheSeam` |
| `seam_liveness` | the fair loop over a driver that refuses starts | `WritesLand`, `OutagesReported`, `SlavesComeBack` |
| `program` | `main()` from eight command lines to its end, two slaves, both modes; the program returns, so the system stops | `TypeOK`, `EveryCallIsPossible`, `MappingMatchesSetUp`, `NamesDistinguish`, `ServedMeansWritten`, `EnabledAreAnswered`, `AnnouncedAreReachable`, `EndsClean`, `WritesStayInTheirObject` |
| `parts` | the parts that share no state, side by side: a behaviour is about one `subject`, the others stand still (a look-up, a decoded frame or an idle socket stops there) | `WinnersAgree`, `CommandTakesEffect`, `RegisterUnderstood`, `NoBindingStarves`, `PortsBelongToInstances`, `PromisesAreKept`, `ReplyTellsTheEffect`, `TruncationOnlyForgets`, `ViewsNeverDisagree`, `NothingIsOverlooked` |
| `as_soon_as_back` | as `one_slave`; violated | `WrittenAgainAsSoonAsBack` |
| `lost_answer` | as `seam`, with a driver that loses the answers of writes; violated | `WrittenMeansHeld` |
| `truncated_frame` | frames cut short; violated | `TruncatedIsNotMisparsed` |

What they show:

- `OwnedTransactions`: the gateway's ids and the driver's transactions
  correspond one to one, through wraps, timeouts and declarations of offline.
- `WrittenMeansLanded`: when the gateway holds an output for written and no write is
  in flight, the register holds that value, unless someone changed it locally.
- `BoundedSilence`: a slave a client sees without fault has answered a poll within
  `SilenceBound`. The bound is exact on this instance: with one tick less, TLC
  finds a behaviour that exceeds it. With the code's numbers, no stall and the
  boiler's 500 ms cycle, it is a little under 1.3 s.
- `BeliefFollowsTheWire`: the driver checks the answer before the timeout, so a
  stalled gateway never blames the slave.
- `ImplementsSeam` (refinement): the gateway and the simulated driver together implement
  `ForeignBus`. Each request has an id nobody else holds, finishes once, a write is
  in the device exactly if it is Done, the gateway fetches each id once and never has
  two writes of a point in flight.
- `KeepsTheSeam`, `NothingForgotten`, `WrittenMeansHeld` with `seam`: the gateway's side
  holds over every driver that keeps the seam and answers writes, a refused start (id 0)
  included. A refused poll is neither in flight nor counted as failed; outages are
  noticed all the same once the driver accepts polls again (`OutagesReported`).
- `WritesLand`, `OutagesReported`, `SlavesComeBack`: nothing wedges, over the simulation
  or over a driver that refuses; a device that lost its setpoint in an outage the
  gateway noticed gets it again.
- `program`: no call of the set-up names what is not there yet, be it a device, an
  object or, for a virtual device, the network it is put on; the callbacks and the
  set-up agree on the objects, in both modes; names tell objects apart; the value
  the callbacks make the stack show is the one the gateway writes; an object is answered
  for also while its slave is not; nothing unreachable is announced; a normal end leaves
  no socket open, no end leaves a terminal raw, what is left behind is `O_NONBLOCK` once a
  key was asked for, and the keyboard never blocks the loop.
- `ViewsNeverDisagree` with `parts`: the two views of a frame differ, and the model keeps
  how. The line ends where its buffer does, so a long address is cut there (`Cut`); it
  names an object type and a property both or neither (`SummaryUsesNames`) where the dump
  decides for each alone (`XmlRequest`); the dump alone has the source and the invoke id.
  What holds is that no number or name of the summary is missing from the dump, and that
  an address in it is the beginning of the dump's.
- The other properties of `parts`: see their comments.

### Where the code and its documents part

1. `TUTORIAL.md:127` says that the outputs' pending writes "are marked unwritten when a
   slave goes offline, so the current winning value is written again as soon as it is
   back". `SlaveWentOffline` does clear `written`, but neither it nor `SlaveCameBack`
   clears `retryAt`. A write that timed out during the outage has armed it, and
   `main.cpp:455` holds the output back until it expires, up to a poll period after
   the slave answered. Run `as_soon_as_back`. The value still lands (`WritesLand`).
2. `main.cpp:446` says of a write that timed out "written stays false: try again", and
   `main.cpp:209` "false = the slave may not hold the winning value yet". `written`
   stays what it was: true, if an older write had landed. When the write that timed out
   took effect after all and the client then releases its command, the older value wins
   again, counts as written, and is never written. Run `lost_answer`. The simulated
   driver cannot bring it about (`WrittenMeansLanded`): it applies a write exactly when
   it reports it Done. A driver for a real bus can.
3. `CASExampleHelper.h:258` says that "a truncated or malformed frame degrades to "?"
   rather than being mis-parsed". A frame that announces a network layer message and
   ends before its type has no flag that says so, and the summary shows type 0,
   Who-Is-Router-To-Network. Run `truncated_frame`. Everything else that is cut off is
   forgotten, not invented (`TruncationOnlyForgets`).

Observed on the way and not checked: `GetPrimaryLinkSpeed` goes on to another
interface where `GetPrimaryIPv4` has stopped; keys that are read together are dropped
but for the first; `--port` or `--deviceID` as the last token is ignored without a word.
Observed and stated as it is, in the property: `RestoreInput` takes raw mode back and
not `O_NONBLOCK`, which the file behind standard input keeps (`EndsClean`); the summary
and the XML dump of one frame do not show the same of it (`ViewsNeverDisagree`).

### Bounds, and why they are enough

- One tick is a slave's latency. The code's order, latency (20-80 ms) < response
  timeout (300 ms) < poll cycle (500-900 ms), is kept as 1 < 2 < 3 (and 4 for
  the second slave). `MAX_STEP = 2` lets a stalled pass reach the timeout in one
  step, which is the only thing a longer stall could add to a transaction.
- `MAX_TRANSACTION_ID` is as small as it can be: 4 for one slave, 9 for two. With 3
  and one slave an id in use is given out again and `OwnedTransactions` fails,
  so wrap-around is exercised to the limit. The theorem below replaces the small
  modulus by a condition the code's 2^32 meets.
- Two slots of a `Priority_Array` suffice where one command overrides another and
  the default; `parts` uses four for the resolution itself.
- `MAX_FAILED_POLLS = 3` (2 on the seam) lets the counter wrap while a slave is offline.
- `SILENCE_CAP` saturates the history above the bound it is compared with.
- `SensorRange` keeps the nudging keys near the first reading and around zero.
- `DRIFT_STEP = 1`, `DRIFT_MAXIMUM_STEPS = 1`: the sensor drifts at every pass and
  turns round at once.
- On the seam one slave has at most three requests in flight, so three `Ids`; poll
  periods of one or two passes, because without ages nothing else is compared with them.
- `program` counts one failed poll as an outage and polls at every pass: how many it
  takes is `GatewaySystem`'s question, that a slave goes and comes is this one's. The
  command lines are those the parsing tells apart: a help flag, a flag without value, a
  wrong mode, the last mode winning, instances that are no number, negative, or a
  virtual device's. Two slaves tell devices, names and defaults apart.
- `parts`: three bindings, one datagram waiting in each; clocks up to 4 with delays on
  both sides of each other; commands on each side of each check, the casts included;
  frames of each layer and form the decoder knows, each cut at every length, with one
  octet at a time damaged to values that stretch a length or change a flag; one
  request is about a property without a name, a damaged one about an object type without
  one; the code's own tables of object types and properties, an
  empty and a one-row one, with every id in, between and outside them.
- `SummaryRooms = {32, 88}`: how many octets of an address the line has room for. It has
  192 characters, two to an octet; the text before the address is 14 to 127 characters
  long, which leaves room for 88 to 32 octets, and one frame has an address of 40. The
  128 characters of the text itself are never too few: the longest is 110.
- No symmetry is used: slaves differ in unit number and position in the loop.

### Fairness

`FairSpec` of `GatewaySystem` assumes weak fairness of `Loop` only: `main()` goes on
calling, and every call returns. Nothing is assumed of clients, cables, test control or
the operator, and no fairness is put on a single handler: the order of the calls is
the program's. `GatewayOnSeam` adds what the seam's header says of a driver, "the
answer either arrives ... or the transaction times out" (`ForeignBus.h:32`): strong
fairness of finishing each request, and of accepting a start, so that it does not
refuse for ever. `WritesLand` is conditional on what the code cannot influence: the
slave stays connected, the winner stays the same, and nobody changed the register
at the device, since the code never reads it back.

## What is proved

Every invariant and action property that a run checks is a theorem: for any number of
slaves, any latencies, periods, timeouts, commands, command lines, datagrams and stalls
that meet the modules' `ASSUME`s. Only liveness is left to TLC.

The gateway over the simulated bus:

- `TypeCorrect` (`GatewaySystemProof`): `Spec => []TypeOK`. `TypeOK` is inductive
  as it stands; there is one lemma per handler, those of the gateway's handlers in
  `GatewayProof`, over any driver. The facts that take an argument
  are that the winner of a `Priority_Array` is a value (a lowest set slot exists),
  that the register after a pass is the value of the highest answered id (a highest
  exists), that the drift turns round inside its range, and that scaling and
  casting end in a register.
- `EveryTransactionOwned` and `BeliefOnEvidence` (`TransactionsProof`):
  `OwnedTransactions` and `BeliefFollowsTheWire`, under two assumptions about the
  constants:
  - `IdsSuffice`: `MAX_TRANSACTION_ID >= 3 * SLAVE_COUNT * (RESPONSE_TIMEOUT + 1)`,
    which in the code reads 2^32 - 1 >= 9 * 301;
  - `AnswersInTime`: no latency exceeds the timeout (80 <= 300).

  Neither property is inductive: nothing in them keeps the id counter from coming
  round to an id in use, or a finished transaction from lying around until its wire
  has changed. The invariant `LiveInv` adds, for each live transaction: a pending one
  of age `a` has seen at most `3 * SLAVE_COUNT * a` ids given out since its own, plus
  the calls of the current pass (`PendingOK`); a finished one was finished by this
  pass's Service, its owner's call is still ahead in this pass, and its outcome
  says what the wire still is (`FinishedOK`). A pending transaction is younger than
  the timeout, so the counter cannot catch up with it. The step proof treats all the
  calls of `ServiceForeignBus` as one kind of step, `UserCall`; two lemmas show
  that `ServicePoll` and `ServiceWriteThrough` are instances of it.
- `SilenceIsBounded` (`TransactionsProof`): `BoundedSilence`, under the same two
  assumptions. `SilenceInv` says for each slave how far its conversation has come: with `f`
  failed polls behind it, its next poll starts by `DuePoll(f)` of silence, a stall past
  the moment included; a poll in flight adds its age, which is below the timeout; one that
  failed leaves enough of the period for the next to start by `DuePoll(f + 1)`. An online
  slave has fewer than `OFFLINE_AFTER_FAILED_POLLS` failures, hence the bound.
- `WrittenIsLanded` (`OutputsProof`): `WrittenMeansLanded`, under the same two
  assumptions. The property says nothing of an output whose write is in flight; the
  invariant `OutputsInv` does: until that write is Done the device holds what was
  written before it, from then on what is in flight. It rests on `OwnedTransactions`:
  because every live write is its output's own, a Service that changes a register
  changes it to the value its owner has in flight, and because the next id is free
  (`NextIdIsFree`) no start disturbs another output's write.
- `CachedIsRead` (`OutputsProof`): `CachedReading`, under the same two assumptions. The
  invariant `ReadingsInv` says that a read which is Done and not fetched yet holds what
  its sensor still measures: within a pass no sensor changes, and outside it nothing
  waits to be fetched.
- `VirtualDevicesFollowTheirSlaves` (`OutputsProof`): `DiscoverableWhileOnline`, which is
  inductive with `TypeOK`.
- `ProgramImplementsSeam` (`SeamProof`): `ImplementsSeam`, under the same two
  assumptions. The seam starts as the program does. A call of `ServiceForeignBus` maps
  to `Fetch`, `FetchAndStart` or a stutter: its id is free (`NextIdIsFree`), and no
  other write of its point is live because every user has one transaction at most
  (`OneLivePerUser`). A Service of the driver maps to `Service` with no write lost: it
  answers at most one write of a point and none of a sensor (`OneWriteAnswered`), so
  the order in which the driver walks its map does not matter. Everything else maps
  to `DevicesChange` or a stutter.

The gateway over any driver behind the seam (`OnSeamProof`), for any set of ids:

- `OnSeamTypeCorrect`, `NothingIsForgotten`: `TypeOK` and `NothingForgotten`. The
  inductive invariant `OnSeamInv` says (`Owned`) that an id a user holds is a live
  request of its own unit, table, direction and value, and that every live request
  is somebody's; a refused start leaves its user without a request.
- `GatewayKeepsTheSeam`: `KeepsTheSeam`. Each call of a user is a `Fetch`,
  `FetchAndStart` or stutter of `ForeignBus`, each pass of the driver its `Service`.
- `WrittenIsHeld`: `WrittenMeansHeld` where the driver loses no answer of a write
  (`~LOSES_ANSWERS`). `HeldInv` says what the device holds between the driver's answer and
  the gateway's fetching it. Without the assumption it is false: run `lost_answer`.

The program around it (`ProgramProof`), for any command line, in either mode:

- `ProgramTypeCorrect`: `TypeOK`, with `ArgumentsOK`: the command line is a sequence of
  tokens as long as it is there. Parsing never leaves a port or an instance that
  is not one, whatever `strtol` makes of the tokens (`ParsedArguments`).
- `ProgramEndsClean`: `EndsClean`. The invariant is `KeyboardOK` (a terminal is raw
  only while `rawActive` says so; standard input is non-blocking exactly if it was
  configured) and `SocketsOK`
  (which sockets can be open at which stage).
- `NoCallIsRefused`: `EveryCallIsPossible`. The property speaks of the next call only;
  `SetUpInv` says that the rest of the calls can be carried out in order (`Runs`) on what
  the stack has, its networks included, and that both together are the set-up as a set
  (`SetUpMade`). That
  `SetUpCalls` is such a sequence is put together from its parts: two sequences that run
  one after the other, and add different objects, run as one (`RunsBoth`, `BuildsBoth`).
  The slaves' calls are joined by a recursive function; that every prefix runs is
  proved by the least slave at which one would not (`ForEachSlaveBuilds`).
- `SetUpMatchesMapping`: `MappingMatchesSetUp`. `IsSetUp` says which objects the set-up
  makes; the search finds a slave exactly where one matches (`FoundIsMatched`); the two
  conditions are the same in each mode (`MatchedIsSetUp`).
- `NamesTellApart`: `NamesDistinguish`. Every name is one of three forms (`IsNamed`), two
  of which are equal only for the same type and instance, or the same slave.
- `EnabledIsAnswered`: `EnabledAreAnswered`. Each kind of object has its lemma
  (`DeviceAnswers`, `PortAnswers`, `MappedAnswers`); the last holds at any time.
- `ServedIsWritten`: `ServedMeansWritten`, from `SlotIsNull` and `OutputIsServed`: the
  callbacks show the array and the default of the one output that the search finds.
- `WriteStaysInItsObject`: the action property `WritesStayInTheirObject`. A write commands one
  output, and an output shows at one address (`OneAddress`).
- `AnnouncedIsReachable`: `AnnouncedAreReachable` where the stack does not refuse to
  switch a service (`SetServiceOutcomes = {TRUE}`, as in the run: the code announces whatever
  the result is). `StartsReachable` adds that no belief is lost before the first announcement.

The parts that share no state (`PartsProof`):

- `AcceptedValuesUnderstood`: `RegisterUnderstood` for every accepted value.
- `SameWinner`: `WinnersAgree` for arrays of any size. The stack's resolution is a
  recursive walk; the proof shows that the winner among the slots from `n` on
  satisfies the same equation, and that the equation has one solution (by the least
  number of steps from the end where two could differ).
- `CommandsTakeEffect`: `CommandTakesEffect` as an action property.
- `NoPortStarves` and `PortsAreTheirInstances`: `NoBindingStarves` and
  `PortsBelongToInstances` for any number of bindings and datagrams. `TransportInv`
  adds that a socket belongs to one binding (`SocketsOwned`) and `InTurn`: a port that
  was passed over once comes, counted from the cursor (`Turn`), before the one that was
  served instead, so it cannot be passed over for that one again. That there are as
  many sockets as bound instances is a bijection (`SocketsAreCounted`).
- `ViewsAgree`: `ViewsNeverDisagree` for any octets and any room in the line. Each part of
  the summary is within the dump's: the route but for the cut (`RouteWithinXml`), the
  service and the reason by name or number (`NameOrNumberIsThere`), the request whichever
  form it takes (`RequestWithinXml`).
- `CutFramesOnlyForget`: `TruncationOnlyForgets` for any datagram cut at any length.
  `FrameInv` says what of the memory arrived; then layer by layer (BVLC, routing, NPDU,
  APDU, object and property) each step of the walk over the cut frame finds what the
  walk over the whole one finds, or stops (`CutShort`).
- `RestartsAsPromised`: `PromisesAreKept` for any delays and any number of requests.
- `RepliesAreTrue`: `ReplyTellsTheEffect` for any numbers in a test command: what passes
  the range check survives the casts (`CastsKeep`).
- `SearchIsComplete`: `NothingIsOverlooked` for tables of any length
  sorted by id, and any id: the half that is given up cannot hold it.

Assumptions about constants are in the modules that declare them. Those that are not
plain types: an id is not the refusal and `Null` is no number; a `Declined` read
differs from every answer (`DeclinedAssumption`); `DEFAULT_PORT` and
`DEFAULT_DEVICE_INSTANCE` are a port and an instance; the look-up's tables are sorted, as
the code's are.

Only model-checked: `WritesLand`, `OutagesReported` and `SlavesComeBack`, with either
driver. Liveness under fairness and `ENABLED` are out of the prover's reach. So are
induction theorems over operators and `RECURSIVE` operators, which is
why recursion here is written as recursive functions, and arguments by
induction as arguments about a least counterexample. The three properties that the
code violates are refuted by their runs.

## Not modelled, and why

- The wire test client, its codec and the tests: they are programs about this program.
  They were read for what it promises. The client's retries reuse the invoke id, so a
  late answer to a first try can answer the second (listed as a hazard).
- The BACnet stack: a private submodule, absent from the repository. What the modules
  need of it (its set-up calls, its switches, its resolution of a `Priority_Array`) is
  modelled from how `main.cpp` uses it and marked external in `PROJECT.json`.
- What the code does not promise: agreement of the discovery switches after the stack
  refused one of two; correction of a point that was changed at the device, before the
  next command or outage; an outage behind a driver that refuses every poll for ever; a
  belief about the slaves before their first poll. `PROJECT.json` has a note with each. An
  I-Am and the switch before it are one step: nothing runs between them.
- `LoadBACnetFunctions`, which fails or not with the build.
- A `SetupUDP` for an instance that is bound already: the header asks to call it once per
  port (`CASExampleHelper.h:112`). Link speed and interface addresses: they are read
  from the operating system and passed on.
- Numbers that overflow inside `sscanf` in a test command.
- The answers of the driver for a unit or address that does not exist: the gateway
  asks only for the points of its three slaves.
- Byte codecs other than the decoder's, formatting, wording, escaping and logging.

## Plan

Done: the gateway and simulated bus in one loop; the seam, the refinement and the
gateway over any driver; start-up, objects, keyboard and program; transport, restarts,
test control, decoder, name tables; the proofs above.

Left, in the order of what matters most:

1. An abstract specification of the cache's promise (each output: last commanded,
   last landed) that `GatewaySystem` implements.
2. `GatewayProgram` without its abstraction of the driver: start-up composed with
   `GatewayOnSeam`, so that served values and landed values are one theorem.
3. A bound on how long an output can wait for its write, in the way of `BoundedSilence`.

## Running the checks

    tlc -workers 2 -config OneSlave.cfg MCGatewaySystem.tla
    tlapm OutputsProof.tla

and likewise for the other configurations and proof modules: `Silence`, `TwoSlaves`,
`Operator`, `Liveness`, `AsSoonAsBack` with `MCGatewaySystem`; `Seam`, `SeamLiveness`,
`LostAnswer` with `MCGatewayOnSeam`; `Program` with `MCGatewayProgram`; `Parts`,
`TruncatedFrame` with `MCParts`. The operators with a suffix (`Checked_KeepTimeouts` and
the like), each defined before the one it resembles, are plausible mistakes: put in
place of the original, the property `PROJECT.json` names beside it fails.
