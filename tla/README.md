# dryer in TLA+

Specifications of dryer from the machine description to the driven output: how
a machine is resolved, locked and flashed, how a job is lowered, audited and
streamed, and what the controller makes of it. The TLA+ modules are translated
from the Rust sources, model-checked with TLC on small instances, and the central
safety properties are proved with TLAPS for every instance.

`PROJECT.json` lists components, runs, mutants, the line-by-line map from
definitions to sources, findings, hazards and theorems. This file explains them.

## 1. The system

dryer resolves a machine description into a locked machine, builds and flashes
firmware for its controllers, and streams jobs to them. Up to the lock it
computes in phases over documents and a registry of packages, which are
directories that others may be writing. A flash reads some of them again, and
files and devices that come and go. From then on there are actors with clocks: a
host that streams commands, links that lose and delay them, and controllers that
execute them on a timeline and must be safe on their own.

| component | source (`src/crates/`) | state | operations |
|---|---|---|---|
| simulated controller | `simulator/src/lib.rs` | virtual clock, heaters, axes, command queue, queue window, last heartbeat, latched fault | `accept`, `run` (start due, envelope, integrate, sample), `process_wire_frame`, `inject_reset`, `set_queue_window` |
| simulated command link | `simulator/src/lib.rs` (`SimTransport`) | link up or down, messages in flight with arrival times | `send`, `deliver_due`, `drop_link`, `restore_link` |
| workflow runner | `workflow-runner/src/lib.rs` | job queue, last status, counters, last tick, state | `enqueue`, `enqueue_batch`, `update_controller_status`, `next_dispatch_batch`, `dispatch_to_client` |
| job streaming loop | `workflow-runner/tests/integration.rs` | position in the loop | read status, dispatch, run |
| command client | `control-client/src/lib.rs` | next sequence number | send a command |
| clock exchange | `control-client/src/lib.rs` | next sequence number, the pending exchange, the estimator | begin, accept an answer, expire |
| clock estimation | `clock-sync/src/lib.rs` | last sample, offset interval, drift interval | push a sample, project a window |
| simulated clock link | `simulator/src/clock_transport.rs`, `clock_cluster.rs` | link up or down, bounded queue of answers | send a request, receive what is due, drop, restore |
| controller daemon | `controller-daemon/src/lib.rs` | sessions, daemon state | register, record a heartbeat, update a status, audit heartbeats |
| transport adapter | `transport-adapter/src/lib.rs` | receive buffer | push bytes, find the next frame, read and dispatch |
| control protocol codec | `control-protocol/src/lib.rs` | none | encode, decode, CRC |
| toolpath auditor | `toolpath-auditor/src/lib.rs` | none | audit a command sequence |
| G-code lowerer | `gcode-lowerer/src/lib.rs` | modal state (positions, feed, positioning mode) | lower a line, lower a program |
| machine graph documents | `machine-schema`, `machine-parser`, `package-model` | none; a package is a directory | parse, validate, take a snapshot of a package |
| machine resolver | `machine-resolver/src/*` | the phase, the closure, the claims, the diagnostics | select versions, expand, allocate, validate, partition, plan artifacts |
| machine lock | `machine-lock/src/*`, `dryer-cli` | the lock | generate, validate, verify |
| firmware build | `firmware-build/src/*` | none | make and verify a build plan and an image |
| firmware flash | `firmware-flash/src/*` | the plan, the temporary artifact, the tool process | discover and match devices, plan, validate, stage, run the tool, clean up |
| command line and UI | `dryer-cli`, `ui` | none | arguments and presentation |

Interactions. The runner asks the auditor for a verdict when it enqueues, and
sends what it dispatches through the command client, whose sink is a frame
handed to `process_wire_frame` or a message on the link. The controller pulls
what has arrived on its link at the head of every iteration of `run`. The host
loop copies `queue_status` and the latched fault into the status it reports to
the runner. A job comes out of one lowerer, line by line. The stream reader
feeds the bytes of a transport to the frame codec, decodes each frame it finds
and hands queue statuses to the daemon, which keeps a session for each
controller and faults when one goes silent. The resolver's phases pass on the
closure, the expanded machine and the claims; the lock copies what they decided
and pins every package by the hashes of its tree; the build makes images from the
lock alone, and the flash holds the lock, the build plan, the registry on disk,
the artifact file and the enumerated devices against each other before a tool
runs.

Hard behaviours.

* Safety that must not depend on the host: heaters fall off when heartbeats
  stop, although queued commands go on executing and may raise a target again;
  a latched fault survives whatever arrives after it.
* Order and time: commands arrive in any order, are validated against a window
  that moves and may be reconfigured, and execute in timestamp order on a
  quantum. A frame handled between two calls of `run` is accepted at an instant
  `run` has passed already.
* The link: latency consumes the lead of scheduled commands; jitter and
  duplication deliver old heartbeats; a cut loses what is in flight.
* Stale knowledge: the runner infers headroom and completion from a snapshot of
  the controller's fill level; a transport error stops a batch that is already
  accounted for.
* Answers to clock requests come late, twice, out of order or never, race the
  timeout, and belong to requests that have expired; a request is refused when
  the link's queue is full, but its sequence number is spent. The estimate is
  integer arithmetic over timestamps of two clocks that run at different rates.
* A byte stream: frames arrive in pieces, among noise, damaged, behind false
  headers that ask for more bytes than follow; the buffer is bounded; a frame
  that decodes to nothing ends the call and drops what the call dispatched.
* Modal programs: absolute and relative positioning and homing alternate, and
  each command is a distance; the auditor follows a job from an assumed origin.
* A fixpoint: the versions of one round decide the requirements of the next, so
  that a selection may oscillate; claims made by name and claims found by search
  compete for connectors and timer channels, in an order.
* Files read more than once: a package is edited between the reads of its manifest, of
  its tree and of its metadata; an artifact is rebuilt after it was hashed; devices are
  plugged in between the plan and the tool; a step fails and a temporary file must go
  all the same, and its removal may fail too.
* Boundaries: capacity, horizon, the last sequence number, rates below one
  micrometre per step, targets and temperatures around 0, `u64 as i64`.

What makes each component correct: the controller never energizes what its
envelope or its fault forbids and executes exactly what is due; the link bounds
the end-to-end reaction time; the runner loses no command, overfills nothing,
keeps order and spacing, and completes if and only if the job is done; the
projected window contains the controller's clock; an answer is used once, for the
request it answers, and not after its timeout; the daemon holds what a controller
said last; the codec loses no intact frame and forges none; the lowerer knows
where the machine is; the auditor admits nothing beyond the bounds; a closure
satisfies every requirement in it; no connector and no timer is given twice; what
can heat or move has a safe state on its own controller, in the lock too; a
snapshot is of a tree that existed; what is flashed is what the lock says; the
flash executor leaves no copy behind that it could still remove.

## 2. Modules

| module | models | extends / uses |
|---|---|---|
| `EdgeSafety` | the abstract contract of a controller towards its dangerous outputs | |
| `SimController` | the simulated controller | instantiates `EdgeSafety` |
| `SimControllerProofs` | its theorems | extends `SimController` |
| `ControlLink` | the controller behind its link | extends `SimController` |
| `WorkflowRunner` | the runner with any controller | |
| `WorkflowRunnerProofs` | its theorems | extends `WorkflowRunner` |
| `JobStream` | the runner, the client and the controller under the host loop | extends `SimController`, instantiates `WorkflowRunner` |
| `HostProofs` | the theorems about the controller behind its link and under the job stream | extends `JobStream`, `ControlLink`, `SimControllerProofs`, instantiates `WorkflowRunnerProofs` |
| `ClockSync` | the clock estimator, as operators over its record of fields | |
| `ClockSession` | clock exchanges over the simulated clock link | extends `ClockSync` |
| `ClockSessionProofs` | its theorems | extends `ClockSession` |
| `ControlProtocol` | frames and their payloads, as operators over sequences of units | |
| `FrameCodec` | the receive buffer in which frames are found again | extends `ControlProtocol` |
| `ControllerDaemon` | the daemon's sessions and state | extends `ControlProtocol` |
| `StreamReader` | a controller, a damaging byte stream, the dispatching reader and the daemon | extends `FrameCodec`, `ControllerDaemon` |
| `StreamReaderProofs` | its theorems, and those about the codec and the frames | extends `StreamReader` |
| `GcodeLowerer` | the lowerer, as operators over its modal state | |
| `ToolpathAuditor` | the audit of a command sequence | |
| `JobPreparation` | from program lines to the runner's queue | extends `GcodeLowerer`, `ToolpathAuditor` |
| `JobPreparationProofs` | its theorems | extends `JobPreparation` |
| `MachineDocuments` | what manifests and package payloads must satisfy, by diagnostic code | |
| `PackageSelection` | phases 1 to 3 of a resolution: parsing and the choice of versions | extends `MachineDocuments` |
| `ConnectorAllocation` | phases 4 to 7: targets, expansion, capabilities, allocation | extends `PackageSelection` |
| `MachineResolver` | phases 8 to 12: electrical, safety, workflows, partition, artifacts | extends `ConnectorAllocation` |
| `Lockfile` | what a lock must satisfy | extends `MachineDocuments` |
| `MachineLock` | the lock and verify-lock commands after a resolution | extends `MachineResolver`, `Lockfile` |
| `MachineLockProofs` | the theorems about the selection, about connectors and timers, about hazardous outputs, and about what the lock carries | extends `MachineLock` |
| `PackageSnapshot` | reading a package directory that others write | |
| `FirmwareBuild` | build plans and images as functions of a lock | extends `Lockfile` |
| `FlashPlan` | discovery and planning, access by access | extends `PackageSnapshot`, `FirmwareBuild` |
| `FlashExecutor` | the native executor and its tool | extends `FlashPlan` |
| `FlashExecutorProofs` | the theorems about snapshot, plan and flash | extends `FlashExecutor` |
| `MC...` | small values of the constants for TLC | |

### SimController

One iteration of `run` is `Tick` (time advances by `STEP_TICKS`), one `Deliver`
for each command the transport hands over, and `Finish`, which models everything
the iteration does then, in the code's order: `start_due` pops the due prefix of
the queue, each command overwriting the effect of earlier ones on its heater or
axis; the heartbeat envelope looks at the heaters as those commands left them;
the plants move; the temperature sample is taken. `stepping` is true inside an
iteration, and no other entry point runs there because the controller has a
single owner. Between iterations come `WireCommand` (a command frame),
`Reset` (fault injection) and `SetQueueWindow`. `Accept` is the whole of
`accept` with its checks; a refused command changes nothing.

Abstractions. The thermal step computes with `f64`: the model only says that a
step takes the temperature from where it is towards its asymptote (ambient, or
ambient plus gain when the heater is driven) and not past it, which the code's
Euler step satisfies for `tau_ms >= 1`. The amount is nondeterministic, so
every property about heaters holds for all plant parameters. The code compares a
temperature with its target after truncating it to whole milli-degrees; the
model's temperatures are the truncated ones. Positions are
unbounded integers (an overflow of `i64` micrometres is nine million kilometres
away); rates keep their cast from `u64` to `i64` and their truncating division.
The event trace and the telemetry are left out; so are the sequence numbers of
commands, which no receiver looks at. `MsPerS` is the divisor that turns um/s
into um per step (1000 in the code).

### EdgeSafety and its refinement

The contract knows the silence since the last heartbeat, the set of energized
outputs and whether a fault is latched. The refinement mapping counts silence at
the last iteration that *ended* (`Accounted`), because within an iteration the
controller has advanced its clock and not yet enforced anything. `Finish` maps
to `Elapse`, an accepted heartbeat to `Hear`, `Reset` to `Fault`, all other
actions to stuttering steps.

### ControlLink

`Send` puts a message and perhaps its duplicate, one tick later, on the link;
the pseudo-random rolls are nondeterministic choices. A lost message, or one
sent over a severed link, is a stuttering step. `LinkTick` is the call of
`deliver_due` at the head of an iteration, a stable sort by time of arrival
(what has arrived at each tick up to now, `Due`, in the order it was sent);
`LinkDeliver` accepts one of the messages; `LinkFinish` may only happen once all
are accepted. `DropLink` clears what is in flight. `host_heartbeat` and
`severed_at` are history variables for the properties.

### WorkflowRunner

`EnqueueBatch` is both `enqueue` and `enqueue_batch`; the auditor is the parameter
`Passes`. `UpdateControllerStatus` follows the code's order: flags, completed count,
completion test, end of throttling. `next_dispatch_batch` is the disjunction of its
three outcomes; `ScheduledTick` is the chain of maxima and the one clamp, and `TickOf`
is the function over the batch in which each command builds on the tick of the one
before. `dispatch_to_client` sends the batch (`outbox`) command by command and returns
on the first error (`SendFails`). The counters and ticks saturate at 2^64 in the code
and do not here.

### JobStream

The loop of `integration.rs`: read the status, dispatch, send each frame to the
controller, run one step, repeat, while the host may enqueue more at any point
between iterations. `RereadsStatus`, `Resets` and `SinkFails` open the
deviations: several dispatches on one status, a controller reset, and transport
errors. `started` is a history variable: it counts the commands the controller took
out of its queue and began to execute. The motions it began last may still run, so
it is not a count of finished commands.

### ClockSync and ClockSession

An estimator is a record of its four fields; `Pushed` is `push`, which replaces
it or, for a sample it rejects, leaves it as it was, and `Projected` gives the
ends of `project`'s window. Divisions round as the code's do (`\div` is
`div_floor` for positive divisors). The estimate's anchor is always the latest
observation, so it is not kept twice. Midpoints decide nothing and are left out.

`ClockSession` is the session of the control client, the simulated transport and
the controller's clock. `Begin` is `begin` with the transport's `send_request`:
the number is spent first, then the request travels with a delay, a loss or a
duplicate of the request and of each answer, all chosen on the spot as the
transport does (`Scheduled`). When the answers do not fit the queue the
transport stays as it was and the exchange is not pending. `Receive` is
`receive_due` followed by `accept_response`: the earliest due answer, first in
first out, ends the exchange only if it was awaited. `Expire`, `DropLink` and
`RestoreLink` may happen at any time. `Advance` moves the host's clock;
`ControllerAt` is the controller's, `rate_ppb` away from it and rounded down.
`used` is a history variable.

### ControlProtocol, FrameCodec, ControllerDaemon and StreamReader

A frame is a sequence of units laid out as the code lays out its bytes: magic,
version, message type, sequence, payload length, payload, checksum. A number wider
than a byte is one unit, and a name is the sequence of its characters with its
length before it, so that truncation, a wrong length and trailing units are all
there. `crc32c` is a checksum folded unit by unit, as the code's is bit by bit, but a
weaker one, modulo a prime. What the theorems ask of a checksum is stated as
`ChecksumHolds`, a hypothesis and no property of the code: a
write completes no frame but the one it writes, and none that decodes when it is
damaged, noise or alien; and neither do the two ends that meet where a chunk was lost.
`Envelope`, `Status` and `Response` are the values that can be encoded, `Message` what a
frame says.

`NextFrame` is the whole loop of `next_frame`: a candidate header that is not one costs
one unit and the scan goes on (`Stops` is where it ends), one that may yet become a
frame stays in the buffer, and what remains when there is none is at most half a magic
(`Remainder`). A call of `read_and_dispatch` is `Read` and one `DispatchNext` per frame;
the mutable borrows exclude everything but the writer in between. A frame that does not
decode ends the call and clears what it dispatched, while the daemon keeps what it was
told. The controller writes any frame type, whole or damaged, frames of another version
of the format (`WriteAlien`), and the line adds noise. `unread`, `sent`, `trouble` and
`renewed` are history variables: the frames written undamaged with what they say, up to
the last one delimited (after a lost chunk a scan may pass over some of them), the last
status among them, whether a frame was rejected or a chunk lost, and whether the
controller was registered (again) since the last status the reader dispatched. The
daemon's host calls (registration, again too, heartbeats, audits) interleave with the
calls of the reader.

### GcodeLowerer, ToolpathAuditor and JobPreparation

`Lower` takes the lowerer's state and a line, a sequence of words, to the next
state and the commands, with the code's treatment of comments, of words that are
no numbers, of modes, of feeds and of heater targets. `Audit` is the auditor's one
pass. `JobPreparation` lowers any program of lines with one lowerer and hands what
came of it to `enqueue`, command by command, or to `enqueue_batch`, at any time.
Both passes are recursive functions over positions (`Kept`, `LowerMove`, `Audit`); the
reference they are compared with is `Track`, where an axis is after each command.

### MachineDocuments, PackageSelection, ConnectorAllocation and MachineResolver

A document is its fields, an absent one `None`, and a check a set of diagnostic codes
(`Code`), empty when it passes. Each phase reports all it finds and the resolution stops
at the first that reports an error (`Proceed`), as `resolve_doc` does. The selection is
one action per round; the allocation one per claim. What is still to be placed is a set,
`pending`, from which the next is taken in the order of the maps (`PlacedBefore`): first
the claims components name, then the search for components whose device leaves the
choice; a refused claim is reported and the next one tried. A dependency whose range
does not parse is `None` and requires nothing (`Dependencies`). `FirstTemplate` is the
template that wins when several contribute a name. The registry is a value here: a
resolution reads it through its in-memory index.

### Lockfile and MachineLock

`validate` is what reader and writer of a lock check, by lock version. `Lock` is the
lock command with its refusals in order (`LockErrors`), and `VerifyLock` looks packages
up as the command does, by name. `ResourcesCarried`, `SafetyCarried` and
`FirmwarePinned` say what a lock holds of the machine it was made for. A package stands
for its content and so for its hashes.

### PackageSnapshot, FirmwareBuild, FlashPlan and FlashExecutor

`package_snapshot` reads the tree over and over until two reads agree: paths are
listed in any order, files read in theirs, one at a time, while `Write` changes,
creates or deletes them. `FlashPlan` is `plan_dry_run` cut at every access to
something others may change: the discovery, the hash of the manifest, the snapshot,
the reading of the metadata, the artifact. Between them `EditPackage` interferes;
`Rebuild`, `Plug` and `Unplug` interfere between the plan and the tool (before
its first read a thing may be anything already). `FlashExecutor` then
validates, uses the artifact where it lies or a copy of its own, and runs the tool,
a program of its own that opens the file and finds its device by the arguments it
was given (`Takes`): `dfu-util` refuses when several match, and `picotool` is told
where the device is only when the bus gave it an address. Each of these steps may
fail where the code returns an error, and where it discards one: a failed write may
leave a partial copy (`StageCopy`), and a copy that cannot be removed stays
(`RemoveTemp`). `rebuilt` and `removal_refused` are history variables.
An image stands for its bytes and its hash. The manufacturer of a device is left
out; it is matched like the product. `Approved` is the plan made ready as the
repository's executor tests make it, since the reference backend's artifact is
never deployable.

### Mistakes to detect

Operators under a comment "A mistake to detect" are not part of a specification.
Each is a mutated form of the definition after it (a dropped guard, an
off-by-one, a swapped order), and `PROJECT.json` names the property that TLC
finds violated when it takes the definition's place. They are the evidence that
the runs can fail.

## 3. Runs

Run `tlc -config <run>.cfg <module>` in this directory.

| run | what it asks | shows |
|---|---|---|
| `SimHeat` | `TypeOK`, `HeartbeatEnvelope`, `FaultedOutputsOff`, `QueueSound`, `ExecutesWhenDue`, `EdgeSafetySpec` | with a supervised and an unsupervised heater, above 0 degrees, under every interleaving of deliveries, frames, resets and window changes, a silent host finds the heater off, a fault keeps everything off, the queue stays ordered and executes exactly what is due, at most one quantum late |
| `SimLink` | `SeveredLinkStarves`, `SilentHostStarves`, `ExecutesOnItsQuantum` | a cut link starves the heater within its timeout from the cut, a silent host within the timeout and one transit; over the link nothing executes late |
| `Runner` | `Conserved`, `CompletedIsDrained`, `BatchFits`, `FaultedIsFinal` | under arbitrary controller reports the runner loses and invents nothing, fits its batches into the headroom, completes only when drained, and stays faulted |
| `JobLive` | `HorizonKept`, `CompletedMeansStarted`, `DispatchedIsAccepted`, `JobCompletes` | with one dispatch per status and a margin that fits the window, all commands are accepted in order, no job is reported `Completed` before its last command was begun, and every job completes |
| `JobFaults` | `MotionAdvances`, `MarginKept` | with moves and homing, transport errors, a reset and several dispatches on one status, order and spacing survive, and each undisturbed motion advances in every iteration and covers its distance exactly |
| `ClockTrue` | `SessionTypeOK`, `HonestAnswersCount`, `WindowNearTruth`, `NoSequenceReuse`, `SamplesAreRoundTrips` | whatever the link does, only a round trip that is in time becomes a sample, the estimator rejects none of them as inconsistent, no number is used twice, and the window contains the controller's clock up to one tick |
| `Stream` | `NothingForged`, `IntactFramesKept`, `LostOnlyAfterRejection`, `DaemonKnowsStatus` | among pieces, noise, damage and false headers the reader dispatches nothing but what was written undamaged, in order, once, as it was meant, and none of it is swallowed; the bounded buffer overflows only after a frame was rejected; the daemon holds the last status sent, and the blank only when a registration came after it |
| `Toolpath` | `LoweredKeepsPosition`, `AuditDecides`, `QueueAdmissible` | for every short program the lowerer's positions are where the commands lead, the audit passes exactly the jobs that keep the bounds from position 0, and nothing beyond a feed rate or a ceiling enters the runner's queue by either way |
| `Resolve` | `ClosureConsistent`, `HardwareExclusive`, `HazardsGuarded`, `LockCarriesResolution` | whatever the manifest claims and the registry holds, an accepted closure satisfies all its requirements, no connector or timer is given twice, everything that can heat or move has one safe state and its sensor on its own controller, and the lock carries it all with every package pinned |
| `Deploy` | `SnapshotExisted`, `PlanFromLock`, `FlashedAsPlanned`, `NoCopyLeft` | while the package is edited, the artifact rebuilt and devices come and go, a plan is made of the locked package, what a tool writes is the locked controller's image unless an artifact staged in place was rebuilt, and a copy is left only when writing it, starting the tool or the removal failed |
| `VerifyLock`, `FlashDevice` | one property each | violated: see section 6 |

Bounds. Time is counted in ticks; one integration step is 2 ticks, so that an
odd timestamp is off the quantum and an even one on it. The controller's clock
runs for 4 steps (`MaxTime = 8`): a command can be accepted ahead, become due,
execute, be followed by a silence beyond the timeout of one step, and by a
reset. The capacity of 2 lets the queue be full, hold equal timestamps, and
receive commands out of order. The commands name a heater and an axis that do
not exist, too. Motions take one or several steps, in both directions. On the
link, latency 1 and jitter 2 make arrival times cross iterations and overtake
each other; two messages in flight are enough for a duplicate and for a
reordering. The job runs have 4 commands, a horizon and batches of 2 and a
capacity of 3, so throttling, several batches and late enqueues
(`LastEnqueue = 6`, within the job's execution) all occur; `MaxTime = 24` is
enough for every job to complete, as `JobCompletes` would fail otherwise. In
`Runner` the reports are arbitrary: each fill level from empty to full, two
window positions, underruns, a dead heartbeat. In the clock runs a tick is a
third of the unit in which drift is counted (`PARTS_PER_BILLION = 3`) and the
slew bound is 2/3, so that a few ticks show what takes thousands at the scale of
the code: rounding in every division, clocks at both ends of the bound, one
within it and one that keeps the host's time. `MaxTime = 9` with a processing
time of 2, jitter of 1 in both directions and a timeout of 4 leaves room for two
samples, and thus an estimate, and for exchanges that expire with their answers
still on the way; three sequence numbers (`LastSequence = 2`) run out within a
run; two answers fit the queue, so a duplicate fills it. `WindowNearTruth`
allows one tick below the window because of the half tick in the anchor of an odd
exchange (section 6); it allows none above.

In `Stream` a frame takes at most 14 units, a read 6 or 13 and the buffer 26, so frames
are cut anywhere, two of them and noise are in the buffer together, and a chunk may not
fit. Three writes are a frame, something that disturbs it, and a frame after that; the
noise ends in half a magic, asks for more than follows, asks for more than a payload may
have, or is a burst of five rejected frames, which leave no room in the buffer for the
next read. In `Toolpath` the programs are all those of up to 4 of 14 lines, which set
both modes, home all axes or one, move two axes with a feed on either side of the limit,
and carry comments, unknown words and heater targets around the ceiling. In `Resolve`
105 manifests meet 34 registries: claims and search on one and two controllers, shared
and separate timers, a sensor on the other controller, templates that compete for a
connector, several board and chip versions, a pin that is refused, requirements that
conflict, do not parse, or oscillate through all 64 rounds (the code's bound), and one
registry or manifest for each diagnostic of the later phases. In `Deploy` a package has
two files and two contents, the retries are the code's 3, two devices share their USB
id, and one disturbance falls between the plan and the tool; each refusal of
`plan_dry_run` has a request of its own.

Deadlock is checked in `Resolve`, where a finished command does nothing (`Stop`);
elsewhere the bounds on the clock, the writes, the program or the disturbances
stop the system.

Fairness. Only `JobLive` assumes any: weak fairness of the host loop, which is
one thread that calls functions that return. Enqueueing is not fair (the host
need not enqueue), and nothing is assumed of resets or errors.

## 4. What is proved

`tlapm` checks the proofs of `SimControllerProofs`, `HostProofs`,
`WorkflowRunnerProofs`, `ClockSessionProofs`, `StreamReaderProofs`, `JobPreparationProofs`,
`MachineLockProofs` and `FlashExecutorProofs`. They assume the named ASSUMEs on
the constants, which are what the Rust types and constructors guarantee, and
nothing on sizes: any number of heaters, axes and commands, any capacity, windows
and timeouts; any files and contents; any manifests, registries and safety
profiles; any devices. A theorem that needs more of the constants says so in its
ASSUME, and this section says why the code has it.

* `TypeCorrect`: `TypeOK`. Inductive by itself. The lemmas are about sequences:
  inserting into and popping from a queue leaves a queue of the right length.
* `EnvelopeHolds` and `FaultHolds`, for a machine that is `Warm` (ambient temperature
  and heater gains not below 0). Neither invariant is inductive. After a step nothing
  would exclude a heater that is forced safe with a target left over, or one that is
  driven without a target, or a heartbeat dated inside an iteration that is over.
  `EdgeInv` adds these facts: no temperature falls below 0, a forced heater has no
  positive target, a driven one has one, and the last heartbeat came in this iteration
  or before the last one ended. The heart is `HeaterThroughIteration`: whatever prefix
  of the queue is popped, the envelope runs on the heater as the popped commands left
  it. `Warm` is necessary: in a cold room the envelope fails (section 6).
* `ImplementsEdgeSafety`: initial states map to initial states and each action
  maps to the step named in section 2, from `TypeOK` and `EdgeInv` in both
  states.
* `QueueTheorem`: `QueueSound`, for any windows, capacity and quantum. It holds with
  two facts about the clock: it only shows multiples of the quantum, and
  within an iteration it has passed the first (`QueueInv`). A command without a timestamp
  is queued for the present instant, which is one of those.
* `DueTheorem`: `ExecutesWhenDue`, a step property, from `QueueInv`. What an iteration
  pops from an ordered queue is exactly what is due, and what `accept` takes while
  the clock stands is not due before the next one.
* `MotionTheorem`: `MotionAdvances`, for axes whose rates do not truncate to 0
  (`Paced`): the code's integration test moves at 10 mm/s or more, well above the
  1000 um/s below which a motion never ends (section 6). `MotionInv` says that every
  motion is directed to its end, and that the queue holds nothing but commands.
* `LinkImplementsController`: every behaviour of `ControlLink` is one of
  `SimController`, so every theorem on the controller holds behind the link too.
* `SeveredStarves`, `SilentStarves`, `OnItsQuantum`: `SeveredLinkStarves`,
  `SilentHostStarves`, `ExecutesOnItsQuantum`, for any latency, jitter, loss and
  duplication. `HeartbeatInv` bounds the arrival of every heartbeat on the link by the
  host's last one and `MaxTransit`, and that of the last one heard likewise; it needs
  the messages in flight to be well-typed (`LinkTyped`). `QueueAhead` says that the
  queue holds nothing that should have been executed already, because over the link a
  command is accepted only inside an iteration. The proof corrected the model's bound: a
  message sent between two iterations over a link without delay is heard one whole
  quantum later.
* `CommandsConserved`, `CompletionDrained`, `FaultFinal`, for every job,
  auditor and sequence of reports. `RunnerInv` joins the two invariants with the
  types they need: without the queue and the last status being well-typed
  nothing says that a batch takes at least one command and at most what is
  queued, and without both invariants together a `Completed` runner could be
  handed a batch. `FaultFinal` rests on a second invariant: a last status
  without heartbeat implies `Faulted`.
* `BatchTheorem`: `BatchFits`, for statuses that are `Windowed`, that is, report an
  earliest tick that is not above the latest, as `QueueWindow::new` enforces. The
  ticks of a batch of any length are those of a recursive function; that it exists
  (`RecursionExists`), keeps the window and spaces the batch is an induction over
  positions. The library's theorem of induction takes an operator and cannot be
  cited, so the induction goes over a set: one that holds 0, and with every number
  the next, holds the naturals (`NatSet`).
* `HorizonTheorem`: `HorizonKept`, for a host that reads the status before each dispatch
  (`RereadsStatus`; the integration test's loop does). `StatusInv`: within the
  loop, what the runner was told is what the controller holds.
* `MarginTheorem`: `MarginKept`, for jobs without ticks of their own (`UntimedJob`), as the
  lowerer makes them. `MarginInv` says it of the batch on its way, of the queue, and of
  each against the other, with the tick the runner remembers as the latest of them all.
* `AcceptedTheorem`, `CompletionTheorem`: `DispatchedIsAccepted`,
  `CompletedMeansStarted`, for jobs that are `Streamable`: untimed and without
  heartbeats, with the loop of the integration test, no faults of the transport and no
  resets, a lead and a margin on the controller's quantum, and a window that holds a
  full horizon of margins beyond the lead. The code's defaults have it (a window of 100
  ms to 1 s, 16 commands 1 ms apart), and so has the integration test (6 commands 10 ms
  apart). `FlowInv` counts: what is dispatched was begun or waits in the controller, the
  k-th waiting command is at most lead and k - 1 margins away (`ChainInv`), so each new
  one falls into the window; and the runner's counts are those of the controller
  (`CountInv`), so that a runner that sees an empty queue sees a job whose commands were
  all begun.
* `SequencesFresh`: `NoSequenceReuse`, for every sequence space, link and clock.
  `SequenceInv` ties the history to the session: unless the numbers are
  exhausted, those used are exactly the ones below the next, whatever became of
  the exchanges they were used for.
* `SessionTyped`, `RoundTrips`: `SessionTypeOK`, `SamplesAreRoundTrips`. `SessionInv`
  says of every answer in flight (`HonestAnswers`) that its number was used, that it
  is stamped in order and before it arrives, and, when its number is the pending
  one, after the request was sent. A new exchange has a fresh number, so no earlier
  answer can be taken for one to it: here `SequenceInv` is what carries.
* `HonestCounted`, `WindowHolds`: `HonestAnswersCount`, `WindowNearTruth`, for clocks
  that `KeepsToSlew`, that is, differ by at most the bound the estimator was given and
  that bound is at most twice the clock's speed. `EstimateInv` says that the last sample
  is the round trip of an earlier exchange and its observation the anchor. Of two
  readings of the controller's clock, each rounded down, the difference is less than a
  tick from what the slew allows (`Pace`); the allowance, rounded up, covers the slew of
  the exchange; and the drift is widened to the slew, so that the measured one need not
  be known. Halving an odd exchange loses half a tick at the window's lower end, which
  is the one tick in `WindowNearTruth`.
* `PositionTheorem`, `AuditTheorem`, `AdmissionTheorem`: `LoweredKeepsPosition`,
  `AuditDecides`, `QueueAdmissible`, for lines, programs and jobs of any length and any
  limits (`PreparationAssumption`, `LimitsAssumption`: what the Rust types say). That
  each recursive function exists is `RecursionExists`, and what it computes is shown
  position by position (`Positions`, a set induction as in `WorkflowRunnerProofs`).
  `Follows`: whatever the lowerer does on a line, its positions end up where
  the commands of the line lead (`LowerFollows`). `Judges`: one command more leaves the
  audit without diagnostics just when it had none and the command is fine
  (`AuditCommandJudges`), so that `Audited` carries through the job (`JobAudited`).
  `JobInv` adds the types: without them nothing says that a move has a distance.
* `SnapshotTheorem`: `SnapshotExisted`, for any files, contents and number of
  retries (`FilesAssumption`, `AbsentAssumption`, `RetriesAssumption`). The tree is
  never in one state while it is read, so the invariant speaks of each file alone:
  what a read has of a file, the file held (`ReadsArePast`), and once a file has
  departed from what the read before found, that is retired and cannot be found
  again (`DepartedIsNotFound`). When two reads agree, no file had departed when the
  second began. It assumes what `Write` says: no file returns to an earlier content.
* `ClosureTheorem`: `ClosureConsistent`, in every phase after the selection and
  through lock and verification, for any manifest and any registry in which every
  set of versions has a highest one (`VersionsAssumption`, `RegistriesAssumption`).
  The requirements a round goes by are those of the round before; a round that
  changes nothing has therefore gone by its own. No later phase touches the choice.
* `ExclusiveTheorem`: `HardwareExclusive`, for any machine. Alone it says nothing of
  a connector that is about to be given away. `ExclusiveInv` adds that the claims are
  the connectors given away, so that an unclaimed one is nobody's, and that the timer of
  every socket that steps is among those reserved. Which sockets step and which timer
  serves them is computed from the machine, its boards and the expanded graph;
  nothing has been given away before these are complete (`NothingAssigned`), and
  no step changes them afterwards.
* `GuardedTheorem`: `HazardsGuarded`. Safety is validated in one phase and the safe
  states are derived in another, so `SafetyInv` carries from one to the other what
  was established: every component passed, from there on; and once the
  firmware is partitioned, nothing is governed twice and the safe states are those of
  the partition. That what is validated implies what is wanted is `HazardIsGoverned`
  and what follows it.
* `CarriedTheorem`: `LockCarriesResolution`, for any machine, on `SelectionInv`,
  `ExclusiveInv`, `SafetyInv` and `KeyInv`. A lock files what was given away under
  controller, component and claim. That this loses nothing is the matter of `KeyInv`:
  what has been placed is not pending any more, so that nothing is placed twice and a
  component's claim names one connector; every connector given away is one of a
  controller of the machine, so that there is a lock for it; and what is pending is as
  it was listed, a claim of a component or its search. `LockHasSafety` finds the safe
  state in the partition that `HazardsGuarded` speaks of, and its sensor among the
  resources of the same controller, because an absent sensor is no resource
  (`NoneAssumption`). `LockHasFirmware` takes the packages' pins from the check a lock
  passes before it is written (`validate`).
* `PlanTheorem`: `PlanFromLock`, for any files, packages and devices
  (`ManifestAssumption`: the manifest is one of a package's files;
  `BoardsAssumption`: which errors reading a manifest may end with;
  `DevicesAssumption`: the devices are finitely many).
  `PlanInv` extends the invariant of the snapshot: the request was checked
  before anything is read; once the content was compared the snapshot is the locked
  tree; a rule read later is the one of the locked manifest, or that manifest was
  written over meanwhile.
* `FlashedTheorem`, `NoCopyTheorem`: `FlashedAsPlanned`, `NoCopyLeft`, on `PlanInv` and
  `ExecutorInv`: the digest in the order is the locked image's, in a plan that was
  made ready too; from the staging on the bytes at hand have that digest, an artifact
  used in place until one is rebuilt; a temporary file that the tool reads holds
  nothing but those bytes, and there is none before staging. What the theorems
  except is in section 6.
* `RoundTrip`: every command that `Encodable` does not refuse, every status and every
  clock frame decodes to what was encoded, for any limits and sequence number. `Framed`
  has its fields where `IsFrame` looks for them (`FramedUnits`), and a name and its
  numbers lie where `decode_payload` cuts them (`PayloadUnits`).
* `LostTheorem`: `LostOnlyAfterRejection`, for a buffer that is `Roomy`, that is, has
  room for a full read besides all but one unit of a frame. The code's has: 4096 bytes,
  against 142 of a frame and four times as many of a read. Nothing is asked of the
  checksum. `LostInv`: between two calls, until a frame is rejected, the buffer holds
  less than a frame, since a scan that finds none leaves nothing else (`NextIsScanned`).
* `KeptTheorem`, `ForgedTheorem`: `IntactFramesKept`, `NothingForged`, on any stream on
  which `ChecksumHolds`, whatever the noise, the damage, the frames and the sizes of
  reads. The hypothesis is no property of the code: with any checksum of fixed width
  some noise contains a frame that matches. It may be added to `Stream.cfg` as a
  PROPERTY, where TLC finds that the model's checksum meets it on that instance; that
  says nothing of CRC-32C. Neither property is inductive: that a frame is somewhere in
  the stream does not say that the scan stops there, nor that what it stops at is one of
  those written. `KeptInv` has a position for each entry of `unread` (`Layout`): they
  are in the order of writing (`Ordered`); every frame in the stream that decodes is at
  one of them (`Covered`); and until a chunk is lost none is missing, and no other
  complete frame reaches into one (`Whole`). The lemmas follow the positions through a
  write (`Appended`, `Littered`), a lost chunk (`Lost`) and a scan (`Passed`). The
  attempt corrected the model: once a chunk is lost, the reader may deliver the second
  of two frames of which the first went with it, so `NothingForged` says that the frame
  dispatched is the first one only until then, and the scan drops from `unread` what it
  went past.
* `KnowsTheorem`: `DaemonKnowsStatus`, under the same hypothesis. Alone it says nothing
  while a status is on its way. `KnowsInv` says that the last status in `unread` is the
  last one sent (`LastIsSent`), that without one the session holds that, and that it
  holds nothing just as long as `renewed` says (`Held`); that the daemon is told what
  the frame said is `ForgedTheorem`'s step (`DispatchKeeps`).

`Damages`, an assumption of the theorems about the stream, says that damage turns units
into units; `ReaderAssumption`, that what is written are values of the Rust types, and
that a status fits a payload (128 bytes in the code).

Only model-checked: `JobCompletes`, which is liveness and rests on fairness. Every other
property of a passing run is the statement of a theorem. The two violated properties of
section 6 are TLC's counterexamples.

## 5. Plan

The components were modelled from the controller outwards: controller, link,
runner and job stream; the clock exchange and its estimator; the byte stream with
the codec and the daemon; the lowerer and the auditor; the resolver and the lock;
the build and the flash. What could follow:

1. The older `ClockExchange`, and `MultiControllerClockSync`, a map of sessions.
2. The simulation of the flash tools in `MockFlashExecutor`, and
   `compile_controller`.
3. The loading of a whole registry from its directories.

## 6. Findings

Each is a run that TLC ends with a counterexample; `PROJECT.json` quotes the
text that says otherwise.

* `VerifyLock`: the lock pins a version of each package, and verify-lock looks
  the package up by namespace and name, which finds the highest version. A lock just
  made that pins an older version is reported as drifted.
* `FlashDevice`: the plan matches a device by USB id, serial number, manufacturer
  and product. The tool gets less: `dfu-util` the USB id, and the serial number when
  the device has one, `stm32flash` and `bossac` nothing when the device's location
  is no serial port. With the planned device replaced by another of the same id,
  the tool writes one that the rule excludes.

Also met, and not given a run: two dispatches on the same status exceed the
target horizon (`workflow-runner/src/lib.rs:325`, stated at `:20`); the
clamp to `latest_accepted` gives up the margin to the command before (`:344`,
stated at `:29`); `Completed` is reported while the last motion is still being
made (`:265`, stated at `:58`); a runner is `Idle` when its queue is empty,
although commands it dispatched are waiting in the controller (`:295`, stated at
`:47`); a motion command that comes due replaces the motion its axis is making,
which stops short of its distance (`simulator/src/lib.rs:710`); and the measured
drift bounds, computed from readings rounded to ticks, need not contain the true
rate, which the widening to the configured slew makes good.

In the controller: a rate below 1000 um/s truncates to 0 um per step, and the move never
ends (`simulator/src/lib.rs:712`, stated at `:766`); "off" is the target 0, so below 0
degrees a controller that was reset drives its heaters (`:755`, stated at `:562`). In
the runner: a command without a tick is scheduled without regard to the end of the
acceptance window, and refused (`workflow-runner/src/lib.rs:349`, stated at `:337`);
what a reset dropped, the fault refused or a failed batch left unsent counts as
completed (`:262`, stated at `:58`); `enqueue` audits each command from position 0, so
that a job enqueued command by command may leave its axis (`:197`,
`toolpath-auditor/src/lib.rs:3`). In the clock estimate: an observation is anchored at
the middle of the exchange rounded down, and the allowance for slew covers exactly half
the exchange; when the exchange is odd and the allowance comes out whole, nothing covers
the half tick, and the window starts one tick above the controller's clock
(`clock-sync/src/lib.rs:391`, stated at `:75`). `ClockExchange` keeps its exchange
pending when the estimator rejects the sample (`control-client/src/lib.rs:299`).

In the daemon: a last-seen time of 0 means never seen, and `Faulted` is never left
(`controller-daemon/src/lib.rs:60`, `:158`). In the lowerer: unknown words are no
commands and no errors (`docs/spec.md:1715` wants a typed rejection); a
parenthesised comment before a ";" is executed; a line is cut at its first "(", with
what follows the closing one.

In the resolver: a device package that cannot be read counts as no requirements
(`machine-resolver/src/requirements.rs:29`); a limit that a template contributes need
only be some quantity (`expansion.rs:97`), so that `max_step_rate: 300 mm` turns the
checks of timers off; a dependency whose range does not parse is dropped without a word
(`packages.rs:209`), which the loader reports (E0605) while it keeps the package, and
the command line never looks at what the loader reported (`dryer-cli/src/main.rs:115`);
a chip or a device outside the closure resolves, with a warning or none, and the machine
then cannot be locked; a dependency whose name has no "/" is passed over. In the flash:
`plan_dry_run` reads `package.yaml` once more after hashing it
(`firmware-flash/src/lib.rs:408`), so that the metadata may be newer than the locked
package; a package that changes and changes back between two reads is not noticed; an
artifact used where it lies may be rebuilt between the last hash of it and the tool's
reading it (`executor.rs:287`), and what is written is then the new one; a temporary
artifact stays when the tool cannot be started (`executor.rs:339`) or when it cannot be
removed, which is not looked at (`:373`), and a partial one when writing it fails
(`:395`).

## 7. Not modelled

The event trace, telemetry contents and message wording; floating-point detail;
saturation of 64-bit counters; damage that a checksum does not see; the YAML
grammar, spans and related locations of diagnostics; the loading of a registry from
disk into its index; canonical encodings and hashes, which are taken to be
injective; the plan's step texts and logs; the in-memory, TCP and serial transports
below the byte stream. `ClockExchange`, `MultiControllerClockSync`,
`MockFlashExecutor` and `compile_controller` are left to the plan. The command line
is modelled where it composes the crates (lock, verify-lock, flash, job loading); its
arguments and the UI present them.
