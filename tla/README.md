# A verification of the payload firmware

TLA+ modules of the firmware under `src/`, the TLC configurations that check
them, and proofs TLAPS checks. The code is the reference: every definition that
models code is mapped, line by line, in `PROJECT.json`, which also lists the
hazards, the runs, the seeded faults, the findings and the theorems.

    tlc -workers 2 -config DataPath.cfg DataPath.tla      # any run of the table below
    tlapm MissionProofs.tla                               # any module of proofs

## The system

The firmware is a cyclic executive on one core, without an operating system.
Two kinds of actor exist: the **loop** of `src/src/main.c` and the **interrupt
handlers**, which preempt the loop anywhere and run to completion. Handlers never
call into a task; they count (faults, ticks) or publish (events, bytes). The loop
waits for a tick of the 20 ms timer and then runs its tasks in a fixed order:

| slot of the cycle | calls |
|---|---|
| first cycle only | `subsystem_init`, `boot_and_init`, then lock the configuration or `mission_abort`, then `exec_resync` |
| INTERRUPTS | drain the event queues: fault service, link, data path, command intake |
| HEALTH_CHECK | one monitor of those due |
| COMMS | `comm_spw_link_service`, `comm_output_service`, housekeeping transmission |
| TELECOMMAND | `comm_cmd_service`: the command in flight, then the bytes received |
| PL_CONTROL | `mission_seq_step`, then the control loops |
| DATA_PATH | `data_path_manage`: one record of a transfer |
| FDIR | `error_handling_service` |
| HEALTH_CONSOLIDATE, TELEMETRY | consolidate, stage housekeeping |
| MAJOR | if a 500 ms boundary went by |
| WATCHDOG | kick, if healthy |

### Inventory

| component | state | operations | what is hard | what makes it correct | status |
|---|---|---|---|---|---|
| Executive, `exec/exec_core.c` | tick, major and position counters of the interrupt; consumed counts, slot, overruns of the loop | `exec_on_minor_tick` (interrupt), `exec_wait_for_minor_tick`, `exec_resync` | two counters, no lock, 32-bit wrap, overruns of several cycles | no tick lost uncounted; slot in phase with the interrupt; every major boundary reaches the loop | modelled, proved |
| Event queues, `plat/plat_irq.c` | slots, free-running head and tail, stamp, drop count | `irq_handler` (interrupt), `plat_irq_take` | lock-free, word-by-word copy, wrap, full queue | a bounded queue that refuses the newest; no torn event | modelled, proved |
| Fault service, `svc/svc_fdir.c` | reported, serviced, record per class, escalation counts | report (any context), clear, re-entry note, one pass per cycle | reports during the pass; escalation over a link whose failure is a fault | exact counts; a class is elevated exactly at its limit, and a spent limit escalates | modelled, proved |
| Mission sequencer, `mission/mission_seq.c` | stage, attempts, stalled, aborted, payload status | one step per cycle, abort and payload status by anyone, inside a step too | retry count shared with other reporters of the class | bounded attempts; a stall is escalated; no stage skipped | modelled, proved |
| Boot, `plat/plat_boot.c`, `plat_devinit.c`, `plat_post.c`, `plat_safe_outputs.c` | step, attempts, outcome; registered outputs, devices | steps retried in place, memory test, tiers of devices, terminal and clear | attempts counted by the fault service, which has no loop yet; partial failures between attempts | outputs safe first; success only on working hardware; attempts within the limit and escalated; boot ends | modelled, proved |
| Health and watchdog, `svc/svc_health.c`, `svc/svc_watchdog.c` | per monitor: countdown, failures in a row; verdict | check, consolidate, kick | staggered periods, one of them longer than the timeout; tolerance; advisory monitors | reset when deadlines are missed, and only then or when the block keeps being hit or cannot be repaired | modelled, proved |
| Configuration, `svc/svc_config.c` | live block, checksum, image, lock | set, save, restore, verify and correct, lock | corruption between verification and set; a store that does not answer in mid-correction, or lacks parameters | what is corrupted is repaired within a period, but for what is summed over or an image lacks | partly: no calibration |
| Housekeeping link, `comm/comm_rs485_hk.c` | staged frame, time of the last attempt | stage, transmit, raise flag, request reset | the interval is a parameter that may be corrupted; a failing link reports faults | never silent longer than the longest legal interval | partly: no frame layout |
| Link manager, `comm/comm_spw_link.c` | state, start budget | service, send, receive, drain | timeouts racing answers, retries | a link that comes and goes stops no transfer for good; what it promises of `FAILED` it does not keep (below) | modelled |
| Output queue, `comm/comm_output.c` | table of descriptors, counts | submit, service | refusal in mid-pass, full table, borrowed buffers | nothing accepted is lost or dropped; what it promises of order among equals does not hold (below) | modelled, proved |
| Store, `data/storage_nand.c` | records on the device, transfer cursor, staging buffer | store, begin, service, clear | device failures in mid-transfer, a full queue | each record that may be erased has a descriptor queued or sent; transfers end | modelled, proved |
| Command intake, `comm/comm_cmd.c`, `plat/plat_isr_uart.c`, `svc/svc_ring.c`; `comm/comm_process.c` | ring, assembly buffer, command in flight | receive (interrupt), drain, track, assemble, process | bytes and gap events take two ways; lost bytes; timeouts racing completion; two links | one final result each; the stream resynchronises | modelled, proved |
| Packet layer, `comm/comm_ccsds.c` | sequence counts, packet buffer | build, receive, route | losses, refusals, damage and wrap of a count in any order | one gap per loss | partly: receiving side, length test of the sending side; proved |
| External memory, `data/storage_ddr.c`; data path, `data/data_path.c` | owner and use of regions, ready table | hand-off, append, clear, arm, complete, take | late completions, all slots in use, a completion queue that fills | only whole acquisitions are read, but for the race below; no slot lost, races included | modelled, proved |
| Log, control loop table, derived products, task budgets, console, time base, checksum, registers, stubs | | | | | not modelled, see below |

Components interact by calls from the loop, with three kinds of shared state:
counters that interrupts write (`s_reported`, `s_isr_ticks`), single-producer
single-consumer rings (event queues, receive ring), and buffers lent by pointer
(output descriptors, acquisition regions). Almost every component reports to the
fault service, and boot, the sequencer and the link manager use its occurrence
counts as retry counters; that is why `Boot` and `Mission` are modules over
`Fdir`. The check of the configuration is one of the monitors that gate the
watchdog, and the interval of the frame that proves the payload alive is one of
the parameters: `Supervision` composes the three.

## The modules

| module | models | composed of |
|---|---|---|
| `ExecTick` | `exec_core.c` | |
| `LossyQueue` | what an event queue promises: a bounded queue that stamps every event and refuses the newest | |
| `IrqQueue` | `plat_irq.c`; implements `LossyQueue` | |
| `Fdir` (`MCFdir`) | `svc_fdir.c` | |
| `Mission` (`MCMission`) | `mission_seq.c` and the cycle around it | `Fdir` |
| `MemoryTest` | `plat_post.c`: the three tests as functions of a memory with one fault | |
| `Boot` (`MCBoot`) | `plat_boot.c`, `plat_devinit.c`, `plat_safe_outputs.c`, from reset to the loop | `Fdir`, `MemoryTest` |
| `ConfigStore`, `HealthWatch`, `HkLink` | `svc_config.c`; `svc_health.c` and `svc_watchdog.c`; `comm_rs485_hk.c` | |
| `Supervision` (`MCSupervision`) | the three in the order of the loop, under upsets and overruns | `ConfigStore`, `HealthWatch`, `HkLink` |
| `SpwLink`, `OutputQueue`, `NandStore` | `comm_spw_link.c`, `comm_output.c`, `storage_nand.c` | |
| `Downlink` (`MCDownlink`) | the three in the order of the loop | `SpwLink`, `OutputQueue`, `NandStore` |
| `PacketLayer` | the receiving side of `comm_ccsds.c` | |
| `CommandService` | what the ground may rely on: each command is answered once, or accepted alone and then finished | |
| `CmdIntake` | `plat_isr_uart.c`, `svc_ring.c`, `comm_cmd.c`, `comm_process.c`; implements `CommandService` | `PacketLayer` |
| `StorageDdr` | `storage_ddr.c` | |
| `DataPath` | `data_path.c` in the order of the loop | `StorageDdr` |
| `ModularArithmetic`, `InterruptProofs`, `FdirProofs`, `MissionProofs`, `BootProofs`, `SupervisionProofs`, `IntakeProofs`, `DataProofs` | lemmas on residues; proofs about `ExecTick` and `IrqQueue` (`InterruptProofs`), `CmdIntake` with `PacketLayer` (`IntakeProofs`), `DataPath` and `Downlink` with what they are composed of (`DataProofs`), and about the module each other one is named after | |

How state and actions correspond to the code:

- A variable carries the name of the static variable it is, or has it in its
  comment. What is marked *history* is read by no action.
- An action of the loop is the code from one read of state shared with an
  interrupt to the next; an interrupt is one action, enabled between any two of
  them. That is why `exec_wait_for_minor_tick` and `exec_resync` are two actions each,
  a take from an event queue four, and the pass of the fault service two per
  class. Where no interrupt shares the state (output queue, store, external memory,
  configuration, monitors) one call is one action.
- A composition has a variable (`turn`, `slot`) that walks the slots of the cycle in
  the order of `main.c`; slots of tasks the composition leaves out are left out.
  `Boot` walks the steps of `plat_boot.c` instead (`step`, `phase`), and waits for
  passes of the fault service as that code does.
- What the repository does not contain is external and does anything its
  interface allows: step functions of stages return any result with any class
  they may name, outputs and devices answer or refuse at each attempt, the fabric
  completes any region it was armed with at any time, the link takes or refuses, the
  flash device fails any call, the ground sends frames whose bodies may contain the
  start marker, the line loses bytes and packets and damages a header, an upset
  changes any value of the live block or its checksum between any two slots.
- Data is abstracted to what the properties tell apart: a byte of a frame is its
  position and whether it equals the marker, a packet is its count, a record is its
  number, class and length, a region is its owner and its use, a word of memory is
  the set of data lines that carry a one. A checksum holds exactly for the values it
  was computed over.
- Operators marked *seeded fault* are wrong variants of the operator that follows
  them. Nothing refers to them; putting one in the place of the right one must
  make the run find the property violated that `PROJECT.json` names beside it,
  which shows that the property says something about the code.

## The runs

| run | states | what it shows |
|---|---|---|
| `exec_tick` (`ExecTick.cfg`) | 64 k | `NoTickLost`, `SlotPhaseLocked`, `BoundaryReachesLoop`, `BoundaryServed`: across wraps, overruns and the resync every tick is begun, lost and counted, discarded or pending; the slot keeps the interrupt's phase; a boundary makes a major cycle due |
| `irq_queue` (`IrqQueue.cfg`) | 39 k | `InterruptsConserved`, `NoTornEvent`, and `ImplementsLossyQueue`: the refinement, with liveness |
| `fdir` (`MCFdir.cfg`) | 35 k | `CountIsExact`, `ClassifiedOnce`, `ElevatedAtLimit`, `LimitEscalates`: reports from interrupts, tasks and the pass itself are counted once and a spent limit escalates |
| `mission` (`MCMission.cfg`) | 3.7 M | `AttemptsBounded`, `StallIsEscalated`, `NothingSkipped`: whatever step functions return or call and whoever else reports |
| `boot` (`MCBoot.cfg`) | 1.7 M | `NothingBeforeSafe`, `SuccessMeansWorking`, `TerminalAfterRetries`, `SuccessStartsClean`, `BootEnds`: whatever fails at whichever attempt, under power cycles and a link that comes and goes |
| `supervision` (`MCSupervision.cfg`) | 1.7 M | `NoResetWithoutCause`, `IllegalIsRepaired`, `FlipIsFound`, `SilenceIsRepaired`, `PersistentLatenessResets`, `HealthyAgain`: upsets, overruns, commands, an unreliable store and images of earlier builds |
| `downlink` (`MCDownlink.cfg`) | 1.6 M | `QueueConserved`, `ErasableWasQueued`, `TransferEnds` |
| `cmd_intake` (`CmdIntake.cfg`) | 2.1 M | `OneResultEach`, `IntactKept`, `OneGapPerLoss`, `DisturbanceEnds`, and `ImplementsCommandService`: the refinement, with liveness; both links at once |
| `data_path` (`DataPath.cfg`) | 92 k | `ReadsWholeOnly`, `NoSlotLeaked`, `FinishedIsOffered`: stages may take a region back and arm it again at once |
| `downlink_erase`, `cmd_gap`, `path_late` | | a counterexample each, below |

Bounds, and why they are enough:

- `exec_tick`: counters wrap at 5 with a major cycle of 2, so both counters wrap
  within 13 ticks, at different phases, and the loop may lag four ticks, two
  boundaries. The lag stays below a whole wrap (`LagRepresentable`): in the code
  that is 2.7 years within one body. The proofs remove every one of these bounds.
- `irq_queue`: two slots, indices that wrap at 4, stamps at 5 and eight interrupts:
  both indices wrap twice, a slot is refilled while the other waits, drops occur at
  either end of a copy.
- `fdir`: one severe class, two critical ones with the link's own class between
  the other two in the order of the pass, so an escalation that fails reports to a class
  the pass has yet to visit and to one it has passed. Three reports spend a limit of
  two and go on; reports the service makes itself are not bounded.
- `mission`: four stages and four classes; two stages share a class with the data
  path, the first may name it too, the detector stage has a class without limit.
- `boot`: the five steps with their five classes, one of them severe, and the link's;
  limits of two, so a step is late, fails and is spent in different attempts; two
  outputs, so one may slip back while the other recovers; two tiers with a required
  device each and one nobody requires; two address and three data lines, every
  region of two words or more on them and every single fault of the kinds
  `plat_post.h` names. `MaxAttempts` is three, one above the limits: it is never
  reached, which is what `TerminalAfterRetries` says.
- `supervision`: an interval that a command may change in flight and a parameter it may
  not, which an image of an earlier build may lack (`Short`); three values of which one is
  outside the limits; the two gating monitors with periods of one and four cycles around a
  timeout of three, as 1 and 25 lie around 5 in the code, and an advisory monitor with a
  period of two; an overrun of one cycle at a time; two upsets between resets, the number the
  tolerance tells apart. Ages are followed up to two.
- `downlink`: a queue of two entries, a store of two records of which one length does
  not fit the staging buffer, three stores and three submissions (four in the configurations
  that look for a counterexample): the queue fills, is freed out of order and refilled; a
  store is transferred, cleared and used again.
- `cmd_intake`: frames of three bytes, a ring of four, chunks of two, two events: a
  frame crosses a chunk and a cycle, ring and event queue overflow, markers occur in
  bodies. Five units of traffic, of which a frame takes two and a packet one, so
  frames and packets mix in every order; counts wrap at three; one header damaged.
- `data_path`: one channel with its pair of slots, one further region, a completion queue of
  three. Slots of different channels meet in the queues alone; two slots that may be taken
  back and armed again any number of times fill the completion queue with stale events and
  make it drop fresh ones. `path_late` has both channels and all four slots.

Terminal states: no run disables the deadlock check. The loop can always go
on, which is itself something the runs show.

### Fairness

The specifications assume weak fairness of the loop's actions: a bare-metal loop
with nothing above it always runs on, and an interrupt handler is finite. The
clock passes a budget that is running (`BudgetElapses` in `CmdIntake`). Nothing is
assumed of the timer, of the ground, the line, the link, the fabric, the device, the
observer, upsets or the stages. `TransferEnds` states what it needs of them as a premise:
its stage lasts and the queue has room again and again. `HealthyAgain` and
`PersistentLatenessResets` speak of what happens once upsets and overruns stop, or if
overruns do not. `BootEnds` holds unless the power goes first.

### What the runs found

Each of these runs checks one statement of the documentation and TLC refutes it.

- `downlink_erase`, `ErasesNothingUnsent`: `storage_nand_transfer_service` submits its
  staging buffer by pointer and refills it while the descriptor may still be queued, against
  `comm_output.h:17-19`. The earlier record is then never sent; it counts as transferred all
  the same, because *accepted by the queue* is what is counted, and the store may be erased,
  against `storage_nand.h:52` and FW-48. What the code does guarantee is `ErasableWasQueued`:
  each record that may be erased has a descriptor queued or sent.
- `cmd_gap`, `GapAbandonsPartsOnly`: the gap after a frame is taken one slot before
  the frame's last bytes, and abandons a frame that arrived whole. `IntactKept` is
  stated with that exception and holds.
- `path_late`, `RaceIsRefused`: a stage takes a region back while its completion is queued
  and arms the channel again; `complete()` (`data_path.c:82`), which knows a region by its
  number alone, takes the old completion for the new acquisition's and hands over what the fabric is
  filling, against `storage_ddr.h:11-14` and FW-44. `ReadsWholeOnly` says that this is the
  only way (`raced`), and holds.

These statements of the documentation are refuted as well, by configurations that are kept
beside the project but are not among its runs; each ends in a counterexample:

| configuration | property | what the code does instead |
|---|---|---|
| `CmdIntakeCount.cfg` | `CorruptIsNotLost` (`comm_ccsds.c:288-289`, FW:702-704) | a packet's checksum covers its data, not the header its count is in: a damaged count is reported as a loss, and its successor as another. `DisturbanceEnds` says that it stays at two, and is proved |
| `MCDownlinkOrder.cfg` | `EarliestFirst` (`comm_output.c:102-104`, FW-41) | among equal priorities the lowest slot goes first, which is not the earliest submission once a freed slot was refilled |
| `MCSupervisionShort.cfg` | `IllegalIsGone` (`svc_config.c:216-219`, FW-20) | an image of an earlier build lacks parameters; in a verification these keep the value just found corrupted, not their defaults, and a fresh checksum is computed over it. `IllegalIsRepaired` excepts just these (`kept`) |
| `MCSupervisionReset.cfg` | `OneUpsetNeverResets` (tolerance at `svc_health.c:74-76`; FW-12, FW-20) | with such an image the check fails again and again on what it left, and one upset resets the processor. `NoResetWithoutCause` excepts just that (`lapsed`) |
| `MCSupervisionFlip.cfg` | `EveryFlipIsFound` (FW-20:364-366) | a flip that leaves a value legal is summed in by the next setting of any other parameter (`svc_config.c:183`). `FlipIsFound` says that this and short images are the only ways |
| `MCMissionFlag.cfg` | `EveryStallIsFlagged` (`mission_seq.h:67-70`) | a stage that aborts, or names a stage it cannot go back to, reports its class once and stalls; no flag goes out while the class is below its limit. `StallIsEscalated` holds for spent retries |

And two were met in reading, with no configuration of their own:

- `plat_post.c:86-87` claims that the RAM test detects coupling between neighbouring cells. Both
  passes write in ascending order only, so what a write disturbs in the cell above it is
  overwritten before it is read. `MemoryTest` has the faults `plat_post.h` names.
- `comm_spw_link.h:15` calls `SPW_LINK_FAILED` "start attempts exhausted". The count it rests on
  holds every fault of the class, lost links and refused sends included, and is never
  cleared: three faults of a whole mission, and the next failed start gives the link up. And a
  status that cannot be read sends the link back without asking for the limit, so such starts are
  never given up. No property is stated of it.

Observations, which contradict no document and have no run of their own:

- A tick between the two reads of `exec_resync` discards a boundary that is still to
  be passed; `BoundaryReachesLoop` is stated without that race.
- A stage's success clears reports of its class made earlier in the cycle by the data
  path, which are then never logged. What survives the clear is exact (`CountIsExact`).
- A step that calls `mission_abort` and returns `STEP_DONE` moves on all the same; at the detector
  stage that leaves an aborted run with an operational payload, and any caller may set any
  status. The model has both; nothing on board reads the status.
- The watchdog's timeout is five cycles and the period of the configuration check 25: a
  verdict that check makes unhealthy stays so past the timeout, so it is a certain
  reset. `NoResetWithoutCause` shows what the tolerance of one makes of it: a second upset.
- A send the link refuses burns a sequence count (`comm_ccsds.c:226`), which the
  receiver sees as a gap.

## The proofs

TLAPS checks these for every value of the constants that satisfies the named
assumptions of the modules (lengths, depths and widths are positive, the depth of an
event queue divides the wrap of its indices, classes, limits and tables have their types,
a boot step's class is severe without a limit or critical with one, as in `k_policy`,
the detector stage is not the last). Each module of proofs defines a strengthened
invariant, because hardly any of the properties is inductive: a residue says nothing without
the count it is the residue of, a local copy nothing without what it was copied from, an
outcome nothing without the steps that led there.

`ModularArithmetic` holds the lemmas on `%` and `\div`: uniqueness of quotient and
remainder, wrapping a sum, the difference of two residues less than a wrap apart, and
reduction to a divisor of the wrap.

`InterruptProofs`, the executive. `TickInv` says which unbounded count each counter is the
residue of and that the lag is below one wrap. The unsigned subtraction of the loop is then the
true lag (`PendingIsLag`), and one lemma per step re-establishes it. From it:
`ExecTypeCorrect`, `TicksConserved` (`NoTickLost`) and `PhaseLocked` (`SlotPhaseLocked`). For
the boundaries, `BoundaryInv` follows the one the loop looked at last: the loop compares two
residues, and they differ whenever the boundaries do, because between two looks lie at most two
lags, which is fewer than a wrap of boundaries. Hence `BoundariesReachLoop`, up to the race
of the resync.

`InterruptProofs`, the event queues. `QueueInv` says that head, tail and stamp are residues of
the numbers of events accepted, delivered and offered, at most `Depth` apart, and that what the
loop has copied so far is what the slot under tail holds. Two events fewer than `Depth` apart
have different slots (`SlotsApart`), so a handler that finds the queue not full writes a slot
that is not being copied. From it: `EventsConserved` (`InterruptsConserved`), `EventsWhole`
(`NoTornEvent`), and `QueueRefines`: the initial state maps to the initial state of
`LossyQueue` and every step to an offer, a take or a stutter.

`FdirProofs`. `CountInv` says that a class is charged with what was serviced since its clear,
that nothing is serviced that was not reported, and that the pass's local copy is ahead of
what was serviced and not ahead of what was reported. `ReportsOnlyAdd` shows that whatever only
adds reports, from any context and at any point of the pass, preserves it. With
the flags (`ElevationInv`): `CountsExact`, `NeverClassifiedTwice`, `ElevatedExactly`,
`TypeCorrect`. Its step lemmas are cited by the next two.

`MissionProofs`. `MissionInv` adds to the invariant of the fault service that passes
run in their turn and, for a stall with spent retries, `LimitReached`: a limit of reports
lies behind it, in `reported` before the pass reads the class, in the copy while it
holds it, in `occurrences` once it has classified it. A stalled sequence clears nothing, so at
the end of the cycle the tier rule has elevated the class: `StallsEscalated`. The bound on
attempts is a sum. An attempt that does not end its stage leaves a report of a class the stage
names that was below its limit, and nothing but finishing the stage clears one: the
attempts are at most what the classes hold below their limits, and one more for the
attempt that stalls (`AttemptInv`). That a sum over a set grows with its terms is shown on partial
sums in the order of the folds, by a least counterexample (`SumGrows`). Hence `AttemptsLimited`. Also
`StagesFinished` (`NothingSkipped`) and `MissionTypes`.

`BootProofs` has four parts. *The memory test* (`MemoryTestSound`): no two offsets drive the
same lines, so the pass that writes addresses as data reads a foreign pattern wherever two
offsets share a cell; its complement and the walking one catch each line that carries less or
more than it was given. That powers of two double comes from the cardinality of a powerset,
since induction is out of the prover's reach. *What has passed* (`PassedInv`): each
step answers for outputs, memory or devices and no later step touches them; hence
`OutputsSafeFirst` and `SuccessIsWorking`. *The attempts* (`RetryInv`): until boot ends nothing
is cleared and nobody else reports a step's class, so its reports are the attempts; a pass
leaves none unserviced, and what is elevated or severe was escalated; hence
`GivesUpEscalated`. *A clean start*: a step that was never late left no report;
hence `SuccessIsClean`. And `BootTypes`.

`SupervisionProofs`. `RepairInv` has three parts. `SeenInTime`: while the checksum does not fit, or
a value no check kept is outside its limits (`Unseen`), the cycles since the last
upset and those until the check is due add up to no more than its period; the check falls
due before the period is over, and what it leaves wrong is what an image lacks, which is marked (`kept`).
`MeantLegal`: what was set or restored is legal. `SummedOver`: a checksum was computed over what was
meant, but for what a setting sealed or an image lacked. Hence `IllegalRepaired`,
`FlipFound`, and `SilenceRepaired`. As long as no check left a value outside its limits (`lapsed`),
every failure of it in a row takes an upset of its own, so one upset stays within
the tolerance; short of two, a kick is withheld only in late cycles, and the device has gone
unkicked no longer than `exec_timing` without passing: hence `ResetHasCause`. Nothing is assumed of
the images: those of earlier builds are among them. And `SupervisionTypes`.

`IntakeProofs`. The packet layer is not disturbed by what it is composed with
(`PacketLayerUndisturbed`). Its gaps are accounted for by a debt: having followed a wrong count it
owes one more difference, and two for each damaged packet pay for all; hence `GapsAreLosses`
and `DisturbancesEnd`. A frame is answered when its last byte is assembled; line,
ring, chunk and assembler hold that byte in one place at a time, so a frame whose last byte
is held, or not yet sent, has no result (`HeldInv`, `FreshInv`), and with one command in
flight that makes one result each: `ResultsUnambiguous`. For the same reason every step
answers, accepts or finishes a command of `CommandService` or is invisible: `IntakeRefines`.
Assembler, chunk and ring hold, one after the other, the bytes in the order of the line
(`StreamSound`). In a frame of which none was lost each is followed by its successor, so a full
buffer that begins with such a frame's first byte holds all of it and its checksum matches, by
a least counterexample (`WholeFrameChecks`); what `resync` drops is never that byte
(`ResyncKeepsStarts`). Hence `IntactFramesKept`.

`DataProofs`, the path. `PathInv` gives every raw region the one place its owner allows: being
filled, announced by an event or dropped by a full event queue, in the ready table, or in a stage's
hands. The ready table holds no region twice, and a queue without repetition that
lacks a region is shorter than the number of regions, so it drops none. A region whose earlier
arming was settled when it was armed has no stale event, so the event that names it is its own. Hence
`WholeIsRead` (`ReadsWholeOnly`) and `SlotsReturn` (`NoSlotLeaked`), of stages that owe no
waiting; `RegionsWithinCapacity` besides.

`DataProofs`, the downlink. Each step of the composition is one of few moves of the
store and the queue (`NextMoves`). `QueueInv`: the count of
the table is the number of its entries, each of them can be packetised, so none is ever
dropped, and submitted is sent plus queued; hence `DescriptorsConserved`. `HandedInv`: while as many
records were transferred as the cursor has passed, each has a descriptor queued or sent, and
what is sent was queued; hence `ErasedWasQueued`.

Only model-checked:

- liveness and everything under fairness (`BoundaryServed`, `LimitEscalates`, `BootEnds`,
  `PersistentLatenessResets`, `HealthyAgain`, `TransferEnds`, `FinishedIsOffered`, the liveness
  parts of the two refinements): `ENABLED` and liveness are beyond the prover.

Every invariant that a passing run checks is proved, and of the two refinements the safety part. The
theorems of induction in the library cannot be instantiated with the installed provers; where a
proof is by induction over data, it takes the least counterexample of a set instead.

## Not modelled, and why

- Event log: one push with interrupts disabled, into a ring; no decision reads it.
- Control loop table (`photonic_sched.c`): callbacks called in order; the count of
  failures it keeps is not decided on.
- Derived data products: floating point, beyond TLC and the provers. Calibration
  and its interpolation in `svc_config.c`: the same.
- Task budgets, statistics, console report: no decision depends on them.
- Layout of housekeeping frames and packets: formatting. The sending counts of
  `comm_ccsds.c` other than the one commands come with: nothing on board reads them.
- The legality table and the parameter ranges of commands: any check may refuse.
- Time base, checksum, register access: a timeout is an expiry at any time, a checksum is
  what it covers, the effect of interrupts is the interleaving.
- Drivers of six lines: no behaviour.
- Wrap of the fault counters (4 * 10^9 reports), byte offsets in the store with their
  32-bit width, re-registration of callbacks: left out, the second one noted as a hazard.

## Plan

Done, the most important first: executive; event queues; fault service and the
sequencer over it; the way of products to the link; command intake; the data path; boot over
the fault service with the memory test; supervision; the packet layer in the intake;
proofs of every safety property of the runs and of the two refinements.

Left:

1. An abstract downlink (a set of accepted packets that shrinks by sending) that `Downlink`
   would implement but for `downlink_erase`, to be stated once the staging buffer is fixed;
   likewise `IllegalIsGone`, `EveryFlipIsFound` and `RaceIsRefused` in the place of the
   properties that except what the code does.
2. Byte offsets in the store, with their width, for a damaged length.
