# A TLA+ verification of the 721sim out-of-order pipeline

721sim (`src/721sim`) is a cycle-level simulator of an out-of-order superscalar
RISC-V processor. It is single threaded, but every cycle runs a dozen pipeline
stages over shared structures, and what is hard about it is what is hard about
the hardware: instructions execute and branches resolve out of program order,
wrong paths are rolled back while older instructions retire, and every structure
is a ring or a pool that can be full. A mistake shows, if at all, thousands of
cycles later as a mismatch with the functional simulator that runs beside it.

## 1. The system

One call of `pipeline_t::step_micro` (pipeline.cc:494-642) is one cycle. The
stages run from the back of the pipeline to the front, so that a stage sees the
latch its successor has just emptied:

    retire*W  writeback  load_replay  execute  register_read  schedule
    dispatch  rename2    rename1      decode   fetch2         fetch1

| component | state | operations | talks to |
|---|---|---|---|
| renamer (renamer.cc) | RMT, AMT, free list, Active List, GBM, checkpoints, PRF + ready bits | rename_rsrc/rdst, checkpoint, dispatch_inst, set_complete, resolve, commit, squash | called by rename2, dispatch, writeback, retire |
| instruction decoder (decode.cc) | none | flags, function unit, operands, traps | payload |
| frontend latches (decode.cc, rename.cc, dispatch.cc, fetch_queue.cc) | DECODE, FQ, RENAME2, DISPATCH | decode, rename1, rename2, dispatch, with whole-bundle stalls | renamer, issue queue, LSU |
| issue queue (issue_queue.cc) | entries, free list, age list | dispatch, wakeup, select_and_issue, squash, flush | dispatch, lanes |
| lanes (lane.cc, register_read.cc, execute.cc, writeback.cc) | rr, ex[], wb latches with branch masks | register_read, execute, load_replay, writeback | renamer, issue queue, LSU |
| load/store unit (lsu.cc) | load queue, store queue, memory dependence predictor, reservation | dispatch, store_addr/value, load_addr/unstall, commit, checkpoint/restore, flush | dispatch, lanes, writeback, retire |
| fetch unit (fetchunit.cc, bq.cc, btb.cc, gshare.cc, ras.cc, tc.cc, ic.cc) | BQ, BHR, RAS, BTB, FETCH2 latch | fetch1/2, mispredict, commit, flush | decode, writeback, retire |
| payload (payload.cc) | PAY ring | push, pop, rollback, clear | every stage |
| retire (retire.cc, squash.cc) | trap, counters | commit, AMO/CSR execution, complete squash | all of them |
| caches (CacheClass.cc) | tags, LRU, MHSRs, ports | Access, Probe | LSU, fetch unit |
| debug buffer and checker (debug.cc, checker.cc) | ring of functional-simulator instructions | run_ahead, pop, find | payload, retire |
| functional simulator (riscv-base/processor.cc, sim.cc) | architectural state, timer, host register | step, take_trap, take_interrupt | debug buffer, host |
| host-target interface (riscv-base/fesvr, htif.cc) | two hosts, packets, recorded system calls | tick, read/write memory, syscall and its replay | both simulators |
| floating point (alu.cc, riscv-base/softfloat) | flags | one routine per instruction and format | lanes, functional simulator |

What is hard about each, and what makes it correct, is listed as hazards in
`PROJECT.json`, at the line where it bites.

### What makes each part correct

- **Renamer.** Every physical register is in exactly one place; the RMT is
  always the committed map overlaid by the instructions in flight; a checkpoint
  restores the state just after its branch whatever has committed or resolved
  meanwhile; squashing by branch mask and truncating the Active List select the
  same instructions; a source stays valid until its reader has left.
- **Issue queue.** Array, free list and age list agree while loops take entries
  out of the lists they walk on; a scan misses nobody; issue follows age.
- **Load/store unit.** Loads and stores that execute in any order, on right and
  wrong paths, commit as if they had executed in program order; the positions
  recorded at dispatch stay meaningful; waiting loads never close a circle.
- **Fetch unit and payload.** Branch queue, histories and payload follow the
  instructions in flight through misfetches, mispredictions and squashes;
  fetching is stopped only by an instruction that will start it again.
- **Frontend latches.** Instructions pass in program order; what a whole-bundle
  stall lets through never overruns what the bundle then uses; a stall ends.
- **Lanes and wakeup.** A tag is broadcast once, and nobody waits for a tag that
  has gone by; nobody reads a register that is not written; a committed register
  is ready; no latch is given two instructions; instructions keep retiring.
- **Caches.** The MHSR a line names is at work for it, though MHSRs are freed
  lazily; a refused access is accepted in the end.
- **Co-simulation.** Each instruction is mapped to its own record; the checker
  never fails; timer and host act at the same instruction on both sides.
- **Host.** A system call is executed once and its recording replayed in time;
  both simulators end with the same memory and the same answers.
- **Floating point.** The exact result, rounded once, with its exceptions.

## 2. Modules

| module | models | uses |
|---|---|---|
| `Renamer` | renamer.cc with the rename2, dispatch, writeback, squash and retire stages as they drive it | |
| `RenamerProperties` | its invariants, the refinement, fairness and liveness | `Renamer`, `RegisterMapping` |
| `RegisterMapping` | the abstract promise: a committed map and the instructions in flight | |
| `RenamerProofs` | the proofs, the refinement among them | `RenamerProperties`, TLAPS |
| `IssueQueue` | issue_queue.cc | |
| `IssueQueueProperties` | invariants, refinement, liveness | `IssueQueue`, `AgeQueue` |
| `AgeQueue` | the abstract promise: a sequence in dispatch order | |
| `IssueQueueProofs` | the proofs, the refinement among them | `IssueQueueProperties`, TLAPS |
| `Decode` | decode.cc: what the decoder leaves in the payload | |
| `FrontEnd` | decode.cc, rename.cc, dispatch.cc, fetch_queue.cc: bundles, latches, stalls | `Decode` |
| `FrontEndProperties` | invariants, fairness and liveness | `FrontEnd` |
| `FrontEndProofs` | the proofs | `FrontEndProperties`, TLAPS |
| `LSU` | lsu.cc with load_replay, squash and retire as they drive it | |
| `LSUProperties` | invariants, program order, liveness | `LSU` |
| `LSUProofs` | the proofs | `LSUProperties`, TLAPS |
| `LSUReservation` | `LSU` with a history variable for the finding on reservations | `MCLSU` |
| `Lanes` | the stages from Retire to Dispatch cycle by cycle: lanes, ready bits, wakeup | |
| `LanesProperties` | invariants, fairness, liveness | `Lanes` |
| `LanesProofs` | the proofs | `LanesProperties`, TLAPS |
| `FetchUnit` | fetchunit.cc, bq.cc, payload.cc | |
| `FetchUnitProperties` | invariants and action properties | `FetchUnit` |
| `FetchUnitProofs` | the proofs | `FetchUnitProperties`, TLAPS |
| `Caches` | CacheClass.cc with the loads that are tried again and the fetch unit that waits | |
| `CachesProperties` | MHSRs and retries | `Caches` |
| `CachesProofs` | the proofs | `CachesProperties`, TLAPS |
| `CoSim` | debug.cc, checker.cc, the mapping of the payload, the step of the functional simulator | |
| `CoSimProperties` | agreement of the two simulators | `CoSim` |
| `CoSimProofs` | the proofs | `CoSimProperties`, TLAPS |
| `HostInterface` | both hosts, packets, memif, system calls recorded and replayed | |
| `HostInterfaceProperties` | the two simulators end alike | `HostInterface` |
| `FloatPrimitives`, `SoftFloat` | riscv-base/softfloat: shifts that jam, packing and rounding; the operations | |
| `FPUnit` | the floating-point instructions of alu.cc and riscv-base/insns | `SoftFloat` |
| `FPUnitProperties` | the exact result, rounded once | `FPUnit` |
| `MC*` | the sets and the VIEW that TLC needs; `MCSimulators` puts `CoSim` and `HostInterface`, `MCUnits` `Caches` and `FPUnit` side by side | |

Each detailed module contains, next to some definitions, a variant whose comment
begins with "Mutant": a plausible mistake in that place, which nothing uses. For
each property `PROJECT.json` names a variant that TLC finds to violate it.

### Renamer

State: `rmt`, `amt`, the free list (`flList`, head and tail with phase bits),
the Active List (`alList`, head and tail with phase bits), `GBM`, `checkpoints`;
`latch` is the DISPATCH pipeline register, and `exec[i]` the branch mask of
Active List entry i for as long as that instruction is in the issue queue or a
lane. One action is one iteration of a stage's loop over its bundle:

| action | code |
|---|---|
| `Rename` | an iteration of rename2: `rename_rsrc`, `rename_rdst`, `checkpoint`, the move to DISPATCH |
| `Dispatch` | an iteration of dispatch: `dispatch_inst`, the entry in the issue queue |
| `MarkFault` | `set_exception`, `set_load_violation` |
| `Complete` | writeback of an instruction that is no branch |
| `ResolveCorrect`, `ResolveMispredict` | `resolve` and the squash of the pipeline by branch ID |
| `Commit`, `Squash` | retire: `commit` of a clean head, `squash` and `squash_complete` of a faulting one |

The phase bits and the way `resolve` infers the phase of the Active List's tail
are those of the code, the full and the empty ring included. One source operand
stands for three. Register values and ready bits are left out: they belong to
the lanes.

`RegisterMapping` has a committed map and a sequence of instructions. An
instruction enters with a source renamed by program order and a register nobody
can name, the oldest retires, a recovery drops what is younger than a branch, a
flush drops everything. `ImplementsRegisterMapping` maps `amt` to the committed
map and Active List plus latch to the sequence.

### Issue queue

State: `q` with the links of the age list, `fl` as a ring, `partNext`, `rr` (the
lanes whose Register Read stage is taken) and `loop`. `select_and_issue()` and
`squash()` remove entries from the structures they walk on, so each iteration of
their loops is a step (`SelectStep`, `SquashStep`) and `loop` holds their
induction variables; nothing else runs until the loop ends. `Dispatch`,
`Wakeup`, `ClearBranchBit` and `Flush` are the other operations. `AgeQueue` is
what is promised: a sequence, from which a ready instruction issues, with
IDEAL_AGE_BASED never past an older one that could have.

### Load/store unit

State: `LQ` and `SQ` with pointers, phases and lengths, `load_reservation`,
committed memory `mem`, and `window`, the instructions in flight in program
order with the queue positions recorded at dispatch. Addresses are bytes and
accesses have sizes, so that partial overlap, forwarding and containment are
those of the code. Any access may be misaligned: nothing looks at that before
the address is in its queue. A store traps when its address is translated, a
load when memory is read, and a load that is forwarded to not at all (section
6). The data cache is a choice at every access (hit, or wait for load_replay),
and so is what the memory dependence predictor says; an aligned access may trap
as well. Actions: `Arrive` (dispatch), `LoadAddr` and `LoadReplay` (load_addr,
load_unstall), `StoreExecute` (store_addr and store_value: a split store does
not occur, `payload_t::split` asserts 0, payload.cc), `ResolveCorrect`,
`Mispredict` (restore of the queues and of the valid bits), `CommitLoad`,
`CommitStore`, `CommitBranch` and `Squash`, which yields the reservation when
it takes a trap.

### Lanes

The other modules leave open in which order the stages of a cycle run; here that
order is the subject. A tag is broadcast before the value exists, in Register
Read by a lane of one stage and in the second-to-last sub-stage of a deeper one,
and this fits only because Execute runs before Register Read and Register Read
before Schedule. `stage` and `n` are the loop of `step_micro`: a step is one
lane of one stage (in Retire one turn of RETIRE_WIDTH, in Dispatch one
instruction). State besides: `window`, the instructions in flight in program
order with the latch each is in (`at`, `lane`, `sub`) and, in the issue queue,
the sources it waits for; `amt`; `ready` (prf_ready); and `written`, whether the
register holds the value of its present owner. The values themselves are left
out.

| action | code |
|---|---|
| `Retire` | `CommitHead` with execute_amo and execute_csr, `SquashAll`, or nothing; the timer may end it early |
| `Writeback` | completion of one lane, and the squash behind a mispredicted branch in lanes before and after it |
| `ReplaySucceeds`, `ReplayNone` | load_replay |
| `Execute` | one lane: the last sub-stage, the early wakeup, all sub-stages move on |
| `RegisterRead` | one lane: early wakeup of a lane of one stage, into Execute |
| `Schedule` | select_and_issue over all lanes at once, in any order of the scan |
| `Dispatch`, `EndCycle` | one instruction into the issue queue, or the end of the cycle |

The renamer is represented by what `Renamer` establishes of it: a destination
is a register that nothing names, a source is the one that program order gives.
The issue queue is maximal (`ScanComplete`): no ready instruction is left behind
while a lane that serves it is free. The load/store unit may make any load wait
and lets at most one go per cycle. What `Window` bounds is the Active List.
Instructions are kinds by what they do to readiness: a load reservation is a
load here, and a store is an instruction without a destination.

### Fetch unit

State: `fetch_active`, the history `bhr` (the two history registers are always
updated together), `status` and `FETCH2` slot by slot, `DECODE`, `window`, the
branch queue with its phases and the payload ring. The contents of a bundle,
what is predicted and whether the BTB was wrong about it are choices: `Fetch1`
builds any bundle the code can build, with any history if the BTB was wrong.
Actions: `Fetch1`, `Fetch2Misfetch`, `Fetch2Stall` (predecode runs, and cuts the
bundle, every cycle it stalls), `Fetch2Advance`, `Decode`, `ResolveCorrect`,
`Mispredict`, `CommitOp`, `CommitBranch`, `CommitSerializer` (the fetch unit
alone is flushed) and `SquashComplete`.

The assumption `InFlight > 2 * InstrPerCycle + Window` holds in the code because
decode keeps room for twice its bundle (decode.cc:9-24), so that the fetch queue
is never quite full: the payload, whose length reads 0 when it is full, never
is. The branch queue has the automatic size of pipeline.cc:184-189.

### Frontend latches

State: `DECODE`, the ring `fq` with its pointers, `RENAME2`, `DISPATCH`, the
`window` of what has been dispatched and not retired, and `active`. One action
is one stage with its whole bundle (`Fetch`, `DecodeStage`, `Rename1`,
`Rename2`, `Dispatch`), or what the back end does that the latches feel
(`Issue`, `Complete`, `Mispredict`, `Commit`, `SquashComplete`). The structures
that are waited for are counts over the instructions that hold something in
them. Instructions have a number along the path that is fetched, and `next` is
that of the next one: program order is that these are consecutive. `Decode`
gives flags and operands as functions of the opcode; for an unknown opcode the
flags are whatever an earlier instruction left (decode.cc:157).

`SizesAssumption` states what the sizes must satisfy. Nothing in the source
checks it: a checkpoint file of parameters with a smaller fetch queue or fewer
checkpoints than a bundle can ask for waits for ever.

### Caches

All three caches have tags in LRU order, MHSRs with the cycle in which they are
resolved, and ports with the cycle in which they are free; all cycles are
relative to the present one (`NextCycle` moves them). An access (`FirstLevel`)
is answered with a cycle, or refused. A miss of the first level goes on to the
second in the same call: `Miss` is what it finds, `WriteBack` and `SecondLevel`
what it asks of the second level, `Missed` what it leaves. Actions: `Load`,
`Store`, and `NextCycle`, in which the fetch unit, if it does not wait, looks up
its lines, what is done may retire, and the refused loads are tried again,
oldest first. The second level may refuse as well, and its caller does not
notice: `overrun` records it, and `MHSRsPrecise` says when it cannot happen (l2
with as many MHSRs as its users together), which is not what the comment at
CacheClass.cc:315 argues with.

A line that names no MHSR has arrived, says `MHSRsPrecise`, in a cache of one way
or of one MHSR (`InOrder`) only. With more of both a line may be replaced while
it is on its way, and loaded again by another MHSR that is faster; when that one
is freed the line counts as there, and the first is at work still. The data of
the simulator are not in the caches, so only times are concerned.

### Co-simulation

`isa` is the functional simulator, `dbg` the ring between the two, `mic` the
architectural state of the pipeline, `pay` the instructions in flight with the
record each is mapped to. Actions: `Fetch` (with either direction of a branch),
resolution, mispredicted or not, the commit and the squash of the oldest
instruction, and the end of a retire bundle. `Pop` fills the ring up first
(debug.cc). Instructions are kinds by what the two sides could disagree about:
those that read or write the counter, compare, the host's word or the status,
those that trap, those that are tried twice because they serialize. An interrupt
stops the functional simulator (section 6), so the programs of the run `cosim`
enable none.

### Host-target interface

A program is a sequence of requests with the number of instructions between
them. Each simulator has the processor's registers `tohost` and `fromhost`, its
memory, a host that is a coroutine (`start`, `run`, `stop`; one packet per
tick), and, of the two, the host of the functional simulator executes system
calls and records what they did, while the other replays the recording. A
request has a kind (what its arguments point to and in which direction), a
place, a buffer and a length; memif's chunks, its read-modify-write at both ends
of a buffer that is not aligned, sequence numbers and device discovery are those
of the code. A cell that the program stores to while it polls lies next to the
buffers.

That both end alike holds only if the functional simulator is further ahead
(`Ahead`) than the longest service takes, as a recording is handed over when the
service is finished and one packet takes one tick. With the 8192 records of the
source a single system call of more than about 2.7 MB would come too late and
fail the assertion at syscall_bypass.cc:48. The lead at the first request is
the whole ring, so programs ask nothing in their first `Ahead` instructions; one
that ended there would already fail sim.cc:146, because run_ahead() (debug.cc:59),
unlike pop() (debug.cc:295), does not ask whether the simulator still runs.

### Floating point

The library is modelled routine by routine with the width of the words as a
parameter: a format has `e` bits of exponent and `m` of fraction, words and
their products wrap at the width the code's types have in relation to these, and
shifts jam, estimates are corrected and rounding carries as in the code. The
tables of first guesses for square roots are abstracted to the nearest value
they could hold. `FPUnitProperties` says what the result must be without
computing anything the library's way: the exact value is compared with the
numbers of the format and the points halfway between them.

Things the modelling showed and that are part of the model: minimum and maximum
do not raise "invalid" for a signaling NaN as second operand and may return
either NaN; tininess is detected before rounding; a conversion of NaN keeps its
sign; an invalid conversion to an unsigned integer gives all ones.
f64_sqrt.c:57-62 adds twice sigZ without the 1 that f32_sqrt adds; no operand
that is checked shows the difference.

## 3. Runs

| run | bounds | shows |
|---|---|---|
| `renamer` | 2 logical and 4 physical registers, 2 checkpoints, 2 Active List entries, DISPATCH of 2 | six invariants, `SourcesPrecise`, `ImplementsRegisterMapping`, `CheckpointsReleased`, `HeadRetires` |
| `issue_queue` | 3 entries in 3 partitions, 2 lanes, 1 tag, 1 branch, either policy | the lists agree in every iteration of the loops, `ScanComplete`, `SquashComplete`, `ImplementsAgeQueue`, `ReadyLeaves` |
| `lsu` | 2 loads, 2 stores, 3 in flight, 2 bytes, 2 values, sizes 1 and 2 at any address, speculation | `LoadsPrecise`, `CommitsReadMemory`, `QueuesMatchWindow` with branches and atomics |
| `lsu_live` | 2 loads, 1 store, no speculation, addresses of stores known early or not | `LoadsLeave` |
| `lsu_misaligned` | 2 loads, 2 stores, 2 in flight, 4 bytes, size 2 | violated, section 6 |
| `lsu_reservation` | as `lsu`, size 1, branches and atomics | violated, section 6 |
| `lanes` | 3 in flight, 1 logical and 4 physical registers, lanes of 1, 2 and 3 stages, Retire of 2 | `TagsPrecise`, `ReadsWritten`, `CommittedReady`, `LanesFreeFlowing`, `KeepsRetiring` |
| `fetch_unit` | bundles of 2, 2 behind DECODE, branch queue of 4 | `PayloadInOrder`, `BranchQueueInOrder`, `HistoryPrecise`, `StopsForYoungest`, `Fetch2Clean`, `SerializerRetiresAlone` |
| `frontend` | fetch bundles of 1, rename bundles of 2, fetch queue of 3, 3 spare registers, 2 of each other structure | `ProgramOrder`, `NoOverrun`, `KeepsMoving` |
| `cosim` | ring of 8, 4 in flight, programs of 3 instructions, counter modulo 8, a host that ticks every 5, Retire of 3; and all programs of three requests of a set of 320, chunks of 2, packets of up to 4, a lead of 26 | `NeverAborts`, `MappedInOrder`, `EndsAlike` |
| `cosim_interrupt` | ring of 2, 1 in flight | violated, section 6 |
| `units` | 3 lines, caches of one set of two ways, two sets of one, one set of one, 1, 1 and 2 MHSRs; words of 8 and 16 bits | `MHSRsPrecise`, `RefusedAccepted`, `CorrectlyRounded` |

**Why the bounds are enough.** Every ring is small enough to be full, to be
empty and to wrap around many times, with both values of its phase bits, and is
full and empty at positions other than 0. In `renamer` free registers,
checkpoints and Active List entries run out independently, and two branches
can resolve in both orders with a commit in between. The proofs remove the
bounds of `renamer`, `issue_queue`, `lsu`, `frontend`, `lanes`, `fetch_unit` and
of the caches of `units` altogether for everything but liveness. In the issue
queue three entries have a first, a middle and a last in each list, and the scan of round robin starts at any of them. In the LSU two
stores of different sizes and one load, or two loads around a store, are what
forwarding, partial conflict and violation need; a third instruction can be the
branch. In the lanes one logical register makes instructions depend on the one
just before them, the hardest case for wakeup, unless they are products, which
have no source and fill the deep lane; the fourth physical register is what
three destinations in flight leave, so a register is reused as soon as it is
free; three stages are the least with a sub-stage that is neither the first, the
second-to-last nor the last. In the fetch unit the window, DECODE and FETCH2
each hold a bundle, and the branch queue (4) wraps within one. Slots behind the
one that a cut invalidates take a bundle of three, which is out of TLC's reach
with the branch queue it needs: of these only the theorem `AlwaysFetch2Clean`
speaks, for every width. In the frontend
the sizes are the least that `SizesAssumption` admits, so every structure is the
one waited for; the run has jumps that take a checkpoint and a register, loads,
and CSR instructions that stop fetching. In `cosim` the ring wraps every two
programs, the counter every eight instructions, and INTERLEAVE (5) is neither a
multiple of the length of a program nor of the retire width, so that ticks fall
everywhere; buffers of a host's program begin and end at, before and behind the
bounds of a chunk, and take one packet or several. In `units` any two lines
collide in some cache, MHSRs are fewer than accesses, and for the second level
both sides of the condition in `MHSRsPrecise` can be had by its constants (the
run takes the one where the second level may not refuse). The small format (5
bits of exponent, 2 of fraction) is checked for all 256 operands in one-operand
instructions, for the boundaries of exponents and fractions in pairs and
triples; the larger is there because the code treats the formats differently
(words of twice the width or two words) and for conversions between them.

**Two models in one run.** `cosim` and `units` each check two models that share
no state; an initial choice (`unit`) says which one runs.

**Views.** The views leave out what no later step reads: entries outside a
ring's used part, which are overwritten before they are read, the absolute value
of two phase bits of which only the difference is tested, what a load that has
its value recorded for its search of the stores, in `fetch_unit` the
rotation of the payload ring, all of whose places are alike, and in `frontend`
the absolute numbers of instructions. Fields that are stale but are read, such
as the history in a branch queue entry that is not in use, are kept. In `lsu` the
two values that are stored are symmetric: they are only ever compared.

**Deadlock** is checked in every run. In `cosim` the host's program stays in its
end as a step of the model.

**Fairness.** `step_micro` runs every stage in every cycle, so a stage that can
do something and goes on being able to does it: weak fairness of each stage, of
each instruction's own step through it, and of each iteration of a loop.
`renamer` assumes that the issue queue and the lanes deliver each instruction to
writeback: an instruction waits only for older ones. In `issue_queue` a scan
starts again and again although dispatches come in between: strong fairness of
`StartSelect`, as schedule() is called once per cycle whatever else is.
`lsu_live` assumes that a load that is tried every cycle gets its line in the
end (`GetsValue`), which `RefusedAccepted` shows of the caches. In `lanes` each
step of the cycle is taken (weak fairness of `Next`), and the oldest waiting
load, if it is there in cycle after cycle, is replayed with success (strong
fairness of `ReplayOldest`), which is what `LoadsLeave` shows of the load/store
unit; nothing is assumed of the order of the scan, and nothing is needed,
because at most `Window` instructions are behind the oldest. In `frontend` each
stage is fair, and of the back end only the oldest instruction's issue,
completion and retirement, which is `KeepsRetiring` of the lanes. In `units`
cycles go by. In `cosim` a simulator that can run does: its loop does nothing
else. No fairness is assumed of arrivals, predictions or fetches of the wrong
path.

`ReadyLeaves` is claimed for IDEAL_AGE_BASED only. With round robin and
partitions of more than one entry the queue by itself can pass over an entry for
ever: within a partition the entry with the lowest index is always looked at
first. In the processor only the Active List, which fills behind the
instruction, ends that.

**No speculation in the liveness run.** With it a load that violates is squashed
and fetched again, and with an adversarial predictor may be squashed each time;
what prevents that is the training of the predictor, which is a choice here.

## 4. Proofs

Each theorem holds for every value of the constants that the module's
assumption admits; nothing else is assumed, except by those on co-simulation that
name `NoneEnables`.

### Renamer

`RenamerProofs` proves, for every number of registers, checkpoints (1 to 64)
and Active List entries, every dispatch width and every set of instruction
kinds, from `RenamerAssumption` alone:

    InvariantHolds == Spec => []IInv

with `IInv` the conjunction of `TypeOK`, `Ranges` (both counts stay within
their rings), `RegistersConserved`, `AllocationOrder`, `RenameMapPrecise`,
`SourcesPrecise`, `CheckpointsPrecise`, `BranchMasksPrecise` and
`PipeMatchesActiveList`; hence each invariant that the run `renamer` checks, and
`NoFatalExit`, which is not inductive and follows from the others.

None of the parts is inductive alone:

- a commit overwrites the slot at the free list's tail; that this loses no
  register (`RegistersConserved`) needs `AllocationOrder`, which says that the
  slot holds the destination now committed;
- a misprediction copies a checkpoint into the RMT: `RenameMapPrecise` needs
  `CheckpointsPrecise`, and that needs `BranchMasksPrecise` to know that the
  checkpoint is still the one of this branch;
- the rollback of the Active List infers the tail phase from the indices:
  right because the branch itself is in flight, so the list is not empty;
- `PipeMatchesActiveList` needs the masks, since the lanes are squashed by mask.

Argument. The instructions in flight are a sequence, position 0 at the head of
the Active List. Each action is first described by what it does to that sequence
(`RenameFlight`, `DispatchFlight`, `CommitFlight`, `MispredictFlight`,
`SquashFlight`): it appends, keeps, drops the first, or
truncates. The lemmas before them say what appending, dropping and truncating do to
the three functions of a sequence that the invariant is stated with: the mapping
before a position, the destinations before it, and the branch IDs before it.
The module then has one lemma per action (`RenameStep` to `SquashStep`)
and puts them together in `InvariantStep`. The functions are stated by
quantifiers and cardinality and not by recursion, so that no induction over data
is needed.

It also proves that every step is a step of `RegisterMapping` or a
stutter (`AlwaysImplementsRegisterMapping`). The abstract sequence is shown to
be, place by place, the instructions in flight; a rename enters because the RMT
is what `RegisterMapping` reads off the sequence (`MapIsCurrent`, from
`RenameMapPrecise`) and the register at the head of the free list is one that
nobody names (`NextRegisterIsUnused`, from `AllocationOrder` and
`RegistersConserved`); commit, misprediction and squash retire, recover and
flush.

### Issue queue

`IssueQueueProofs` proves for every size, number of partitions and lanes, both
policies and every set of instructions:

    IQInv == TypeOK /\ FreeInv /\ AgeInv /\ SquashInv /\ ScanInv

`AgeListConsistent` follows the links by recursion and cannot be proved about as
it stands. `AgeInv` says instead that there is an order of the valid entries, at
the places 0 to `length - 1`, that all links follow: the oldest is at place 0,
the youngest at the last, `next` and `prev` lead one place on and one back.
Appending gives the new entry the next place, unlinking closes the gap. That the recursive
`Chain` visits that order is then shown from its defining equation by the
well-foundedness of `<` on the positions left. `FreeInv` does the same for the
free list place by place. `ScanInv` and `SquashInv` are the loop invariants:
every entry that the loop has passed (by age, or by partition and index) is not
one that it should have taken. Theorems: `FreeListAlwaysConsistent`,
`AgeListAlwaysConsistent`, `ScanAlwaysComplete`, `SquashAlwaysComplete`.

The module also proves `AlwaysImplementsAgeQueue`: the pool that
`AgeQueue` speaks of is that order read as a sequence, and each iteration of
a loop removes at most one element of it, which for age-based issue is one that
no older ready instruction with a free lane precedes (by `ScanInv`).

### Load/store unit

`LSUProofs` proves `AlwaysTypeOK` and `AlwaysQueuesMatchWindow`, for every size
of the queues, of the window and of memory, every set of operations and both
settings of speculation. Of

    IInv == LQTyped /\ SQTyped /\ WindowTyped /\ LQSide /\ SQSide /\ MemoryTyped

the two `Side`s carry the argument. `Side` says of a ring that it holds, from
its head on and with the phases to match, the instructions at some places of
the window, and that each instruction remembers the position the tail had before
it. The two queues are rings of the same kind, so lemmas about `Side` say once
what a push, a pop, a cut back to a remembered position, a flush, or a window
that grows or shrinks does; every action is one of these for each queue.

Its second half proves `AlwaysLoadsPrecise` and `AlwaysCommitsReadMemory` from

    PInv == IInv /\ Ordered /\ Precise

`LoadsPrecise` is not inductive: it speaks of loads behind stores whose
addresses are all known, and an address may become known after the load has its
value. `Precise` says where a value is from as long as nothing squashes the
load: from one older store with the same bytes (`GivenBy`), every store in
between being one that the search would pass over (`PassedBy`), or from memory,
every older store being passed over. A store that learns its address either
leaves this as it is or finds the load and marks it; a store that commits turns
"given by the store" into "given by memory", or wrote other bytes. The code
compares addresses in units of the larger access; that this finds exactly the
accesses which share a byte rests on the sizes being powers of two (of any two
in `LSUAssumption` the smaller divides the larger) and on both accesses being
aligned. `Precise` speaks of aligned loads only; misaligned ones may hold
anything, and no other load takes a value from a load. Misaligned stores do no
harm because of `Settled`: a store whose address is known is aligned or marked
with an exception, and what is behind a marked store does not commit. `Ordered`
says this, and that a load has the position of the store queue its instruction
remembers, passes unknown addresses only where the setting allows it, and that
an atomic is the youngest in flight.

### Frontend latches

`FrontEndProofs` proves `NeverOverrun` for every width and size:
`FrontEndInv` is `RingInv` (the fetch queue's pointers and length agree),
`LatchesInv` (what is in a latch has its type) and
`RoomInv` (no structure holds more than its size). The counts are cardinalities
of sets of places, and what a bundle asks for as a whole is what it adds.
`FrontEndProofs` also proves `AlwaysProgramOrder`: `OrderInv` states the
path from structure to structure, oldest first, each with where it begins and
ends, so that a bundle that moves takes an interval of the path along, and a
recovery ends the path behind the branch.

### Lanes

`LanesProofs` proves for every number and depth of lanes, every number of
registers and every set of instructions `AlwaysTagsPrecise`,
`AlwaysReadsWritten`, `AlwaysCommittedReady` and `AlwaysLanesFreeFlowing` from

    IInv == Typed /\ Renamed /\ Signalled /\ Flowing

`Renamed`: a source of an instruction is the destination of the youngest older
writer of some logical register, or the committed one; so a producer is always
older, and no two instructions in flight share a destination. `Signalled`: a
register is ready exactly if its instruction has announced it, a register of an
instruction that has left its lane is written, and an instruction in the issue
queue waits for exactly the sources that are not ready. What makes early wakeup
right is `InTime`: whoever an instruction in Register Read depends on is written,
or is in the last sub-stage of a lane whose turn in Execute is still to come.
`Flowing` says which places of which lanes are empty at which point of the cycle:
the lanes that have had their turn in a stage have passed on what they held, the
others have not yet been given anything.

None is inductive alone. That a tag which is broadcast wakes nobody twice
(`Signalled`) needs that a lane holds one instruction (`Flowing`); that a reader
finds its source written needs the order of the stages (`Flowing`), that the
producer was announced (`Signalled`) and that it is older, so that a squash does
not take it away (`Renamed`). Each action is a commit of the first instruction,
an append, a cut, or a set of instructions that move on to their next place, and
lemmas say once what each of these does to the three parts.

### Fetch unit

`FetchUnitProofs` proves for every width, every size of the branch queue, the
payload and the window and every length of the history `AlwaysTypeOK`,
`AlwaysPayloadInOrder`, `AlwaysBranchQueueInOrder`, `AlwaysHistoryPrecise`,
`AlwaysStopsForYoungest`, `AlwaysFetch2Clean` and the action property
`SerializersRetireAlone` from

    IInv == TypeOK /\ Stopping /\ Paying /\ BranchQueueInOrder /\ HistoryPrecise

`Stopping` says which instructions stop the fetch unit: none in front of FETCH2
while it is active, and only the youngest in flight while it is not; further,
that what FETCH2 holds is a prefix of its slots. `Paying` is `PayloadInOrder`
and that a misfetch, which frees the payload of the bundle in FETCH2, knows
where that begins.

None is inductive alone. `HistoryPrecise` compares entries of the queue that two
branches name; that a bundle which enters overwrites none of them needs
`BranchQueueInOrder`, and so does a recovery, which takes its history from the
entry of the branch. `SerializersRetireAlone` and `StopsForYoungest` need that
nothing was fetched behind such an instruction, and that a recovery which starts
the unit again has squashed it (`Stopping`). `Paying` needs `Stopping` to know that what is cut off was the end
of the bundle. For the proof each part is restated of a head, a tail and a
sequence (`PaidFor`, `InQueue`, `Recorded`); an action pops the first
instruction, appends a bundle, cuts behind a branch, or drops FETCH2, and one
lemma each says what that does. The places of a ring are numbers modulo its
size, and the entry behind the last of a full queue is the first again, so that
the phases tell the two apart (`Lap`). The size of the payload, the power of two
that payload.cc rounds up to, is shown to exist by halving.

### Caches

`CachesProofs` proves `MHSRsPreciseHolds` for every number of lines, sets, ways,
MHSRs and ports of each cache, all latencies and every number of operations in
flight, from `IInv`, which is the types and `Good`:

- `Sound`, of each cache: a line is in its set, in one way, and the MHSR it names
  is at work for it;
- `Ordered`, of a first-level cache of one way (`InTurn`: the line that is there
  was the last to be loaded, so it arrives after all that it replaced) or of one
  MHSR (`Alone`: the line that MHSR works for names it);
- `Served`, of both levels: there is an assignment of the MHSRs of the second
  level to those of the first under which one that is still at work is so for a
  different one each, which is at work for longer, by the latency of a hit.

An MHSR that a first-level cache takes was free, so nothing is assigned to it,
and of as many or more in the second level one is free (`NeverRefused`, by the
pigeonhole principle): the assignment is why the numbers of MHSRs add up. A
dirty victim is written back at the address of the new line (section 6), so that
writing back and loading take one MHSR together (`TwiceIs`). The lemmas follow
an access through the code: what a lookup does to a set (`TouchIs`), what freeing
an MHSR does to the line it loaded (`ReleaseIs`), a hit, a miss, both levels
(`FirstLevelIs`); then the retries, one after the other (`LoadReplayIs`), and the
step to the next cycle (`GoodLater`).

### Co-simulation

`CoSimProofs` proves for every size of the ring, every number of instructions in
flight that is less (`CoSimAssumption`), every width of Retire, every interval of
the host and every program

- `AgreeUntilInterrupted`: as long as the functional simulator has counted an
  instruction in each of its steps, no assertion has failed (`NeverAborts`) and
  the payload is mapped in order (`MappedInOrder`);
- if no program enables interrupts (`NoneEnables`), `CountsOneEachAlways` and
  with it `NeverAbortsAlways` and `MappedInOrderAlways`.

The hypothesis of the second is what the run `cosim` assumes. It is not a
convenience: the run `cosim_interrupt` shows that the functional simulator does
not survive an interrupt (section 6), and the first theorem says what holds
until then.

Neither property is inductive: when a record is compared with the pipeline, the
functional simulator made it some `Size` instructions ago, from a state that is
gone. The invariant restores it. `Chain` says that every record of the ring is
what follows from the one before it, and that `isa` is what follows from the
last; it needs a state to begin with, and that is `Present`, the state of the
pipeline *as if the bundle that is being retired ended here*. The functional
simulator counts, and gives host and timer their turn, after every instruction;
the pipeline only counts, and gives its host the turn when the bundle ends.
`Cycling` (a bundle ends, at the latest, where the host is to have its turn: the
first of the two bounds of `instret_limit`) makes these the same: what an
instruction does does not depend on how many were counted (`OutcomeCounting`),
and one more instruction in the bundle takes `Present` to where the functional
simulator goes (`OnwardsCounting`), also if it is the one that fills the
interval. So a record that is popped is the one `Chain` says it is (`RetireKeeps`),
and agrees. Filling the ring up only adds records behind (`Fed`, along the
recursive function that runs ahead), and popping takes the first away
(`PopKeepsChain`).

The second part of the invariant is about what is in flight: a path from the
state of the pipeline to the address to be fetched, whose branches, once
resolved, go where the register bit of program order sends them (`InFlight`);
and the instructions on the right path stand in the order of the records,
`OnRecord`. A new instruction is mapped to the place behind the last one's, of
which `IsActive` has to say that it is in use whether or not the ring wraps
around (`ActiveIs`): that is where the ring has to be longer than what is in
flight. Cutting the path back keeps a prefix of it, and a commit drops the first
instruction and moves the register on (`BitAtTail`).

The proof asked for two changes of notation in `CoSim` and none of its
behaviour: running ahead is a recursive function instead of a fold over an
operator, and the records of `Buffer` and `Fetch` are written out.

### Model-checked only

Liveness, everywhere (tlapm does not do ENABLED and fairness): that the two hosts
end alike (`EndsAlike`) among it, which is the whole of what is said about hosts.
`CorrectlyRounded`, of the floating-point library: the model follows the code in
recursive operators (the corrections of quotient and root) and in reasoning about
the bits of a word, which the provers here do not have; it is checked operand by
operand. Every other invariant of a run is also a theorem.

## 5. Hazards and properties

`PROJECT.json` lists every hazard at its line, with the properties that would
catch it; each has at least one. Each property of a passing run is shown to be
violated by at least one mistake in the code it is about.

## 6. Findings

- **A misaligned load can commit without a trap** (`lsu_misaligned`,
  lsu.cc:474). Of a load only the read of memory checks the alignment
  (mmu.h:230); agen() and load_addr() do not, and disambiguate() compares
  addresses up to the size of the access. So a store word to address 0 forwards
  to a load word from address 2, which commits with the bytes of the store. The
  functional simulator traps there, and the checker, to "make sure that MICRO_SIM
  also excepts" (checker.cc:85), ends the simulation. Aligned loads are not
  affected: `LoadsPrecise` and `CommitsReadMemory` hold of them whatever
  misaligned accesses are in flight.
- **A store-conditional can fail on the right path** (`lsu_reservation`,
  lsu.cc:453). Retire asserts that store-conditionals succeed (retire.cc:91). A
  load reservation sets `load_reservation` when it finds itself at the head of
  the load queue, which says nothing of older branches: on a wrong path it
  replaces the reservation of an LR that has committed, and neither restore()
  nor the squash puts it back. The SC of the right path then fails.
- **An interrupt ends the simulation** (`cosim_interrupt`, processor.cc:281).
  take_interrupt() throws before step() has counted an instruction or begun its
  record; the count stays 0 and the assertion `instret == 1` of sim.cc:146
  fails. The record of the instruction before is overwritten.

Smaller ones that are part of the models, without a run: flush() of the fetch
unit (fetchunit.cc:746) "restores checkpointed global histories" from the entry
at the head of the branch queue, which is empty whenever a serializing
instruction commits, so the entry is one of a lap before or of a squashed branch
and predictions suffer; the assumption of
CacheClass.cc:315 and the lead of the functional simulator (section 2); sizes
that nothing checks (`SizesAssumption`, `CoSimAssumption`); the access refused
to the instruction cache, whose -1 is taken for a cycle (ic.cc:67) and which
mispredict() does not clear; a dirty line written back to the second level at the
address of the line that replaces it (CacheClass.cc:297); times in the second level that are not monotonic
(the assertion at CacheClass.cc:154 is commented out); a program's stores next
to a buffer that the host's read-modify-write loses, on both sides alike.

## 7. Not modelled

- `PERFECT_BRANCH_PRED`: no checkpoint is resolved and masks are never cleared.
- Integer arithmetic of the ALU, the contents of most CSRs, register values: the
  checker compares them with the functional simulator at run time.
- `PRESTEER`, with which dispatch binds an instruction to one lane.
- Device addresses.
- An unknown opcode that commits, with whatever flags its place of the payload
  held: the functional simulator traps on it, and the checker ends the simulation
  (checker.cc:90), so `FrontEnd` has no such step.
- Training of the memory dependence predictor, BTB, gshare, indirect predictor,
  trace cache and RAS contents: they decide how good a prediction is, never
  whether the program is right, and are choices. The RAS is not precise after
  recovery by the code's own comment (fetchunit.cc:522).
- The recovery path with `br_misp` and `val_misp`: nothing sets these bits.
- Floating point: remainders (no instruction calls them), sign injection and
  moves, the rounding mode in the instruction that traps (decode.h:213-216), the
  accumulation of flags at retirement (retire.cc:101-102).
- Host: console reads and disk, which both hosts would do for themselves, the
  frame buffer, the ELF loader, checkpoints, buffers of length zero, the
  names of the devices' command 0, which differ between the hosts.
- Interrupts in the pipeline, which the functional simulator does not survive.
- Statistics, option parsing and construction.

## 8. Plan

Done: every component that carries state through the pipeline, and its proofs: for
renamer, issue queue, load/store unit, frontend, lanes, fetch unit, caches and
co-simulation. What would come next, in the order of what it is worth:

1. **Proofs** of safety for `HostInterface`, for which the run has none yet: that
   a recording is there before the mirror asks for it.
2. **Composition**: `FrontEnd` over `RegisterMapping` and `AgeQueue` in place of
   counts, now that both are proved to be implemented.
3. **CSRs and interrupts** in `CoSim`, once the interrupt of section 6 is
   handled.
