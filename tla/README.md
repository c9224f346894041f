# Verification of the Uranium-235 SOC

TLA+ models of the control logic of the Uranium-235 RISC-V SOC (Verilog, in
`src/design`) and of the software that comes with it (C, in `src/software`), TLC
runs over small instances, and TLAPS proofs for every instance.  `PROJECT.json`
lists the runs, the mutants, the theorems, and for every definition the source
lines it models.

## 1. The system

The SOC is a five-stage in-order core (`uv_ucore.v`: IFU, IDU, EXU, LSU, CMT,
with a BPU, a register file and a CSR file), a bus interface unit, a directly
accessed memory (DAM) of two SRAM banks, and a device subsystem: a 4x8 bus
fabric with a boot ROM, a device SRAM, a system-level controller (SLC) and
peripherals (UART, SPI, I2C, GPIO, timer, watchdog) behind APB bridges.
Everything is one clock domain; all parts run concurrently, every cycle.

All buses use one protocol: a request channel (`req_vld`, `req_rdy`, direction,
address, mask, data) and a response channel (`rsp_vld`, `rsp_rdy`, exception,
data).  A transfer happens ("fires") in a cycle in which valid and ready are
both high.  A master has one request outstanding; it may issue the next one in
the cycle in which it takes the answer.

| Component | State | Operations and interaction | What makes it correct |
|---|---|---|---|
| queue `uv_queue.v` | storage, two pointers, length | write, read, clear, any of them in one cycle; between the serial engines and the registers of UART, SPI, I2C | behaves as a bounded FIFO; its ready outputs hold one cycle later |
| fabric `uv_bus_fab.v` | lock of each master, pending access faults, priority of each arbiter | grant, lock, release, fault; between 1-4 masters and 2-8 slaves | transactions never mix, answers reach their request, nobody starves |
| arbiters `uv_arb_rr.v`, `uv_arb_fp.v` | priority | choose one of the requesters | nearest requester, bounded waiting |
| APB bridge `uv_bus_to_apb.v` | request, access and response registers | setup, access, wait states, buffered answer | every request performed once; the slave contract |
| SRAM controller `uv_sram_bus_ctrl.v`, `uv_sram_sp.v` | two-cycle state of a misaligned access, buffered read data | aligned and misaligned read and write | reads see writes; the slave contract |
| LSU `uv_lsu.v` | copy of its input, request status, last pipeline stage | take an instruction, load, store, write back | no instruction lost, repeated or mixed with another |
| CMT `uv_cmt.v` | registered flush and trap record | commit, exception, interrupt, mret | traps are precise and in order |
| CSR file `uv_csr.v` | mstatus and other CSRs, counters | CSR instruction, trap entry, mret | interrupts do not nest |
| EXU `uv_exu.v`, IDU `uv_idu.v` | pipeline registers, stalls, bypass buffers | decode, forward, stall, branch | operands are the newest values |
| IFU `uv_ifu.v`, BPU `uv_bpu.v` | program counter, two-deep instruction buffer | fetch, flush, predict | every instruction delivered once, with its pc and its fault |
| BIU `uv_biu.v`, DAM `uv_dam.v` | - / banks | routing, 2x2 fabric and two SRAM controllers | fixed access time, no cross talk |
| SLC `uv_slc.v` | interrupt enables, priorities, pending bits, gate locks; machine timer | gateway, claim, complete, timer, reset requests | no interrupt lost, taken twice or unjustified |
| UART, SPI, I2C, timer, GPIO | serial state machines, registers, queues | configure, transmit, receive, interrupt | frames as configured, no word lost |

The software is C without an operating system, in two layers:

| Component | State | Operations and interaction | What makes it correct |
|---|---|---|---|
| drivers `uv_sys.c`, `uv_irq.h` | none of their own; the device registers | configure, poll, send, receive; enable interrupts; 64-bit timer by halves | registers written in an order in which no intermediate state does harm; values read whole |
| trap handler `handler.c`, `crt.S`, `irq_handler.c` | receive count and buffer, shared with main | claim, read the queue, complete | nothing lost between main, handler and device |
| TestUART, TestSPI, TestTimer | loop counters | set up, send, wait for the handler, compare | they end, and with a passed check |
| CoreMark `core_*.c` | one memory block in three parts: linked list, matrices, text | find, reverse, sort, remove, undo; matrix products; scanner | inputs restored after each iteration, memory not left, known check sums |
| Dhrystone `dhry_*.c` | globals and two linked records | a fixed sequence of procedures per run | the final values the program prints as expected |

What is hard here: steps of the core, of both bus masters and of the slaves
coincide in one cycle in combinations no directed test produces; state is
registered in one cycle and used in the next, when a flush or a stall may have
changed its meaning; the regression runs user-level instruction tests only and
skips the machine-mode trap tests (`test/regression/regress_isa.py`).  In
the software: main, the interrupt handler and the devices share queues, counters
and half-written registers; and the benchmarks modify their inputs in place and
rely on undoing it.  The hazards are listed, each at its line, in `PROJECT.json`.

Not modelled, and why: what the arithmetic units compute, decoders and register
accessors (data, not control); `uv_bus_to_ahb.v` (instantiated nowhere); stubs
(`uv_qspi.v`, `uv_wdt*.v`, `uv_dbg.v`, `uv_eflash.v`, `uv_stack.v`); pads, PLL,
LDO, clock gates and synchronisers (below the cycle level); wiring
(`uv_sys.v`, `uv_soc.v`, most of the subsystems); the vendored riscv-tests.  Of the
software: `encoding.h` (generated constants, a quarter of all C lines);
`printf.c` and `malloc.c` (in no build: the driver's source list leaves them
out); system calls that return an error or a constant; the exception branch of
`handle_trap`, which prints and exits; driver calls that no program makes
(`uv_uart_set_parity`, which never writes back what it computes, the transmit
interrupts, byte and half-word SPI transfers, `uv_tmr_set_val`); edge and
low-level triggers of the gateway; all measurement of time; in CoreMark the
search for a number of iterations, seeds from arguments, several threads,
subsets of the algorithms and the 6000-byte parameters (hours of evaluation for
the same code).

## 2. How hardware is modelled

A state is a settled clock cycle: the registers, and the inputs driven in that
cycle.  A wire is an operator over that state, named like the wire.  A step is
the rising edge that ends the cycle: `Clock` is the conjunction of one `Update`
definition per group of `always` blocks, all reading the old state, and the
surroundings choose the inputs of the next cycle (`Drive`).  So a step is a
simultaneous move of everything, and the interleavings of interest are the
combinations of inputs in successive cycles.

Data is abstracted to what the properties tell apart: an address to the slave
it matches, a request to a model value, a byte to the set of marks it carries,
an instruction to its kind and a number; a bit vector is the set of the positions
of its ones.  Variables called history or bookkeeping (`serving`, `awaited`, `owed`,
`ref`, `lost`, `inflight`, `touched`, `handler`, `withdrawn`, `waited`) record what happened; no register depends on them.  The environments
that are assumed to obey the bus protocol look at `awaited` and `owed`.

A definition with a suffix, such as `wr_rdy_NoLookahead` beside `wr_rdy`, is a
faulty variant; replacing the definition by it makes the property named in
`PROJECT.json` fail.

## 3. Modules

* `Fifo`: what a bounded queue with clear promises.  `UvQueue`: `uv_queue.v`;
  implements `Fifo` with `items <- Queued`, the words of the ring in order.
* `RoundRobin`: the choice of the arbiter.  `ArbRr`: the bit vectors of both
  arbiters, shown to compute it; the subtraction is spelled out with its borrows
  (`Minus`), and `MCBlocks` checks it against integers (`MinusSubtracts`).  `BusFab`: `uv_bus_fab.v`, with an arbiter of
  module `RoundRobin` per slave.
* `SlavePort`: the contract between fabric and slave, for one slave.
  `BusToApb`: the APB bridge; `SramBusCtrl`: SRAM controller and memory; both
  implement `SlavePort`.  `BusFab` assumes of its slaves and masters what
  `SlavePort` states (`Slave`, `BlockingMaster`), and proves `NoOverrun`, the
  part of `Client` that the fabric has to provide.  That masters hold a request
  until it is taken is true of the load/store unit except under a trap: `uv_exu.v:518`
  withdraws it.  `BusFab` and `DevBus`, and what is shown of them, are about behaviours
  without such a withdrawal; `Dam` has it.  Not modelled is its effect on a device: the
  bridge registers a request in its first cycle (`uv_bus_to_apb.v:147`) and carries it
  out in the second, whether or not it is still there.
* `DevBus`: `BusFab` and `BusToApb` in one state, as the device subsystem
  connects them.  `RspWires` and `ReqWires` are the connection: what the slave
  port of the bridge drives in the fabric is what the bridge puts out, and the
  bridge's inputs are what the fabric hands on.  Masters, peripheral and the
  other slaves are free within the protocol.  What each part assumes of the
  other in its own module is a theorem here.
* `Dam`: the fabric with the handshake of two SRAM controllers, a fetch port that
  may be redirected while it waits, and a load/store port that takes its request
  back when a trap flushes the pipeline; `BlockingMaster` rules both out elsewhere.
  When a flush may come is taken from `BackEnd`: one cycle after the trap's
  instruction commits, so in the second cycle of the instruction behind it.  The
  fetch unit is reduced to what its port shows.  `withdrawn` records that a
  granted access was taken back, `waited` how long a port keeps a request up.
* `BackEnd`: LSU, CMT and the interrupt bits of mstatus, with the output side
  of the EXU and a memory as environment.  The EXU holds an offered
  instruction until it is taken or flushed, but may load the next one into its
  output registers meanwhile (`Held`), as `uv_exu.v` does since `pipe_nxt` does
  not look at `ex2ls_rdy`.  The memory answers one cycle after it has taken a
  request, after any number of cycles without ready: that is what the SRAM
  controller (a misaligned access delays ready, not the answer) and the APB
  bridge with a peripheral that is always ready do.
* `Pipeline`: the stages in front of and inside `BackEnd` seen from the data:
  operand read of the IDU, buffers, stalls, bypasses and requests to multiplier
  and divider of the EXU, write-back of the LSU, register file, one CSR.  The
  wires carry the names of `uv_exu.v`; `ls_pipe`, `ls` and `wb_*` are those of
  `uv_lsu.v`, `Rs_data` and `id` those of `uv_idu.v`.  The two operands have
  paths of the same shape, so one is followed (`src`) and the other one can
  only stall (`src2`).  A value is a bit that an instruction brings along.  The
  bits change from FALSE to TRUE once, at a time the run chooses (`newer`):
  if an older value is ever used in place of a newer one, there is a behaviour
  in which the two differ.  Fetch unit, memory and traps are the environment;
  the memory is the one of `BackEnd`, and a trap may hit any instruction.
  `ref` and `refc` are the registers and the CSR after the instructions that
  have left the EXU, in order; a trap sets them back to what has committed.
* `Slc`: gateway and machine timer.  `Serial`: a UART or SPI master as its
  driver sees it.  `Firmware`: main, trap handler and driver calls of TestUART,
  TestSPI and TestTimer, one register access per step (but for the initialisation
  of a device, which nobody looks at before it is complete), composed with both.
  What is sent comes back, as `tc_perips.v` wires it; the second UART there queues
  words, up to `LineWords` together with the line.  Main and handler are two
  programs on one core; devices, gateway and timer step in between at any
  time, so that no speed is assumed.  Here a step is not a clock cycle: of
  the core only the interrupt enables are left, and that an interrupt does not
  nest is what `BackEnd` shows (`NoNestedIrq`).
* `CoreUtil`, `CoreMatrix`, `CoreState`, `CoreList`: the parts of CoreMark as
  operators, with integer widths and check sums; the list is a heap of `next`
  and `info` pointers, the scanner a table of edges.  `CoreMark`: `main` and
  the steps of `core_bench_list`.  `Dhrystone`: `main` in six steps per run.
* `BlocksProofs` (queue and arbiters), `BusFabProofs`, `DevBusProofs` (bridge,
  and bridge with fabric), `DamProofs`, `SramBusCtrlProofs`, `BackEndProofs`,
  `PipelineProofs`, `SoftwareProofs` (firmware, Dhrystone, CoreMark's matrix):
  the theorems.  `DevBusProofs` and `DamProofs` build on `BusFabProofs`.
* `MC...`: the instances for TLC.

## 4. Runs

| Run | Instance | Distinct states | Shows |
|---|---|---|---|
| `backend` | 4 instruction numbers | 706,512 | order, precision and completeness of commit; the extent of a trap's shadow; no nested interrupts |
| `backend_shadow` | same | - | violated: a flushed instruction may have had an effect |
| `backend_excp` | same | - | violated: an exception under an interrupt is recorded with the next pc |
| `bus_fab` | 2 masters, 2 slaves | 7,096 | separation, no overrun, routing |
| `dev_bus` | 2 masters, fabric, 1 bridge, 2 data words | 3,080 | the two parts keep what they assume of each other; every request is served, performed once, and answered to the master that asked |
| `dam` | 2 ports, 2 banks | - | violated: a bank may stay locked for ever after a trap |
| `pipeline` | 4 programs, 2 registers, 2 multiplier stages, 2 divider cycles | 392,678 | operands and CSR values are the newest; results retire; units answer their own request; stalls end |
| `pipeline_store` | same | - | violated: a store writes an old value of its data register |
| `sram` | 2 words of 4 bytes, 2 writes | 1,237,254 | reads see writes at every alignment; slave contract |
| `blocks` | queue of 3 slots with 2-bit pointers and 2 words; arbiter of 4 lines; one rests while the other runs | 5,374 | the queue implements `Fifo` and its ready looks ahead; the arithmetic of the arbiters computes the round-robin choice; bounded waiting |
| `benchmarks` | 39 sets of CoreMark parameters, Dhrystone with 1, 2, 7 and 100 runs | 4,323 | list, matrix and text are restored; the sort is stable; scans stay inside; known check sums; final values |
| `firmware` | 16 words, threshold 4, queues of 8 (the real values), 16 words on the line; halves of 3, period 5, 2 rounds for the timer | 394,315 | words conserved; no spurious interrupt; programs end; the timer's period and value; dividers |

Bounds.  Two masters and two slaves are the smallest fabric with contention
for a slave and with a choice of slaves; the proofs lift the bound.  One slave
is enough for starvation (`dev_bus`), since arbiters are independent; other slaves
beside the bridge are covered by the proofs.  Three slots with
pointers that could count to four exercise the explicit wrap.  At most two
instructions are between the EXU and commit, one more can wait in the EXU and
the destination index can be one commit old, so four numbers tell all of them
apart; the proofs need `N > 2` only.  Two words of four bytes have every offset, the carry
into the next word and the wrap at the end of the bank; two writes (`MaxWrites`)
allow one to overwrite half of another.  Reads are unbounded.
A program is a set of instructions that come in any order, any number of times
and with bubbles in between; the four sets combine instructions that
produce a register with memory accesses, with jumps, with the units and a
mispredicted branch, and with CSR instructions.  Two stages (`MulStage`) and two
cycles (`DivCycles`) are
the shortest latencies in which a unit is busy without having just started or
being about to answer; the chip has three and thirty-three.
The three sets of parameters that `core_main.c` can validate at 2000 and 1200
bytes run in full.  A list of 615 / 3 bytes has items in every relation that the
larger ones have; an odd number of rounds (33) leaves it reversed before the
sort, and 32 seeds vary data and indexes, including seeds that give two items
the same index.  Seeds 5 and 7 at 2000 bytes have such duplicates too.
All 16 words fit on the line and into the peer of the UART (`LineWords`), so that
this bound restricts nothing.  A half of a timer register has three values, so that carry, wrap and a
half-written compare value occur; a period of 5 needs both halves.

Fairness.  `dev_bus`: the clock runs, every master takes its answers (the LSU
ties `ls2mem_rsp_rdy` to one), and a peripheral does not insert wait states for
ever (those of this chip tie pready); other slaves, where there are any, get ready
and answer.  Nothing is assumed of the bridge or of the arbitration.  `dam`: the
clock runs.  `firmware`: core and devices
are clocked, and the core takes a pending interrupt; main is strongly fair,
since it is interrupted again and again by the timer but gets to execute between
two interrupts, 10000 clocks apart, whose handler takes a few hundred.  The
other runs assume nothing.  Deadlock is checked in every run but `firmware`,
whose programs halt; in `benchmarks` it is what shows that the inner loops of
Dhrystone end.

Types are not a question of a run of their own: where a module has proofs, its
type invariant is proved (section 6).

## 5. Findings

* `backend_shadow`.  `uv_cmt.v` once flushed combinationally (the commented
  lines under "Flush pipeline.") and now registers the flush.  In the cycle in
  which a trap commits, the instruction behind it is in the LSU and is not
  held back: its store or load is taken by the bus, or it writes a CSR, and it
  is flushed afterwards.  After an interrupt it runs a second time.
  `ShadowBounded` says how far this goes: one instruction, never two.
* `backend_excp`.  If an interrupt is taken in the cycle in which an
  instruction with an exception commits, the result is suppressed as for an
  exception, but mepc is the next pc as for an interrupt: the instruction (an
  `ecall`, say) is skipped and its exception is lost.
* `pipeline_store`.  `lw x1; lw x2; sw x1, 0(x2)`: the store waits one cycle for
  x2.  The first load's value passes on the bypass in that cycle and is gone in
  the next, in which `st_data` takes what the IDU read before the load.  The ALU
  operands are kept over a stall (`src_alu_opa_r`), store data is not.
  `LateOperandsNewest` says where store data is right: when the store leaves the
  EXU in its first cycle and the LSU does not make it wait.  The source of a
  CSR instruction has the same limits.
* `dam`.  A trap commits, and directly behind it is a misaligned load or store.
  Its bank needs two cycles; the fabric has locked the bank to the load/store
  port after the first one, and in the second one the flush takes the request
  back.  No response comes that would release the lock.  The fetch port gets
  nothing from this bank until the load/store port is granted a bank again, this
  one or the other, since the new grant replaces its lock; if the handler is in
  this bank that is never: the core hangs.  In the cycle of such a grant of the
  other bank the stale lock still drives the first one.  The run does not say how
  often this happens; the model leaves the instruction stream free, and a
  program without misaligned accesses, or with handler and data in different
  banks, does not meet it.

Limits that the statements of the properties name, and which are worth knowing:
`Finishes` allows main to wait for ever once the handler has been so late that
it found more words than the threshold, or that a word was overrun.
`ListRestored` needs distinct indexes, which the comment "the list is back to
original state" (`core_list_join.c:130`) does not say; the seeds of the three
builds have them.  `InputsRestored` excludes seeds that turn a byte of the text
into a comma.  `DividerNearest` excludes 1200 baud, whose divider needs 17
bits.  `SET_EXT_IE` shifts what it writes back, which is harmless as long as a
program enables one source.

A further limit is in the statement of `MulDivOwn`: a flush takes back a
request to the multiplier or divider, but the unit goes on, and a request that
meets a busy unit may get a result that is not its own.  `StallsEnd` shows that
even then the core does not hang.

## 6. Proofs

All theorems are of the form `Spec => []Inv` or `Spec => Property`, for every
value of the constants that satisfies the named assumption of the module.  An
inductive invariant is listed with what each part of it is needed for.

* **Queue** (`QueueAssumption`: depth at least 2, within the pointer range).
  `IInv` is `TypeOK /\ PointersAgree`: neither the length nor a pointer is in range
  without the relation between them.  `QueueImplementsFifo` maps the initial
  state and every step, by cases on clear, write and read; the lemmas say what
  `Queued` is as a sequence.
* **Arbiters** (`ArbAssumption`: at least two lines).  With a one-hot priority `p`,
  the borrow of `req_d - p` runs from `p` to the first request of the doubled
  vector and no further; so the one bit that `req_d & ~req_sub` keeps is this
  request (`MinusOneHot`), and in the line it stands for it is the nearest one
  (`WinnerNearest`).  That there is a first one is the least-number principle
  (`Least`, from well-foundedness).  For `BoundedWaiting`, `ArbInv` says that the
  arbitrations a line has lost in a row and its distance from the priority add up
  to less than `WIDTH`: whoever wins was nearer, and priority moves past the winner.
* **Fabric** (`FabAssumption`).  `OneTransaction` relates locks, the slaves' work
  and what masters wait for: a lock is one transaction, before and after the
  slave has taken the request.  It is inductive with `TypeOK`, and it implies
  `RequestsSeparate`, `NoOverrun` and `ResponsesRouted`.  The lemmas describe what
  an arbiter grants, what a response releases and who drives a slave.  The step
  (`EdgeStep`, `CoreStep`) needs of a master only that it holds a request once it
  has been granted (`KeepsGranted`), which the proof for `Dam` uses.
* **Bridge** (`ApbAssumption`).  `Phases` gives the three phases of a transaction
  in terms of the registers; with `ApbTypeOK` it is inductive, implies `AccessedOnce`
  and carries the refinement of `SlavePort`.
* **Fabric and bridge** (`DevAssumption`: the bridge is one of the present slaves; any
  number of masters and other slaves).  `DevInv` joins the invariants of both
  parts with the wires and with `Linked`: what the fabric has the bridge serving
  is what the bridge owes.  The circle of assumptions is broken
  along the clock: that the bridge answers only what it was given (`BridgeIsSlave`)
  follows from the registers before the edge, with it the fabric's step goes through
  (`FabricStep`), and the new state of the fabric then shows that the
  request the bridge sees is held and comes only when nothing is owed
  (`RequestKept`, `BridgeStep`).  So a behaviour of `DevSpec` is one of `BusFab!Spec`
  (`DevImplementsFabric`) and one of `ApbSpec` (`DevImplementsBridge`), and the
  theorems of both parts carry over.  `AnswersAsker` follows from `Linked`.
* **Directly accessed memory**, as it is connected (`Connected`: two ports, every
  bank present; any set of banks).  These theorems say what the violated run
  `dam` leaves open: how much holds as long as no granted access was taken back.
  The ports are kept apart (`SafeUntilWithdrawn`) and wait at most two cycles for
  a bank and one for the answer (`InTime`; waits are counted up to `Late`), a
  bank sees both cycles of a misaligned access (`AskedTwice`), and nothing but a
  flush takes a granted access back (`OnlyFlushWithdraws`).
  `DamInv` is the type invariant and, while nothing was withdrawn, `Banks`:
  `OneTransaction` of the fabric; a bank answers in the cycle after it has taken a
  request (`Prompt`); a bank in the second cycle of an access is locked to the
  load/store port, which still asks for it (`SecondCycle`); a locked bank is about
  to answer or in such a second cycle, and its arbiter prefers the other port next
  (`LockedBank`); and what a port still waits for after one and two cycles
  (`WaitsFor`).  A redirected fetch does no harm because a fetch that has been
  granted is taken at once.  After a withdrawal the safety of the fabric is really
  lost (section 5), so the condition cannot be dropped.  TLC checked `DamInv`
  and the four properties on the instance of `dam` before they were proved, where
  waits of two cycles and withdrawals do occur; they are not part of a run.
* **SRAM controller** (`SramAssumption`, `NoneAssumption`: at least two bytes
  per word, `None` is no request and no response).  `Handshake` says that an answer is up
  for exactly what is owed and that the second cycle of a misaligned access is
  that of the request still on the bus; with `TypeOK` it is inductive and
  carries the refinement of `SlavePort`, also where the memory is smaller than
  its address range.  For the data, `Second` describes the registers in the
  second cycle (the other word, the bytes that go into it, and the first word
  already read), and `Contents` the memory at all times: what the writes mean,
  except for the bytes that the first cycle of a misaligned write has already
  written.  `WritesWhole` and `ReadsSeeWrites` follow.  They are proved for
  `SRAM_DP = SPAN`, a memory as deep as its address range: that is how
  `uv_dev_subsys.v` and `uv_dam.v` set the parameter, and in a smaller one an
  access across its end is half done and answered with an exception.  The
  arithmetic (a byte is a word and a lane; a distance over the wrap at the end
  of the bank) is in lemmas of its own.
* **Back end** (`NAssumption`: `N > 2`).  The inductive invariant has four parts beside
  `TypeOK`: `Offered` (where the instruction that is offered can be found),
  `Owed` (which request the memory is answering), `LastStage` (what the
  registers of the last stage say of one instruction) and `Tracked` (the
  instructions in flight are the last stage and the offer).  None is inductive
  alone: the last stage is right only if the offer was, and the request status
  only if the memory answers in time.  `NoNestedIrq` needs one more, `Masked`:
  a flush lasts as long as mstatus still has the old `mie`, and nothing
  commits under a flush.
* **Pipeline** (`ProgramAssumption`, `UnitAssumption`: programs of well-formed
  instructions, units with at least one stage or cycle).  `TypeOK` is inductive;
  beyond types it says that what is written back has a destination and that
  the divider's count stays in range.  `StallsEnd` is inductive with it, for
  every latency: a request that stays pending moves up in the multiplier, and
  a divider that is started, even again, is busy.  The rest is proved in three
  layers, each inductive given the ones before it.
  `Control` says where instructions are: while the LSU waits for the memory
  with its copy of an instruction (`Waiting`), the EXU's output registers hold
  the same one or, early, the next (`Early`), otherwise the one handed over last
  (`Handed`); what the last stage writes belongs to an instruction
  (`LastStage`); and who waits for a unit or a CSR stays where it is
  (`UnitsHeld`, `CsrHeld`).  `MulDivOwn` follows.
  `Retiring` and `RetiringCsr` say that the program's value of a register, `ref`, is
  in the first of the LSU's input, the last stage and the register file that
  has it; `ResultsRetired` and `CsrReadNewest` follow.
  Then, unless a load of the operand is just ahead, in which case the EXU stalls
  (`LoadStalls`), the two bypasses carry the program's value
  (`ForwardRight`, a consequence of the layers below) and the operand is right in
  every cycle that the instruction spends in the EXU (`OperandRight`).  The base
  of a jump is the exception that needs `JumpRight`: it is not latched when the EXU
  waits, and is right because a jump for which something is bypassed never waits for
  another reason.  `StoreRight` is what the LSU's own bypass of store data
  relies on.  `OperandsNewest` and `LateOperandsNewest` follow.
  `ProgramAssumption` states what the decoder guarantees; its last part, no
  second source for loads, `jalr` and CSR instructions, is `uv_idu.v:783`.
* **Firmware** (`SlcAssumption`, `DepthAssumption`, `FirmwareAssumption`: any depth, line and
  threshold up to the depth, any number of words that the threshold divides, any timer
  width and any period that fits).
  `NoSpurious` is about the handler,
  but what makes it true is spread over main, gateway and device: the threshold
  is written before the enable (`SetUp`), the gate stays locked from trigger to
  completion so that at most one interrupt is on its way, and while it is, only
  the line touches the receive queue, and only adds to it (`Gate`).  With the
  shape of the records (`Shape`) this is inductive.
  `Timer` follows TestTimer's main: the timer does not count before both
  halves of its compare value are written, never gets past it, and stands when
  it is read.  `OnPeriod`, an action property, follows from it; with `Reading`
  (the half read first is that of a value the timer had in the call, which it
  has still, or it has been cleared) so does `ReadWhole`.
  `Conserved` is inductive with `Words`: counts and buffer agree, `Put` finds the
  room that `Poll` saw, and a device is enabled before it is given a word, for an
  idle transmitter throws away what it may not send.  A word moves along one
  sequence (buffer, receive queue, line, transmit queue) whose concatenation
  the moves leave alone.  `DividerNearest` is arithmetic, with `Divider`.
* **Dhrystone** (`DhrystoneAssumption`: any positive number of runs, any contents
  of the second record).  `DInv` gives, for each of the points between the procedures of a
  run, the values that matter at it: those that are already final after the first
  run (`RecordsRight`), those that each run sets again (`RunRight`), and the
  element of the matrix that each run increments (`ArraysRight`).  This is the
  induction over runs that the program's "should be" lines take for granted.
* **CoreMark's matrix**.  `MatrixRestored`: for every size, seed and contents
  `core_bench_matrix` leaves A as it was.  The seed is added and taken away modulo
  2^16, and what is in between only reads A.  It is the part of
  `InputsRestored` that is about the matrix; the text is out of reach.

Only model-checked:

* liveness (`RequestsServed`, `RequestsAnswered`, `Finishes`, and
  the violated `Accessible`): fairness is outside the prover's reach.  `ImplementsFabric` and
  `ImplementsSlavePort` are safety properties and are proved;
* CoreMark (`ListIntact`, `ListRestored`, `InputsRestored`, `ScanInside`,
  `Validated`, `SortsStable`): lists, text and check sums are recursive
  definitions over data and bitwise operators, and what they compute for every
  input needs an induction that the prover does not have.  But for
  `MatrixRestored` above, the properties stay with TLC.

## 7. Plan

Done: queue, fabric, arbiters, bridge, SRAM controller, back end, pipeline,
drivers with gateway, timer and serial devices, benchmarks, device bus, directly
accessed memory.  Next, in this order:

1. The rest of a withdrawn request: data of the banks in `Dam` (a misaligned
   store that has written one of its two words), and the locks that it leaves
   behind in the bus interface unit, which a later device access meets; a withdrawn
   access to a device, which the bridge carries out all the same.
2. `Ifu`: program counters, two-deep buffer, masks of dropped answers; every
   instruction is delivered once with its pc and its own fault.
3. The bit level of `Uart`, `Spi`, `I2c`, and `Gpio`: serial state machines with
   `UvQueue`, and the registers at the APB that no driver uses.
4. Proofs: the EXU of `Pipeline` as the environment of `BackEnd`; the SRAM
   controller in place of the handshake in `Dam`, as the bridge is in `DevBus`; the
   main invariants of the modules above.
