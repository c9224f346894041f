------------------------------ MODULE Firmware ------------------------------
(***************************************************************************)
(* The interrupt-driven test programs on the hardware they drive: TestUART,*)
(* TestSPI and TestTimer with the drivers of uv_sys.c and uv_irq.h, the    *)
(* trap handler of handler.c and crt.S, the interrupt handlers of          *)
(* irq_handler.c, and the controllers of Slc and Serial.                   *)
(*                                                                         *)
(* A step of the core is one access to a register (main and handler are    *)
(* two programs on one core; the handler runs with interrupts off), and the*)
(* devices, the gateway and the timer step in between at any time: no      *)
(* speed is assumed.  A word is its number, 1 for the first one sent.      *)
(***************************************************************************)
EXTENDS Slc, Serial

CONSTANTS
    Apps,        \* the programs to run: a subset of {"uart", "spi", "timer"}
    TestNum,     \* TEST_NUM: words to send
    RxTh,        \* the receive threshold main writes
    LoopCyc,     \* LOOP_CYC: compare value of the timer
    LoopNum      \* LOOP_NUM: timer interrupts to wait for

ASSUME FirmwareAssumption ==
    /\ Apps \subseteq {"uart", "spi", "timer"} /\ {0, 1} \subseteq Irqs
    /\ RxTh \in 1 .. Depth /\ TestNum \in Nat /\ TestNum % RxTh = 0
    /\ LoopCyc \in 1 .. TimerRange - 2 /\ LoopNum \in Nat

VARIABLES
    app,         \* the program in the flash
    pc,          \* what main does next
    cpu,         \* mie: interrupts on; mask: the enabled ones; cause: trap being served
    hpc,         \* what the handler does next, "none" outside of it
    slc, dev,    \* system-level controller and serial device
    mem,         \* sent, recv_cnt, recv_buf, verdict; trig, loops; scratch register
    loc,         \* locals: id, len and words read of the handler; high and low of get_val
    lost, odd    \* history: words overrun; a batch was not RxTh words

vars == <<app, pc, cpu, hpc, slc, dev, mem, loc, lost, odd>>

Serials == {"uart", "spi"}
IrqOf(a) == IF a = "uart" THEN 0 ELSE 1     \* UART_IRQ, SPI0_IRQ

Init ==
    /\ app \in Apps
    /\ pc = "init" /\ hpc = "none"
    /\ cpu = [mie |-> FALSE, mask |-> {}, cause |-> "none"]
    /\ slc = SlcReset /\ dev = SerialReset
    /\ mem = [sent |-> 0, recv_cnt |-> 0, recv_buf |-> [i \in 1 .. TestNum |-> 0],
              trig |-> FALSE, loops |-> 0, verdict |-> "none", scratch |-> "text"]
    /\ loc = [id |-> 0, len |-> 0, got |-> 0, high |-> 0, low |-> 0, seen |-> {}]
    /\ lost = {} /\ odd = FALSE

-----------------------------------------------------------------------------
(* main: one step per register access.                                     *)

\* main runs when no handler does, and goes from one step to the next.
At(from, to) == hpc = "none" /\ pc = from /\ pc' = to

\* The registers are written one by one, but nobody looks at the device in
\* between: its interrupt is off and its queues are empty.
InitDevice ==
    /\ app \in Serials
    /\ At("init", "glb")
    /\ dev' = IF app = "uart" THEN uv_uart_init(dev, TRUE, TRUE, 115200)
                              ELSE uv_spi_init(dev, TRUE)
    /\ UNCHANGED <<app, cpu, hpc, slc, mem, loc, lost, odd>>

\* set_csr(mstatus, MSTATUS_MIE); TestTimer starts with it.
EnableGlb ==
    /\ \/ app \in Serials /\ At("glb", "ext")
       \/ app = "timer" /\ At("init", "mtie")
    /\ cpu' = [cpu EXCEPT !.mie = TRUE]
    /\ UNCHANGED <<app, hpc, slc, dev, mem, loc, lost, odd>>

\* set_csr(mie, MIP_MEIP) or set_csr(mie, MIP_MTIP)
EnableIrq ==
    /\ \/ At("ext", "pr") /\ cpu' = [cpu EXCEPT !.mask = @ \union {"ext"}]
       \/ At("mtie", "cfg") /\ cpu' = [cpu EXCEPT !.mask = @ \union {"tmr"}]
    /\ UNCHANGED <<app, hpc, slc, dev, mem, loc, lost, odd>>

\* uv_config_ext_irq and the enables.  SET_EXT_TG writes the value of reset, a
\* high level, which is the trigger of module Slc.
ConfigExtIrq ==
    /\ \/ At("pr", "tg") /\ slc' = [slc EXCEPT !.pr[IrqOf(app)] = 7]
       \/ At("tg", "th") /\ UNCHANGED slc
       \/ At("th", "ie") /\ slc' = [slc EXCEPT !.th = 0]
       \/ At("ie", "rx_th") /\ slc' = SetExtIe(slc, IrqOf(app))
    /\ UNCHANGED <<app, cpu, hpc, dev, mem, loc, lost, odd>>

\* Faulty variant: the interrupt is enabled before the threshold is written.
SetRxIrq_swapped ==
    /\ \/ At("rx_th", "rx_ie") /\ dev' = [dev EXCEPT !.rx_ie = TRUE]
       \/ At("rx_ie", "send") /\ dev' = [dev EXCEPT !.rx_th = RxThreshold(RxTh)]
    /\ UNCHANGED <<app, cpu, hpc, slc, mem, loc, lost, odd>>

\* The threshold comes first: at its reset value an empty queue interrupts.
SetRxIrq ==
    /\ \/ At("rx_th", "rx_ie") /\ dev' = [dev EXCEPT !.rx_th = RxThreshold(RxTh)]
       \/ At("rx_ie", "send") /\ dev' = [dev EXCEPT !.rx_ie = TRUE]
    /\ UNCHANGED <<app, cpu, hpc, slc, mem, loc, lost, odd>>

\* The polling read that finds room, then the write of the word.
Poll ==
    /\ mem.sent < TestNum /\ ~ TxFull(dev)
    /\ At("send", "put")
    /\ UNCHANGED <<app, cpu, hpc, slc, dev, mem, loc, lost, odd>>

Put ==
    /\ At("put", "send")
    /\ dev' = PutTx(dev, mem.sent + 1)
    /\ mem' = [mem EXCEPT !.sent = @ + 1]
    /\ UNCHANGED <<app, cpu, hpc, slc, loc, lost, odd>>

\* The loop that waits for recv_cnt, the comparison and main's return.
Check ==
    /\ mem.sent = TestNum /\ mem.recv_cnt >= TestNum
    /\ At("send", "exit")
    /\ mem' = [mem EXCEPT !.verdict =
                 IF \A i \in 1 .. TestNum : mem.recv_buf[i] = i THEN "passed" ELSE "failed"]
    /\ UNCHANGED <<app, cpu, hpc, slc, dev, loc, lost, odd>>

\* _exit: after the text, which goes to the same register a byte at a time,
\* the word that tells the bench the program has ended.
Exit ==
    /\ At("exit", "halt")
    /\ mem' = [mem EXCEPT !.scratch = "cafe0235"]
    /\ UNCHANGED <<app, cpu, hpc, slc, dev, loc, lost, odd>>

-----------------------------------------------------------------------------
(* main of TestTimer.                                                      *)

\* Faulty variant: uv_tmr_init writes the low half of the compare value only.
TimerSetup_low ==
    /\ \/ At("cfg", "cmp") /\ slc' = [slc EXCEPT !.auto_clr = TRUE]
       \/ At("cmp", "start") /\ slc' = [slc EXCEPT !.cmp = SetLow(@, Low(LoopCyc))]
       \/ At("start", "loop") /\ slc' = [slc EXCEPT !.cnt = TRUE]
    /\ loc' = [loc EXCEPT !.seen = {slc'.val}]
    /\ UNCHANGED <<app, cpu, hpc, dev, mem, lost, odd>>

\* uv_tmr_init writes the configuration and then the compare value by halves;
\* uv_tmr_start and uv_tmr_stop rewrite the configuration.
TimerSetup ==
    /\ \/ At("cfg", "cmp") /\ slc' = [slc EXCEPT !.auto_clr = TRUE]
       \/ At("cmp", "cmph") /\ slc' = [slc EXCEPT !.cmp = SetLow(@, Low(LoopCyc))]
       \/ At("cmph", "start") /\ slc' = [slc EXCEPT !.cmp = SetHigh(@, High(LoopCyc))]
       \/ At("start", "loop") /\ slc' = [slc EXCEPT !.cnt = TRUE]
       \/ /\ mem.loops = LoopNum
          /\ At("loop", "high") /\ slc' = [slc EXCEPT !.cnt = FALSE]
    /\ loc' = [loc EXCEPT !.seen = {slc'.val}]
    /\ UNCHANGED <<app, cpu, hpc, dev, mem, lost, odd>>

\* One round of the loop: clear the flag, then spin until the handler sets it.
Round ==
    /\ \/ /\ mem.loops < LoopNum
          /\ At("loop", "spin") /\ mem' = [mem EXCEPT !.trig = FALSE]
       \/ /\ mem.trig
          /\ At("spin", "loop") /\ mem' = [mem EXCEPT !.loops = @ + 1]
    /\ UNCHANGED <<app, cpu, hpc, slc, dev, loc, lost, odd>>

\* Faulty variant: the high half is not read again.
GetVal_once ==
    /\ \/ At("high", "low") /\ loc' = [loc EXCEPT !.high = High(slc.val)]
       \/ At("low", "exit") /\ loc' = [loc EXCEPT !.low = Low(slc.val)]
    /\ UNCHANGED <<app, cpu, hpc, slc, dev, mem, lost, odd>>

\* uv_tmr_get_val: high, low, and high again, until both highs agree.
GetVal ==
    /\ \/ At("high", "low") /\ loc' = [loc EXCEPT !.high = High(slc.val)]
       \/ At("low", "again") /\ loc' = [loc EXCEPT !.low = Low(slc.val)]
       \/ At("again", IF loc.high = High(slc.val) THEN "exit" ELSE "high") /\ loc' = loc
    /\ UNCHANGED <<app, cpu, hpc, slc, dev, mem, lost, odd>>

-----------------------------------------------------------------------------
(* Interrupts: trap_entry, handle_trap and the handlers.                   *)

Pending == {c \in cpu.mask : IF c = "ext" THEN slc.ext_irq ELSE slc.tmr_irq}

\* The core takes an interrupt between two steps of main.
TakeIrq ==
    /\ hpc = "none" /\ cpu.mie
    /\ \E c \in Pending :
          /\ cpu' = [cpu EXCEPT !.mie = FALSE, !.cause = c]
          /\ slc' = IF c = "tmr" THEN TimerTaken(slc) ELSE slc
    /\ hpc' = "trap"
    /\ UNCHANGED <<app, pc, dev, mem, loc, lost, odd>>

\* handle_trap calls the handler of the cause.
HandleTrap ==
    /\ hpc = "trap"
    /\ \/ /\ cpu.cause = "tmr"
          /\ mem' = [mem EXCEPT !.trig = TRUE] /\ hpc' = "mret"
          /\ UNCHANGED <<slc, loc>>
       \/ /\ cpu.cause = "ext"
          /\ loc' = [loc EXCEPT !.id = slc.sel] /\ slc' = ClaimRead(slc) /\ hpc' = "ip"
          /\ UNCHANGED mem
    /\ UNCHANGED <<app, pc, cpu, dev, lost, odd>>

\* The rest of handle_ext_irq.
ReadIp ==
    /\ hpc = "ip"
    /\ hpc' = IF loc.id = IrqOf(app) /\ RxIp(dev) THEN "len" ELSE "unexpected"
    /\ UNCHANGED <<app, pc, cpu, slc, dev, mem, loc, lost, odd>>

ReadLen ==
    /\ hpc = "len"
    /\ hpc' = "recv"
    /\ loc' = [loc EXCEPT !.len = Len(dev.rxq), !.got = 0]
    /\ odd' = (odd \/ Len(dev.rxq) # RxTh)
    /\ UNCHANGED <<app, pc, cpu, slc, dev, mem, lost>>

\* Faulty variant: every batch goes to the start of recv_buf.
Recv_base ==
    /\ hpc = "recv" /\ loc.got < loc.len /\ dev.rxq # <<>>
    /\ mem' = [mem EXCEPT !.recv_buf[loc.got + 1] = Head(dev.rxq)]
    /\ dev' = TakeRx(dev)
    /\ loc' = [loc EXCEPT !.got = @ + 1]
    /\ UNCHANGED <<app, pc, cpu, hpc, slc, lost, odd>>

\* recv_data: a word per step, stored behind the recv_cnt words already there.
Recv ==
    /\ hpc = "recv" /\ loc.got < loc.len /\ dev.rxq # <<>>
    /\ mem' = [mem EXCEPT !.recv_buf =
                 [i \in DOMAIN @ \union {mem.recv_cnt + loc.got + 1} |->
                    IF i = mem.recv_cnt + loc.got + 1 THEN Head(dev.rxq) ELSE @[i]]]
    /\ dev' = TakeRx(dev)
    /\ loc' = [loc EXCEPT !.got = @ + 1]
    /\ UNCHANGED <<app, pc, cpu, hpc, slc, lost, odd>>

\* Faulty variant: the handler returns without writing the claim register.
Complete_silent ==
    /\ hpc \in {"recv", "unexpected"} /\ loc.got = loc.len
    /\ mem' = [mem EXCEPT !.recv_cnt = @ + loc.len]
    /\ loc' = [loc EXCEPT !.len = 0, !.got = 0]
    /\ hpc' = "mret"
    /\ UNCHANGED <<app, pc, cpu, slc, dev, lost, odd>>

\* recv_cnt advances by the words read, none on the unexpected branch, and the
\* write of the claim register completes the interrupt.
Complete ==
    /\ hpc \in {"recv", "unexpected"} /\ loc.got = loc.len
    /\ mem' = [mem EXCEPT !.recv_cnt = @ + loc.len]
    /\ slc' = ClaimWrite(slc, loc.id)
    /\ loc' = [loc EXCEPT !.len = 0, !.got = 0]
    /\ hpc' = "mret"
    /\ UNCHANGED <<app, pc, cpu, dev, lost, odd>>

Mret ==
    /\ hpc = "mret"
    /\ hpc' = "none"
    /\ cpu' = [cpu EXCEPT !.mie = TRUE, !.cause = "none"]
    /\ UNCHANGED <<app, pc, slc, dev, mem, loc, lost, odd>>

-----------------------------------------------------------------------------
(* The hardware.                                                           *)

GateTrigger ==
    /\ Triggers(slc, IrqOf(app), Irq(dev))
    /\ slc' = Trigger(slc, IrqOf(app))
    /\ UNCHANGED <<app, pc, cpu, hpc, dev, mem, loc, lost, odd>>

GateSelect ==
    /\ ToArb(slc) # {}
    /\ slc' = Select(slc)
    /\ UNCHANGED <<app, pc, cpu, hpc, dev, mem, loc, lost, odd>>

LineStart ==
    /\ CanStart(dev, app)
    /\ dev' = Start(dev)
    /\ UNCHANGED <<app, pc, cpu, hpc, slc, mem, loc, lost, odd>>

LineArrive ==
    /\ dev.line # <<>>
    /\ dev' = Arrive(dev, app)
    /\ lost' = IF Overruns(dev) THEN lost \union {Head(dev.line)} ELSE lost
    /\ UNCHANGED <<app, pc, cpu, hpc, slc, mem, loc, odd>>

Tick ==
    /\ app = "timer"
    /\ slc' = TimerClock(slc)
    /\ loc' = [loc EXCEPT !.seen = IF pc \in {"high", "low", "again"}
                                   THEN @ \union {slc'.val} ELSE @]
    /\ UNCHANGED <<app, pc, cpu, hpc, dev, mem, lost, odd>>

Main == InitDevice \/ EnableGlb \/ EnableIrq \/ ConfigExtIrq \/ SetRxIrq \/ Poll \/ Put
        \/ Check \/ TimerSetup \/ Round \/ GetVal \/ Exit

Handler == HandleTrap \/ ReadIp \/ ReadLen \/ Recv \/ Complete \/ Mret

Next == Main \/ TakeIrq \/ Handler
        \/ GateTrigger \/ GateSelect \/ LineStart \/ LineArrive \/ Tick

\* The core goes on executing, takes a pending interrupt before it runs for
\* ever in main, and returns to main for some step between interrupts that
\* keep coming (LOOP_CYC is 10000 clocks, a handler some hundred); the
\* hardware is clocked.
Spec == /\ Init /\ [][Next]_vars
        /\ SF_vars(Main) /\ WF_vars(TakeIrq) /\ WF_vars(Handler)
        /\ WF_vars(GateTrigger) /\ WF_vars(GateSelect)
        /\ WF_vars(LineStart) /\ WF_vars(LineArrive) /\ WF_vars(Tick)

-----------------------------------------------------------------------------
(* Properties.                                                             *)

\* The words the handler has stored, those it has counted and those of the
\* batch it is reading.
Received == [i \in 1 .. mem.recv_cnt + loc.got |-> mem.recv_buf[i]]

\* All that was sent and is not overrun, from the first word received to the
\* last one written.
OnTheWay == Received \o dev.rxq \o dev.line \o dev.txq

Ascending(s) == \A i, j \in DOMAIN s : i < j => s[i] < s[j]

\* No word is duplicated, reordered or lost between main's write to the
\* transmit queue and recv_buf, other than by an overrun of the receive queue
\* (and, since main sends TestNum words, none is stored behind recv_buf).
Conserved == Ascending(OnTheWay) /\ Range(OnTheWay) = (1 .. mem.sent) \ lost

\* handle_ext_irq never takes its "Unexpected EXT IRQ" branch, and it finds at
\* least RxTh words: the order of the set-up and the locked gate let no
\* interrupt through that the queue does not justify.
NoSpurious ==
    /\ hpc # "unexpected"
    /\ hpc \in {"ip", "len"} => Len(dev.rxq) >= RxTh /\ loc.id = IrqOf(app)

\* uv_tmr_get_val returns a value the timer had during the call, although it
\* reads it by halves while the timer may be cleared.
ReadWhole ==
    app = "timer" /\ pc \in {"exit", "halt"} => SetHigh(loc.low, loc.high) \in loc.seen

\* The divider uv_uart_init writes is the nearest to the rate, for TestUART's
\* rate and for every other that uv_sys.h names but 1200, whose divider does
\* not fit into the 16 bits of the field.
DividerNearest ==
    LET nearest(div, baud) == 2 * div * baud \in 2 * MAIN_CLK_FREQ - baud .. 2 * MAIN_CLK_FREQ + baud
    IN  app = "uart" /\ pc # "init" =>
            /\ nearest(dev.clk_div, 115200)
            /\ \A baud \in BaudRates \ {1200} : nearest(clk_div(baud), baud)

\* The timer interrupt comes when the value is one below LoopCyc and at no
\* other time, also while the compare value is half written.
OnPeriod == [][~ slc.tmr_irq /\ slc'.tmr_irq => slc.val + 1 = LoopCyc]_slc

\* Nothing is under way and fewer words than the threshold are left.
Stuck == /\ app \in Serials /\ pc = "send" /\ hpc = "none"
         /\ mem.sent = TestNum /\ dev.txq = <<>> /\ dev.line = <<>>
         /\ Len(dev.rxq) < RxTh

\* Every program ends, the serial ones with a passed check, unless a handler
\* was so late that it found more words than the threshold or words were
\* overrun: only then may main wait for ever, for words that no interrupt
\* announces.
Finishes ==
    <>[](\/ mem.scratch = "cafe0235" /\ (app \in Serials => mem.verdict = "passed")
         \/ Stuck /\ (odd \/ lost # {}))
=============================================================================
