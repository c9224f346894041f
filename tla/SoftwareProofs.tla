--------------------------- MODULE SoftwareProofs ---------------------------
(***************************************************************************)
(* Proofs about the programs.  Firmware, for every queue depth, threshold, *)
(* number of words, timer width and period: an external interrupt reaches  *)
(* the handler only for a receive queue that justifies it (IInv), the      *)
(* timer interrupts on its period and is read whole (Timer, Reading), the  *)
(* baud rate divider is right (Divider), and words are conserved (Words).  *)
(* Dhrystone computes what it should for every number of runs, whatever    *)
(* the second record holds at first.  CoreMark's matrix benchmark leaves   *)
(* its input as it was.                                                    *)
(***************************************************************************)
EXTENDS Firmware, Dhrystone, CoreMatrix, SequenceTheorems, TLAPS

-----------------------------------------------------------------------------
(* The inductive invariant.                                                *)

\* The shape of the registers; all that is needed of the words is that they
\* are numbers.
Shape ==
    /\ DOMAIN slc = DOMAIN SlcReset /\ DOMAIN dev = DOMAIN SerialReset
    /\ "sent" \in DOMAIN mem /\ mem.sent \in Nat
    /\ DOMAIN loc = {"id", "len", "got", "high", "low", "seen"}
    /\ DOMAIN cpu = {"mie", "mask", "cause"}
    /\ app \in {"uart", "spi", "timer"} /\ slc.pr \in [Irqs -> Nat]
    /\ dev.txq \in Seq(Nat) /\ dev.line \in Seq(Nat) /\ dev.rxq \in Seq(Nat)

\* The threshold is written before the interrupt is enabled.
SetUp ==
    /\ dev.rx_ie => dev.rx_th = RxTh
    /\ pc = "rx_ie" => dev.rx_th = RxTh

\* The handler is between the read and the write of the claim register.
Claimed == hpc \in {"ip", "len", "recv"}

\* An interrupt is on its way from the gate to the handler's read of the length.
Raised == slc.ip # {} \/ (slc.ext_irq /\ ~ Claimed) \/ hpc \in {"ip", "len"}

\* The gate stays locked from the trigger to the completion; at most one
\* interrupt is on its way, and as long as it is, the queue holds its words.
Gate ==
    /\ slc.ip \subseteq {IrqOf(app)}
    /\ slc.ip # {} => IrqOf(app) \in slc.lock
    /\ slc.ext_irq => slc.sel = IrqOf(app) /\ IrqOf(app) \in slc.lock
    /\ Claimed => /\ slc.ip = {} /\ IrqOf(app) \in slc.lock
                  /\ loc.id = IrqOf(app) /\ slc.sel = IrqOf(app)
    /\ hpc = "trap" /\ cpu.cause = "ext" => slc.ext_irq
    /\ Raised => dev.rx_th = RxTh /\ Len(dev.rxq) >= RxTh
    /\ hpc # "unexpected"

IInv == Shape /\ SetUp /\ Gate

-----------------------------------------------------------------------------
(* Facts about the constants and the controllers.                          *)

\* The number of an application's interrupt is one of the gate's.
LEMMA IrqKnown == IrqOf(app) \in Irqs /\ IrqOf(app) \in Nat
BY FirmwareAssumption DEF IrqOf

\* The driver writes the threshold main asks for.
LEMMA ThresholdKept == RxThreshold(RxTh) = RxTh /\ RxTh \in Nat /\ RxTh > 0
BY FirmwareAssumption, DepthAssumption DEF RxThreshold

\* The gate selects the only interrupt that is pending.
LEMMA SelectsPending ==
    ASSUME Shape, slc.ip \subseteq {IrqOf(app)}, ToArb(slc) # {}
    PROVE  slc.ip = {IrqOf(app)} /\ Selected(slc) = IrqOf(app)
<1> DEFINE i == IrqOf(app)
<1>1. slc.ip = {i} /\ ToArb(slc) = {i}
  BY DEF ToArb
<1>2. slc.pr[i] \in Nat
  BY IrqKnown DEF Shape
<1>3. {j \in ToArb(slc) : \A k \in ToArb(slc) : slc.pr[k] <= slc.pr[j]} = {i}
  BY <1>1, <1>2
<1>4. Min({i}) = i
  BY IrqKnown DEF Min
<1> QED BY <1>1, <1>3, <1>4 DEF Selected

\* A step of the line keeps the words numbers and takes none from the
\* receive queue.
LEMMA LineKeeps ==
    ASSUME Shape, LineStart \/ LineArrive
    PROVE  /\ DOMAIN dev' = DOMAIN dev /\ dev'.rx_th = dev.rx_th /\ dev'.rx_ie = dev.rx_ie
           /\ dev'.txq \in Seq(Nat) /\ dev'.line \in Seq(Nat) /\ dev'.rxq \in Seq(Nat)
           /\ Len(dev'.rxq) >= Len(dev.rxq)
<1>1. CASE LineStart
  BY <1>1 DEF LineStart, CanStart, Start, Shape, SerialReset
<1>2. CASE LineArrive
  <2> DEFINE rest == [dev EXCEPT !.line = Tail(@)]
             next == IF app = "spi" /\ CanStart(rest, app) THEN Start(rest) ELSE rest
  <2>1. /\ DOMAIN rest = DOMAIN dev /\ rest.line \in Seq(Nat) /\ rest.txq = dev.txq
        /\ rest.rx_th = dev.rx_th /\ rest.rx_ie = dev.rx_ie /\ Head(dev.line) \in Nat
    BY <1>2 DEF LineArrive, Shape, SerialReset
  <2>2. /\ DOMAIN next = DOMAIN dev /\ next.line \in Seq(Nat) /\ next.txq \in Seq(Nat)
        /\ next.rx_th = dev.rx_th /\ next.rx_ie = dev.rx_ie
    BY <2>1 DEF CanStart, Start, Shape, SerialReset
  <2>3. PICK q \in {dev.rxq, Append(dev.rxq, Head(dev.line))} : dev' = [next EXCEPT !.rxq = q]
    BY <1>2 DEF LineArrive, Arrive
  <2>4. q \in Seq(Nat) /\ Len(q) >= Len(dev.rxq)
    <3>1. \A r \in Seq(Nat), w \in Nat :
              /\ Append(r, w) \in Seq(Nat)
              /\ Len(r) >= Len(r) /\ Len(Append(r, w)) >= Len(r)
      OBVIOUS
    <3>2. dev.rxq \in Seq(Nat) /\ Head(dev.line) \in Nat
      BY <2>1 DEF Shape
    <3>3. q = dev.rxq \/ q = Append(dev.rxq, Head(dev.line))
      BY <2>3
    <3> QED BY <3>1, <3>2, <3>3
  <2>5. "rxq" \in DOMAIN dev /\ {"line", "txq", "rx_th", "rx_ie"} \subseteq DOMAIN dev
    BY DEF Shape, SerialReset
  <2> HIDE DEF next
  <2> QED BY <2>2, <2>3, <2>4, <2>5
<1> QED BY <1>1, <1>2

-----------------------------------------------------------------------------
(* Every step keeps the invariant.                                         *)

\* Steps of main: they change the gate's configuration and the queues' ends
\* that the argument does not look at, except for the threshold.
LEMMA MainStep == ASSUME IInv, Main PROVE IInv'
<1> USE DEF IInv, At
<1>1. CASE InitDevice
  BY <1>1 DEF InitDevice, uv_uart_init, uv_spi_init, SerialReset, Shape, SetUp, Gate, Claimed, Raised
<1>2. CASE EnableGlb
  BY <1>2 DEF EnableGlb, Shape, SetUp, Gate, Claimed, Raised
<1>3. CASE EnableIrq
  BY <1>3 DEF EnableIrq, Shape, SetUp, Gate, Claimed, Raised
<1>4. CASE ConfigExtIrq
  <2>1. /\ DOMAIN slc' = DOMAIN slc /\ slc'.pr \in [Irqs -> Nat]
        /\ slc'.ip = slc.ip /\ slc'.lock = slc.lock /\ slc'.sel = slc.sel
        /\ slc'.ext_irq = slc.ext_irq /\ pc' # "rx_ie"
    <3> USE DEF Shape, SlcReset
    <3>1. CASE At("pr", "tg") /\ slc' = [slc EXCEPT !.pr[IrqOf(app)] = 7]
      BY <3>1
    <3>0. CASE At("tg", "th") /\ UNCHANGED slc
      BY <3>0
    <3>2. CASE At("th", "ie") /\ slc' = [slc EXCEPT !.th = 0]
      BY <3>2
    <3>3. CASE At("ie", "rx_th") /\ slc' = SetExtIe(slc, IrqOf(app))
      BY <3>3 DEF SetExtIe
    <3> QED BY <1>4, <3>0, <3>1, <3>2, <3>3 DEF ConfigExtIrq
  <2> QED BY <1>4, <2>1 DEF ConfigExtIrq, Shape, SetUp, Gate, Claimed, Raised
<1>5. CASE SetRxIrq
  BY <1>5, ThresholdKept DEF SetRxIrq, SerialReset, Shape, SetUp, Gate, Claimed, Raised
<1>6. CASE Poll
  BY <1>6 DEF Poll, Shape, SetUp, Gate, Claimed, Raised
<1>7. CASE Put
  BY <1>7 DEF Put, PutTx, SerialReset, Shape, SetUp, Gate, Claimed, Raised
<1>8. CASE Check \/ Exit
  BY <1>8 DEF Check, Exit, Shape, SetUp, Gate, Claimed, Raised
<1>9. CASE TimerSetup
  <2>1. /\ DOMAIN slc' = DOMAIN slc /\ slc'.pr = slc.pr
        /\ slc'.ip = slc.ip /\ slc'.lock = slc.lock /\ slc'.sel = slc.sel
        /\ slc'.ext_irq = slc.ext_irq /\ pc' # "rx_ie"
    BY <1>9 DEF TimerSetup, Shape, SlcReset
  <2> QED BY <1>9, <2>1 DEF TimerSetup, Shape, SetUp, Gate, Claimed, Raised
<1>10. CASE Round
  BY <1>10 DEF Round, Shape, SetUp, Gate, Claimed, Raised
<1>11. CASE GetVal
  BY <1>11 DEF GetVal, Shape, SetUp, Gate, Claimed, Raised
<1> QED BY <1>1, <1>2, <1>3, <1>4, <1>5, <1>6, <1>7, <1>8, <1>9, <1>10, <1>11 DEF Main

\* Steps of the trap: the claim takes the interrupt over from the gate, the
\* queue shrinks only while the gate is locked, and the completion withdraws
\* the request of the very interrupt it unlocks.
LEMMA TrapStep == ASSUME IInv, TakeIrq \/ Handler PROVE IInv'
<1> USE DEF IInv
<1>1. CASE TakeIrq
  <2>1. PICK c \in Pending : /\ cpu' = [cpu EXCEPT !.mie = FALSE, !.cause = c]
                             /\ slc' = IF c = "tmr" THEN TimerTaken(slc) ELSE slc
    BY <1>1 DEF TakeIrq
  <2>2. /\ DOMAIN slc' = DOMAIN slc /\ slc'.pr = slc.pr
        /\ slc'.ip = slc.ip /\ slc'.lock = slc.lock /\ slc'.sel = slc.sel
        /\ slc'.ext_irq = slc.ext_irq
    BY <2>1 DEF TimerTaken, Shape, SlcReset
  <2>3. DOMAIN cpu' = DOMAIN cpu /\ (cpu'.cause = "ext" => slc.ext_irq)
    BY <2>1 DEF Pending, Shape
  <2> QED BY <1>1, <2>2, <2>3 DEF TakeIrq, Shape, SetUp, Gate, Claimed, Raised
<1>2. CASE HandleTrap
  <2>1. CASE cpu.cause = "ext"
    <3>1. slc.ext_irq /\ slc.sel = IrqOf(app) /\ IrqOf(app) \in slc.lock /\ ~ Claimed
      BY <1>2, <2>1 DEF HandleTrap, Gate, Claimed
    <3>2. dev.rx_th = RxTh /\ Len(dev.rxq) >= RxTh
      BY <3>1 DEF Gate, Raised
    <3>3. /\ DOMAIN slc' = DOMAIN slc /\ slc'.pr = slc.pr /\ slc'.ip = {}
          /\ slc'.lock = slc.lock /\ slc'.sel = slc.sel
      BY <1>2, <2>1, <3>1 DEF HandleTrap, ClaimRead, SlcReset, Shape, Gate
    <3>4. DOMAIN loc' = DOMAIN loc /\ loc'.id = IrqOf(app) /\ hpc' = "ip"
      BY <1>2, <2>1, <3>1 DEF HandleTrap, Shape
    <3> QED BY <1>2, <2>1, <3>1, <3>2, <3>3, <3>4
            DEF HandleTrap, Shape, SetUp, Gate, Claimed, Raised
  <2>2. CASE cpu.cause # "ext"
    BY <1>2, <2>2 DEF HandleTrap, Shape, SetUp, Gate, Claimed, Raised
  <2> QED BY <2>1, <2>2
<1>3. CASE ReadIp
  BY <1>3 DEF ReadIp, RxIp, Shape, SetUp, Gate, Claimed, Raised
<1>4. CASE ReadLen
  BY <1>4 DEF ReadLen, Shape, SetUp, Gate, Claimed, Raised
<1>5. CASE Recv
  <2>1. /\ DOMAIN dev' = DOMAIN dev /\ dev'.txq = dev.txq /\ dev'.line = dev.line
        /\ dev'.rx_ie = dev.rx_ie /\ dev'.rx_th = dev.rx_th /\ dev'.rxq \in Seq(Nat)
    BY <1>5 DEF Recv, TakeRx, Shape, SerialReset
  <2>2. "sent" \in DOMAIN mem' /\ mem'.sent = mem.sent
    BY <1>5 DEF Recv, Shape
  <2>3. DOMAIN loc' = DOMAIN loc /\ loc'.id = loc.id
    BY <1>5 DEF Recv, Shape
  <2> QED BY <1>5, <2>1, <2>2, <2>3 DEF Recv, Shape, SetUp, Gate, Claimed, Raised
<1>6. CASE Complete
  <2>1. hpc = "recv" /\ loc.id = IrqOf(app) /\ slc.sel = IrqOf(app) /\ slc.ip = {}
    BY <1>6 DEF Complete, Gate, Claimed
  <2>2. DOMAIN slc' = DOMAIN slc /\ slc'.pr = slc.pr /\ slc'.ip = slc.ip /\ ~ slc'.ext_irq
    BY <1>6, <2>1 DEF Complete, ClaimWrite, Shape, SlcReset
  <2>3. "sent" \in DOMAIN mem' /\ mem'.sent = mem.sent /\ DOMAIN loc' = DOMAIN loc
    BY <1>6 DEF Complete, Shape
  <2> QED BY <1>6, <2>1, <2>2, <2>3 DEF Complete, Shape, SetUp, Gate, Claimed, Raised
<1>7. CASE Mret
  BY <1>7 DEF Mret, Shape, SetUp, Gate, Claimed, Raised
<1> QED BY <1>1, <1>2, <1>3, <1>4, <1>5, <1>6, <1>7 DEF Handler

\* Steps of the hardware: an unlocked gate lets an interrupt in only when the
\* queue has its words, and no word leaves the queue.
LEMMA HardwareStep ==
    ASSUME IInv, GateTrigger \/ GateSelect \/ LineStart \/ LineArrive \/ Tick
    PROVE  IInv'
<1> USE DEF IInv
<1>1. CASE GateTrigger
  BY <1>1, IrqKnown
     DEF GateTrigger, Triggers, Trigger, Irq, RxIp, SlcReset, Shape, SetUp, Gate, Claimed, Raised
<1>2. CASE GateSelect
  <2>1. slc.ip = {IrqOf(app)} /\ slc'.sel = IrqOf(app) /\ slc'.ext_irq
    BY <1>2, SelectsPending DEF GateSelect, Select, Shape, SlcReset, Gate
  <2>2. DOMAIN slc' = DOMAIN slc /\ slc'.pr = slc.pr /\ slc'.ip = slc.ip /\ slc'.lock = slc.lock
    BY <1>2 DEF GateSelect, Select, Shape, SlcReset
  <2> QED BY <1>2, <2>1, <2>2 DEF GateSelect, Shape, SetUp, Gate, Claimed, Raised
<1>3. CASE LineStart \/ LineArrive
  <2>1. UNCHANGED <<app, pc, cpu, hpc, slc, mem, loc>>
    BY <1>3 DEF LineStart, LineArrive
  <2>2. ASSUME Len(dev.rxq) >= RxTh PROVE Len(dev'.rxq) >= RxTh
    <3>1. Len(dev'.rxq) >= Len(dev.rxq) /\ dev.rxq \in Seq(Nat) /\ dev'.rxq \in Seq(Nat)
      BY <1>3, LineKeeps DEF Shape
    <3>2. \A m, n, t \in Nat : m >= n /\ n >= t => m >= t
      OBVIOUS
    <3> QED BY <2>2, <3>1, <3>2, ThresholdKept
  <2> QED BY <1>3, <2>1, <2>2, LineKeeps DEF Shape, SetUp, Gate, Claimed, Raised
<1>4. CASE Tick
  <2>1. /\ DOMAIN slc' = DOMAIN slc /\ slc'.pr = slc.pr
        /\ slc'.ip = slc.ip /\ slc'.lock = slc.lock /\ slc'.sel = slc.sel
        /\ slc'.ext_irq = slc.ext_irq
    BY <1>4 DEF Tick, TimerClock, Shape, SlcReset
  <2>2. DOMAIN loc' = DOMAIN loc /\ loc'.id = loc.id
    BY <1>4 DEF Tick, Shape
  <2> QED BY <1>4, <2>1, <2>2 DEF Tick, Shape, SetUp, Gate, Claimed, Raised
<1> QED BY <1>1, <1>2, <1>3, <1>4

\* The invariant holds in every reachable state.
THEOREM Invariance == Spec => []IInv
<1>1. Init => IInv
  BY FirmwareAssumption DEF Init, IInv, Shape, SetUp, Gate, Claimed, Raised, SlcReset, SerialReset
<1>2. IInv /\ [Next]_vars => IInv'
  <2>1. ASSUME IInv, Next PROVE IInv'
    BY <2>1, MainStep, TrapStep, HardwareStep DEF Next
  <2>2. ASSUME IInv, UNCHANGED vars PROVE IInv'
    BY <2>2 DEF vars, IInv, Shape, SetUp, Gate, Claimed, Raised
  <2> QED BY <2>1, <2>2
<1> QED BY <1>1, <1>2, PTL DEF Spec

\* handle_ext_irq never sees an interrupt its queue does not justify, whatever
\* the depth, the threshold and the speeds of core, line and gate.
THEOREM NoSpuriousHolds == Spec => []NoSpurious
<1>1. IInv => NoSpurious
  BY DEF IInv, Gate, Claimed, Raised, NoSpurious
<1> QED BY <1>1, Invariance, PTL

-----------------------------------------------------------------------------
(* The machine timer.                                                      *)

\* The halves of a value make it up again.
LEMMA Halves ==
    ASSUME NEW v \in Nat
    PROVE  /\ High(v) \in Nat /\ Low(v) \in 0 .. HalfRange - 1
           /\ SetHigh(v, High(v)) = v /\ SetHigh(Low(v), High(v)) = v
<1>1. \A h, x \in Nat : h > 0 => /\ x \div h \in Nat /\ x % h \in 0 .. h - 1
                                 /\ ((x \div h) * h) + (x % h) = x
                                 /\ (x % h) % h = x % h
  OBVIOUS
<1> QED BY <1>1, SlcAssumption DEF High, Low, SetHigh

\* The compare value is LoopCyc after both of its halves are written, and
\* out of reach before.
LEMMA CompareWritten ==
    LET half == SetLow(TimerRange - 1, Low(LoopCyc))
    IN  /\ TimerRange \in Nat /\ TimerRange > 3
        /\ half \in Nat /\ half > 1
        /\ SetHigh(half, High(LoopCyc)) = LoopCyc
<1> DEFINE h == HalfRange
           t == TimerRange - 1
           x == Low(LoopCyc)
<1>1. h \in Nat /\ h > 1 /\ LoopCyc \in Nat
  BY SlcAssumption, FirmwareAssumption DEF TimerRange
<1>2. /\ h * h \in Nat /\ h * h > 3 /\ h * h - 1 >= h
  <2>1. \A n \in Nat : n > 1 => n * n \in Nat /\ n * n > 3 /\ n * n - 1 >= n
    OBVIOUS
  <2> QED BY <1>1, <2>1
<1>3. TimerRange \in Nat /\ TimerRange > 3 /\ t \in Nat /\ t >= h
  BY <1>1, <1>2 DEF TimerRange
<1>4. High(t) \in Nat /\ High(t) >= 1
  <2>1. \A n, v \in Nat : n > 1 /\ v >= n => v \div n \in Nat /\ v \div n >= 1
    OBVIOUS
  <2> QED BY <1>1, <1>3, <2>1 DEF High
<1>5. x \in 0 .. h - 1
  BY <1>1, Halves
<1>6. SetLow(t, x) \in Nat /\ SetLow(t, x) > 1 /\ Low(SetLow(t, x)) = x
  <2>1. \A n, k \in Nat : \A y \in 0 .. n - 1 :
            n > 1 /\ k >= 1 => k * n + y \in Nat /\ k * n + y > 1 /\ (k * n + y) % n = y
    OBVIOUS
  <2> QED BY <1>1, <1>4, <1>5, <2>1 DEF SetLow, Low
<1>7. SetHigh(SetLow(t, x), High(LoopCyc)) = SetHigh(LoopCyc, High(LoopCyc))
  BY <1>6 DEF SetHigh
<1> QED BY <1>1, <1>3, <1>6, <1>7, Halves

\* The timer by the steps of TestTimer's main: it does not count before its
\* compare value is written, never gets past it, and does not count any more
\* while it is read.
BeforeCompare == {"init", "mtie", "cfg", "cmp", "cmph"}
Timer ==
    app = "timer" =>
        /\ pc \in BeforeCompare \union {"start", "loop", "spin", "high", "low", "again", "exit", "halt"}
        /\ slc.val \in 0 .. LoopCyc - 1
        /\ pc \in BeforeCompare \ {"cmph"} => slc.cmp = TimerRange - 1
        /\ pc = "cmph" => slc.cmp = SetLow(TimerRange - 1, Low(LoopCyc))
        /\ pc \in BeforeCompare => slc.val = 0
        /\ pc \notin BeforeCompare => slc.cmp = LoopCyc /\ slc.auto_clr
        /\ pc = "cmp" \/ pc = "cmph" => slc.auto_clr
        /\ pc \notin {"loop", "spin"} => ~ slc.cnt

\* The high half read first is that of a value the timer had in the call; it
\* has it still or was cleared.
Snapshot(v) == v \in Nat /\ loc.high = High(v) /\ slc.val \in {v, 0}

\* The call of uv_tmr_get_val, step by step.
Reading ==
    app = "timer" =>
        /\ pc \in {"high", "low", "again"} => slc.val \in loc.seen
        /\ pc = "low" => \E v \in loc.seen : Snapshot(v)
        /\ pc = "again" => \E v \in loc.seen :
               Snapshot(v) /\ (loc.low = Low(v) \/ (loc.low = 0 /\ slc.val = 0))
        /\ pc \in {"exit", "halt"} => SetHigh(loc.low, loc.high) \in loc.seen

\* The steps that leave the controller and the locals alone.
Elsewhere ==
    \/ InitDevice \/ EnableGlb \/ EnableIrq \/ SetRxIrq \/ Poll \/ Put \/ Check \/ Round \/ Exit
    \/ ReadIp \/ Mret \/ LineStart \/ LineArrive

\* They do.
LEMMA ElsewhereKeeps == ASSUME Elsewhere PROVE UNCHANGED <<app, slc, loc>>
<1>1. CASE InitDevice BY <1>1 DEF InitDevice
<1>2. CASE EnableGlb BY <1>2 DEF EnableGlb
<1>3. CASE EnableIrq BY <1>3 DEF EnableIrq
<1>4. CASE SetRxIrq BY <1>4 DEF SetRxIrq
<1>5. CASE Poll BY <1>5 DEF Poll
<1>6. CASE Put BY <1>6 DEF Put
<1>7. CASE Check BY <1>7 DEF Check
<1>8. CASE Round BY <1>8 DEF Round
<1>9. CASE Exit BY <1>9 DEF Exit
<1>10. CASE ReadIp BY <1>10 DEF ReadIp
<1>11. CASE Mret BY <1>11 DEF Mret
<1>12. CASE LineStart BY <1>12 DEF LineStart
<1>13. CASE LineArrive BY <1>13 DEF LineArrive
<1> QED BY <1>1, <1>2, <1>3, <1>4, <1>5, <1>6, <1>7, <1>8, <1>9, <1>10, <1>11, <1>12, <1>13 DEF Elsewhere

\* Every step is one of them or one of nine others.
LEMMA OneOf ==
    ASSUME Next
    PROVE  \/ Elsewhere \/ TimerSetup \/ Tick \/ GetVal \/ ConfigExtIrq \/ TakeIrq \/ HandleTrap
           \/ ReadLen \/ Recv \/ Complete \/ GateTrigger \/ GateSelect
BY DEF Next, Main, Handler, Elsewhere

\* The program in the flash stays the same.
LEMMA AppKept == ASSUME Next PROVE app' = app
<1>1. CASE Elsewhere BY <1>1, ElsewhereKeeps
<1>2. CASE TimerSetup BY <1>2 DEF TimerSetup
<1>3. CASE Tick BY <1>3 DEF Tick
<1>4. CASE GetVal BY <1>4 DEF GetVal
<1>5. CASE ConfigExtIrq BY <1>5 DEF ConfigExtIrq
<1>6. CASE TakeIrq BY <1>6 DEF TakeIrq
<1>7. CASE HandleTrap BY <1>7 DEF HandleTrap
<1>8. CASE ReadLen BY <1>8 DEF ReadLen
<1>9. CASE Recv BY <1>9 DEF Recv
<1>10. CASE Complete BY <1>10 DEF Complete
<1>11. CASE GateTrigger BY <1>11 DEF GateTrigger
<1>12. CASE GateSelect BY <1>12 DEF GateSelect
<1> QED BY OneOf, <1>1, <1>2, <1>3, <1>4, <1>5, <1>6, <1>7, <1>8, <1>9, <1>10, <1>11, <1>12

\* All but main's set-up and the clock leave the timer's registers alone.
LEMMA TimerKept ==
    ASSUME Shape, Next, ~ TimerSetup, ~ Tick
    PROVE  /\ slc'.val = slc.val /\ slc'.cmp = slc.cmp
           /\ slc'.cnt = slc.cnt /\ slc'.auto_clr = slc.auto_clr
           /\ slc'.tmr_irq => slc.tmr_irq
<1>1. CASE ConfigExtIrq
  BY <1>1 DEF ConfigExtIrq, SetExtIe, Shape, SlcReset
<1>2. CASE TakeIrq
  <2>1. PICK c \in Pending : slc' = IF c = "tmr" THEN TimerTaken(slc) ELSE slc
    BY <1>2 DEF TakeIrq
  <2>2. c = "tmr" => slc.tmr_irq
    BY <2>1 DEF Pending
  <2> QED BY <2>1, <2>2 DEF TimerTaken, Shape, SlcReset
<1>3. CASE HandleTrap
  BY <1>3 DEF HandleTrap, ClaimRead, Shape, SlcReset
<1>4. CASE Complete
  BY <1>4 DEF Complete, ClaimWrite, Shape, SlcReset
<1>5. CASE GateTrigger
  BY <1>5 DEF GateTrigger, Trigger, Shape, SlcReset
<1>6. CASE GateSelect
  BY <1>6 DEF GateSelect, Select, Shape, SlcReset
<1>7. CASE GetVal BY <1>7 DEF GetVal
<1>8. CASE ReadLen BY <1>8 DEF ReadLen
<1>9. CASE Recv BY <1>9 DEF Recv
<1> QED BY OneOf, ElsewhereKeeps, <1>1, <1>2, <1>3, <1>4, <1>5, <1>6, <1>7, <1>8, <1>9

\* The locals of uv_tmr_get_val change only in it.
LEMMA LocalsKept ==
    ASSUME Shape, Next, ~ TimerSetup, ~ Tick, ~ GetVal
    PROVE  loc'.high = loc.high /\ loc'.low = loc.low /\ loc'.seen = loc.seen
<1>1. CASE HandleTrap
  BY <1>1 DEF HandleTrap, Shape
<1>2. CASE ReadLen
  BY <1>2 DEF ReadLen, Shape
<1>3. CASE Recv
  BY <1>3 DEF Recv, Shape
<1>4. CASE Complete
  BY <1>4 DEF Complete, Shape
<1>5. CASE ConfigExtIrq BY <1>5 DEF ConfigExtIrq
<1>6. CASE TakeIrq BY <1>6 DEF TakeIrq
<1>7. CASE GateTrigger BY <1>7 DEF GateTrigger
<1>8. CASE GateSelect BY <1>8 DEF GateSelect
<1> QED BY OneOf, ElsewhereKeeps, <1>1, <1>2, <1>3, <1>4, <1>5, <1>6, <1>7, <1>8

\* Where a step of the timer program leads main, other than in set-up and in
\* uv_tmr_get_val.
LEMMA TimerFlow ==
    ASSUME Timer, Next, ~ TimerSetup, ~ GetVal, app = "timer"
    PROVE  \/ pc' = pc
           \/ pc = "init" /\ pc' = "mtie"
           \/ pc = "mtie" /\ pc' = "cfg"
           \/ pc \in {"loop", "spin"} /\ pc' \in {"loop", "spin"}
           \/ pc = "exit" /\ pc' = "halt"
<1> USE DEF Timer, BeforeCompare, At
<1>1. CASE InitDevice BY <1>1 DEF InitDevice, Serials
<1>2. CASE EnableGlb BY <1>2 DEF EnableGlb, Serials
<1>3. CASE EnableIrq BY <1>3 DEF EnableIrq
<1>4. CASE ConfigExtIrq BY <1>4 DEF ConfigExtIrq
<1>5. CASE SetRxIrq BY <1>5 DEF SetRxIrq
<1>6. CASE Poll BY <1>6 DEF Poll
<1>7. CASE Put BY <1>7 DEF Put
<1>8. CASE Check BY <1>8 DEF Check
<1>9. CASE Round BY <1>9 DEF Round
<1>10. CASE Exit BY <1>10 DEF Exit
<1>11. CASE TakeIrq BY <1>11 DEF TakeIrq
<1>12. CASE HandleTrap BY <1>12 DEF HandleTrap
<1>13. CASE ReadIp BY <1>13 DEF ReadIp
<1>14. CASE ReadLen BY <1>14 DEF ReadLen
<1>15. CASE Recv BY <1>15 DEF Recv
<1>16. CASE Complete BY <1>16 DEF Complete
<1>17. CASE Mret BY <1>17 DEF Mret
<1>18. CASE GateTrigger BY <1>18 DEF GateTrigger
<1>19. CASE GateSelect BY <1>19 DEF GateSelect
<1>20. CASE LineStart BY <1>20 DEF LineStart
<1>21. CASE LineArrive BY <1>21 DEF LineArrive
<1>22. CASE Tick BY <1>22 DEF Tick
<1> HIDE DEF Timer, BeforeCompare, At
<1> QED BY <1>1, <1>2, <1>3, <1>4, <1>5, <1>6, <1>7, <1>8, <1>9, <1>10, <1>11, <1>12, <1>13, <1>14,
           <1>15, <1>16, <1>17, <1>18, <1>19, <1>20, <1>21, <1>22 DEF Next, Main, Handler

\* In which states the interrupt rises and what the clock does to the value.
LEMMA TimerClocked ==
    ASSUME Shape, Timer, app = "timer"
    PROVE  LET s == TimerClock(slc)
           IN  /\ s.cmp = slc.cmp /\ s.cnt = slc.cnt /\ s.auto_clr = slc.auto_clr
               /\ s.val \in 0 .. LoopCyc - 1
               /\ ~ slc.cnt => s.val \in {slc.val, 0}
               /\ s.tmr_irq /\ ~ slc.tmr_irq => slc.val + 1 = LoopCyc
<1> DEFINE s == TimerClock(slc)
<1>1. /\ s.cmp = slc.cmp /\ s.cnt = slc.cnt /\ s.auto_clr = slc.auto_clr
      /\ s.tmr_irq = (slc.tmr_irq \/ CmpGeq(slc))
      /\ s.val = IF CmpGeq(slc) /\ slc.auto_clr THEN 0
                 ELSE IF slc.cnt THEN (slc.val + 1) % TimerRange ELSE slc.val
  BY DEF TimerClock, Shape, SlcReset
<1>2. /\ LoopCyc \in Nat /\ LoopCyc > 0 /\ slc.val \in 0 .. LoopCyc - 1
      /\ (slc.val + 1) % TimerRange = slc.val + 1
  <2>1. TimerRange \in Nat /\ LoopCyc \in 1 .. TimerRange - 2 /\ slc.val \in 0 .. LoopCyc - 1
    BY CompareWritten, FirmwareAssumption DEF Timer
  <2>2. \A x, m \in Nat : x < m => x % m = x
    OBVIOUS
  <2> QED BY <2>1, <2>2
<1>3. CASE pc \in BeforeCompare
  <2>1. slc.val = 0 /\ ~ slc.cnt /\ slc.cmp \in Nat /\ slc.cmp > 1
    BY <1>3, CompareWritten DEF Timer, BeforeCompare
  <2>2. ~ CmpGeq(slc)
    BY <1>2, <2>1 DEF CmpGeq
  <2> QED BY <1>1, <1>2, <2>1, <2>2
<1>4. CASE pc \notin BeforeCompare
  <2>1. slc.cmp = LoopCyc /\ slc.auto_clr
    BY <1>4 DEF Timer
  <2>2. CmpGeq(slc) <=> slc.val + 1 = LoopCyc
    BY <1>2, <2>1 DEF CmpGeq
  <2>3. CASE CmpGeq(slc)
    BY <1>1, <1>2, <2>1, <2>2, <2>3
  <2>4. CASE ~ CmpGeq(slc)
    <3>1. s.val \in {slc.val, slc.val + 1} /\ (~ slc.cnt => s.val = slc.val)
      BY <1>1, <1>2, <2>4
    <3>2. slc.val + 1 # LoopCyc
      BY <2>2, <2>4
    <3> HIDE DEF s
    <3>3. s.val \in 0 .. LoopCyc - 1
      BY <1>2, <3>1, <3>2
    <3> QED BY <1>1, <2>4, <3>1, <3>3 DEF s
  <2> QED BY <2>3, <2>4
<1> QED BY <1>3, <1>4

\* Every step keeps the timer below its compare value.
LEMMA TimerStep == ASSUME Shape, Timer, Next PROVE Timer'
<1> SUFFICES ASSUME app' = "timer" PROVE Timer'
  BY DEF Timer
<1>1. app = "timer"
  BY AppKept
<1>2. CASE TimerSetup
  <2> USE DEF Shape, SlcReset, At, BeforeCompare
  <2>1. CASE At("cfg", "cmp") /\ slc' = [slc EXCEPT !.auto_clr = TRUE]
    BY <1>1, <2>1 DEF Timer
  <2>2. CASE At("cmp", "cmph") /\ slc' = [slc EXCEPT !.cmp = SetLow(@, Low(LoopCyc))]
    BY <1>1, <2>2 DEF Timer
  <2>3. CASE At("cmph", "start") /\ slc' = [slc EXCEPT !.cmp = SetHigh(@, High(LoopCyc))]
    BY <1>1, <2>3, CompareWritten DEF Timer
  <2>4. CASE At("start", "loop") /\ slc' = [slc EXCEPT !.cnt = TRUE]
    BY <1>1, <2>4 DEF Timer
  <2>5. CASE At("loop", "high") /\ slc' = [slc EXCEPT !.cnt = FALSE]
    BY <1>1, <2>5 DEF Timer
  <2> QED BY <1>2, <2>1, <2>2, <2>3, <2>4, <2>5 DEF TimerSetup
<1>3. CASE GetVal
  BY <1>1, <1>3 DEF GetVal, At, Timer, BeforeCompare
<1>4. CASE Tick
  BY <1>1, <1>4, TimerClocked DEF Tick, Timer, BeforeCompare
<1>5. CASE ~ TimerSetup /\ ~ GetVal /\ ~ Tick
  <2>1. /\ slc'.val = slc.val /\ slc'.cmp = slc.cmp
        /\ slc'.cnt = slc.cnt /\ slc'.auto_clr = slc.auto_clr
    BY <1>5, TimerKept
  <2>2. \/ pc' = pc
        \/ pc = "init" /\ pc' = "mtie"
        \/ pc = "mtie" /\ pc' = "cfg"
        \/ pc \in {"loop", "spin"} /\ pc' \in {"loop", "spin"}
        \/ pc = "exit" /\ pc' = "halt"
    BY <1>1, <1>5, TimerFlow
  <2> QED BY <1>1, <2>1, <2>2 DEF Timer, BeforeCompare
<1> QED BY <1>2, <1>3, <1>4, <1>5

\* Every step of uv_tmr_get_val, and every clock in it, keeps what was read
\* in agreement with a value the timer had.
LEMMA ReadingStep == ASSUME Shape, Timer, Reading, Next PROVE Reading'
<1> SUFFICES ASSUME app' = "timer" PROVE Reading'
  BY DEF Reading
<1>1. app = "timer" /\ slc.val \in Nat
  <2>1. app = "timer"
    BY AppKept
  <2> QED BY <2>1 DEF Timer
<1>2. CASE TimerSetup
  <2>1. loc'.seen = {slc'.val}
    BY <1>2 DEF TimerSetup, Shape
  <2>2. pc' \in {"cmp", "cmph", "start", "loop", "high"}
    BY <1>2 DEF TimerSetup, At
  <2> QED BY <2>1, <2>2 DEF Reading
<1>3. CASE GetVal
  <2>1. slc' = slc /\ loc'.seen = loc.seen
    BY <1>3 DEF GetVal, Shape
  <2>2. CASE At("high", "low") /\ loc' = [loc EXCEPT !.high = High(slc.val)]
    BY <1>1, <2>1, <2>2 DEF At, Reading, Snapshot, Shape
  <2>3. CASE At("low", "again") /\ loc' = [loc EXCEPT !.low = Low(slc.val)]
    <3>1. PICK v \in loc.seen : Snapshot(v)
      BY <1>1, <2>3 DEF At, Reading
    <3>2. loc'.high = loc.high /\ loc'.low = Low(slc.val) /\ Low(0) = 0
      <4>1. \A h \in Nat : h > 0 => 0 % h = 0
        OBVIOUS
      <4> QED BY <2>3, <4>1, SlcAssumption DEF Shape, Low
    <3> QED BY <1>1, <2>1, <2>3, <3>1, <3>2 DEF At, Reading, Snapshot
  <2>4. CASE At("again", IF loc.high = High(slc.val) THEN "exit" ELSE "high") /\ loc' = loc
    <3>1. PICK v \in loc.seen : Snapshot(v) /\ (loc.low = Low(v) \/ (loc.low = 0 /\ slc.val = 0))
      BY <1>1, <2>4 DEF At, Reading
    <3>2. loc.low = Low(v) => SetHigh(loc.low, loc.high) = v
      BY <3>1, Halves DEF Snapshot
    <3>3. loc.low = 0 /\ slc.val = 0 /\ loc.high = High(slc.val) => SetHigh(loc.low, loc.high) = slc.val
      BY <1>1, Halves
    <3>4. slc.val \in loc.seen
      BY <1>1, <2>4 DEF At, Reading
    <3> QED BY <1>1, <2>1, <2>4, <3>1, <3>2, <3>3, <3>4 DEF At, Reading
  <2> QED BY <1>3, <2>2, <2>3, <2>4 DEF GetVal
<1>4. CASE Tick
  <2>1. pc' = pc /\ slc' = TimerClock(slc) /\ loc'.high = loc.high /\ loc'.low = loc.low
    BY <1>4 DEF Tick, Shape
  <2>2. loc'.seen = IF pc \in {"high", "low", "again"} THEN loc.seen \union {slc'.val} ELSE loc.seen
    BY <1>4 DEF Tick, Shape
  <2>3. pc \in {"high", "low", "again"} => slc'.val \in {slc.val, 0}
    BY <1>1, <2>1, TimerClocked DEF Timer
  <2>4. CASE pc = "low"
    BY <1>1, <2>1, <2>2, <2>3, <2>4 DEF Reading, Snapshot
  <2>5. CASE pc = "again"
    BY <1>1, <2>1, <2>2, <2>3, <2>5 DEF Reading, Snapshot
  <2>6. CASE pc \notin {"low", "again"}
    BY <1>1, <2>1, <2>2, <2>6 DEF Reading
  <2> QED BY <2>4, <2>5, <2>6
<1>5. CASE ~ TimerSetup /\ ~ GetVal /\ ~ Tick
  <2>1. slc'.val = slc.val /\ loc'.high = loc.high /\ loc'.low = loc.low /\ loc'.seen = loc.seen
    BY <1>5, TimerKept, LocalsKept
  <2>2. \/ pc' = pc
        \/ pc = "init" /\ pc' = "mtie"
        \/ pc = "mtie" /\ pc' = "cfg"
        \/ pc \in {"loop", "spin"} /\ pc' \in {"loop", "spin"}
        \/ pc = "exit" /\ pc' = "halt"
    BY <1>1, <1>5, TimerFlow
  <2> QED BY <1>1, <2>1, <2>2 DEF Reading, Snapshot
<1> QED BY <1>2, <1>3, <1>4, <1>5

\* The timer is set up, runs and is read as described in every reachable
\* state.
THEOREM TimerInvariance == Spec => [](Timer /\ Reading)
<1>1. Init => Timer /\ Reading
  BY FirmwareAssumption, CompareWritten
     DEF Init, Timer, Reading, BeforeCompare, SlcReset
<1>2. IInv /\ Timer /\ Reading /\ [Next]_vars => (Timer /\ Reading)'
  <2>1. ASSUME IInv, Timer, Reading, Next PROVE (Timer /\ Reading)'
    BY <2>1, TimerStep, ReadingStep DEF IInv
  <2>2. ASSUME Timer, Reading, UNCHANGED vars PROVE (Timer /\ Reading)'
    BY <2>2 DEF vars, Timer, Reading, Snapshot
  <2> QED BY <2>1, <2>2
<1> QED BY <1>1, <1>2, Invariance, PTL DEF Spec

\* uv_tmr_get_val returns a value the timer had during the call, for every
\* width of the halves and every period.
THEOREM ReadWholeHolds == Spec => []ReadWhole
<1>1. Reading => ReadWhole
  BY DEF Reading, ReadWhole
<1> QED BY <1>1, TimerInvariance, PTL

\* The timer interrupt rises only when the value is one below LoopCyc.
THEOREM OnPeriodHolds == Spec => OnPeriod
<1>1. IInv /\ Timer /\ [Next]_vars => [~ slc.tmr_irq /\ slc'.tmr_irq => slc.val + 1 = LoopCyc]_slc
  <2> SUFFICES ASSUME IInv, Timer, Next, ~ slc.tmr_irq, slc'.tmr_irq PROVE slc.val + 1 = LoopCyc
    BY DEF vars
  <2>1. CASE TimerSetup
    BY <2>1 DEF TimerSetup, IInv, Shape, SlcReset
  <2>2. CASE Tick
    BY <2>2, TimerClocked DEF Tick, IInv
  <2> QED BY <2>1, <2>2, TimerKept DEF IInv
<1> QED BY <1>1, Invariance, TimerInvariance, PTL DEF Spec, OnPeriod

-----------------------------------------------------------------------------
(* The clock divider.                                                      *)

\* uv_uart_init is called before main goes on.
Divider == app = "uart" /\ pc # "init" => dev.clk_div = clk_div(115200)

\* No later access writes the divider.
LEMMA DividerStep == ASSUME Shape, Divider, Next PROVE Divider'
<1>1. CASE InitDevice
  BY <1>1 DEF InitDevice, At, uv_uart_init, Divider, Shape, SerialReset
<1>2. CASE SetRxIrq
  BY <1>2 DEF SetRxIrq, At, Divider, Shape, SerialReset
<1>3. CASE Put
  BY <1>3 DEF Put, PutTx, At, Divider, Shape, SerialReset
<1>4. CASE Recv
  BY <1>4 DEF Recv, TakeRx, Divider, Shape, SerialReset
<1>5. CASE LineStart
  BY <1>5 DEF LineStart, Start, Divider, Shape, SerialReset
<1>6. CASE LineArrive
  BY <1>6 DEF LineArrive, Arrive, CanStart, Start, Divider, Shape, SerialReset
<1>7. CASE EnableGlb BY <1>7 DEF EnableGlb, At, Divider, Serials
<1>8. CASE EnableIrq BY <1>8 DEF EnableIrq, At, Divider
<1>9. CASE ConfigExtIrq BY <1>9 DEF ConfigExtIrq, At, Divider
<1>10. CASE Poll BY <1>10 DEF Poll, At, Divider
<1>11. CASE Check BY <1>11 DEF Check, At, Divider
<1>12. CASE TimerSetup BY <1>12 DEF TimerSetup, At, Divider
<1>13. CASE Round BY <1>13 DEF Round, At, Divider
<1>14. CASE GetVal BY <1>14 DEF GetVal, At, Divider
<1>15. CASE Exit BY <1>15 DEF Exit, At, Divider
<1>16. CASE TakeIrq BY <1>16 DEF TakeIrq, Divider
<1>17. CASE HandleTrap BY <1>17 DEF HandleTrap, Divider
<1>18. CASE ReadIp BY <1>18 DEF ReadIp, Divider
<1>19. CASE ReadLen BY <1>19 DEF ReadLen, Divider
<1>20. CASE Complete BY <1>20 DEF Complete, Divider
<1>21. CASE Mret BY <1>21 DEF Mret, Divider
<1>22. CASE GateTrigger BY <1>22 DEF GateTrigger, Divider
<1>23. CASE GateSelect BY <1>23 DEF GateSelect, Divider
<1>24. CASE Tick BY <1>24 DEF Tick, Divider
<1> QED BY <1>1, <1>2, <1>3, <1>4, <1>5, <1>6, <1>7, <1>8, <1>9, <1>10, <1>11, <1>12, <1>13, <1>14,
           <1>15, <1>16, <1>17, <1>18, <1>19, <1>20, <1>21, <1>22, <1>23, <1>24 DEF Next, Main, Handler

\* The divider in use is the nearest to the rate, as is every other that fits
\* into its field.
THEOREM DividerNearestHolds == Spec => []DividerNearest
<1>1. Init => Divider
  BY DEF Init, Divider
<1>2. IInv /\ Divider /\ [Next]_vars => Divider'
  <2>1. ASSUME Divider, UNCHANGED vars PROVE Divider'
    BY <2>1 DEF vars, Divider
  <2> QED BY <2>1, DividerStep DEF IInv
<1>3. Divider => DividerNearest
  <2> DEFINE nearest(div, baud) ==
          2 * div * baud \in 2 * MAIN_CLK_FREQ - baud .. 2 * MAIN_CLK_FREQ + baud
  <2>1. \A baud \in BaudRates \ {1200} : nearest(clk_div(baud), baud)
    BY DEF BaudRates, clk_div, MAIN_CLK_FREQ
  <2>2. 115200 \in BaudRates \ {1200}
    BY DEF BaudRates
  <2> QED BY <2>1, <2>2 DEF Divider, DividerNearest
<1> QED BY <1>1, <1>2, <1>3, Invariance, PTL DEF Spec

-----------------------------------------------------------------------------
(* The words.                                                              *)

\* Concatenation is associative on words.
LEMMA Regroup ==
    ASSUME NEW u \in Seq(Nat), NEW v \in Seq(Nat), NEW w \in Seq(Nat)
    PROVE  (u \o v) \o w = u \o (v \o w)
<1> DEFINE a == (u \o v) \o w
           b == u \o (v \o w)
<1>1. u \o v \in Seq(Nat) /\ v \o w \in Seq(Nat) /\ Len(u \o v) = Len(u) + Len(v)
  BY ConcatProperties
<1>2. a \in Seq(Nat) /\ b \in Seq(Nat) /\ Len(a) = Len(b)
  BY <1>1
<1>3. \A i \in 1 .. Len(a) : a[i] = b[i]
  BY <1>1
<1> QED BY <1>2, <1>3, SeqEqual

\* Words move from the head of one queue to the end of the queue before it.
LEMMA MoveHead ==
    ASSUME NEW u \in Seq(Nat), NEW v \in Seq(Nat), v # << >>
    PROVE  u \o v = Append(u, Head(v)) \o Tail(v)
<1> DEFINE h == Head(v)
           t == Tail(v)
<1>1. h \in Nat /\ t \in Seq(Nat) /\ <<h>> \in Seq(Nat) /\ v = <<h>> \o t
  <2>1. h \in Nat /\ t \in Seq(Nat) /\ <<h>> \in Seq(Nat)
    BY HeadTailProperties
  <2>2. v = <<h>> \o t
    <3>1. <<h>> \o t \in Seq(Nat) /\ Len(<<h>> \o t) = Len(v)
      BY <2>1, ConcatProperties, HeadTailProperties
    <3>2. \A i \in 1 .. Len(v) : v[i] = (<<h>> \o t)[i]
      BY <2>1
    <3> QED BY <3>1, <3>2, SeqEqual
  <2> QED BY <2>1, <2>2
<1> HIDE DEF h, t
<1>2. Append(u, h) = u \o <<h>>
  BY <1>1, AppendIsConcat
<1>3. u \o (<<h>> \o t) = (u \o <<h>>) \o t
  <2>1. \A w \in Seq(Nat) : (u \o w) \o t = u \o (w \o t)
    BY <1>1, Regroup
  <2> QED BY <1>1, <2>1
<1>4. u \o v = Append(u, h) \o t
  BY <1>1, <1>2, <1>3
<1> QED BY <1>4 DEF h, t

\* A word put at the end of the last queue is at the end of them all.
LEMMA AppendLast ==
    ASSUME NEW u \in Seq(Nat), NEW v \in Seq(Nat), NEW x \in Nat
    PROVE  u \o Append(v, x) = Append(u \o v, x)
BY AppendIsConcat, ConcatAssociative, ConcatProperties

\* A word that goes from one queue to the next stays in its place.
LEMMA MoveBetween ==
    ASSUME NEW u \in Seq(Nat), NEW v \in Seq(Nat), NEW w \in Seq(Nat), w # << >>
    PROVE  (u \o v) \o w = (u \o Append(v, Head(w))) \o Tail(w)
<1>1. u \o v \in Seq(Nat) /\ Head(w) \in Nat
  BY ConcatProperties, HeadTailProperties
<1>2. (u \o v) \o w = Append(u \o v, Head(w)) \o Tail(w)
  BY <1>1, MoveHead
<1>3. Append(u \o v, Head(w)) = u \o Append(v, Head(w))
  BY <1>1, AppendLast
<1> QED BY <1>2, <1>3

\* A word above all others keeps them ascending at the end.
LEMMA AscendingAppend ==
    ASSUME NEW s \in Seq(Nat), NEW x \in Nat, Ascending(s), \A y \in Range(s) : y < x
    PROVE  Ascending(Append(s, x)) /\ Range(Append(s, x)) = Range(s) \union {x}
<1>1. /\ Append(s, x) \in Seq(Nat) /\ DOMAIN Append(s, x) = 1 .. Len(s) + 1 /\ DOMAIN s = 1 .. Len(s)
      /\ \A i \in 1 .. Len(s) : Append(s, x)[i] = s[i] /\ s[i] < x
      /\ Append(s, x)[Len(s) + 1] = x
  BY AppendProperties, LenProperties DEF Range
<1>2. Ascending(Append(s, x))
  BY <1>1 DEF Ascending
<1>3. Range(Append(s, x)) = Range(s) \union {x}
  BY <1>1 DEF Range
<1> QED BY <1>2, <1>3

\* Words stay ascending, and the same but for it, when one is dropped.
LEMMA AscendingDrop ==
    ASSUME NEW u \in Seq(Nat), NEW x \in Nat, NEW v \in Seq(Nat), Ascending(Append(u, x) \o v)
    PROVE  /\ Ascending(u \o v)
           /\ Range(u \o v) = Range(Append(u, x) \o v) \ {x}
           /\ x \in Range(Append(u, x) \o v)
<1> DEFINE a == Append(u, x) \o v
           b == u \o v
           m == Len(u)
           n == Len(v)
           skip(i) == IF i <= m THEN i ELSE i + 1
<1>1. /\ m \in Nat /\ n \in Nat
      /\ Append(u, x) \in Seq(Nat) /\ Len(Append(u, x)) = m + 1
      /\ \A i \in 1 .. m : Append(u, x)[i] = u[i]
      /\ Append(u, x)[m + 1] = x
  BY AppendProperties, LenProperties
<1>2. /\ b \in Seq(Nat) /\ DOMAIN b = 1 .. m + n
      /\ \A i \in 1 .. m + n : b[i] = IF i <= m THEN u[i] ELSE v[i - m]
  BY <1>1, ConcatProperties, LenProperties
<1>3. /\ a \in Seq(Nat) /\ DOMAIN a = 1 .. m + n + 1 /\ a \in [1 .. m + n + 1 -> Nat]
      /\ \A i \in 1 .. m + n + 1 : a[i] = IF i <= m + 1 THEN Append(u, x)[i] ELSE v[i - (m + 1)]
  <2>1. /\ a \in Seq(Nat) /\ Len(a) = (m + 1) + n
        /\ \A i \in 1 .. (m + 1) + n : a[i] = IF i <= m + 1 THEN Append(u, x)[i] ELSE v[i - (m + 1)]
    BY <1>1, ConcatProperties
  <2>2. (m + 1) + n = m + n + 1
    BY <1>1
  <2> QED BY <2>1, <2>2, LenProperties
<1>4. Ascending(a)
  OBVIOUS
<1> HIDE DEF a, b, m, n
<1>5. \A i \in 1 .. m + n : skip(i) \in DOMAIN a /\ skip(i) # m + 1 /\ b[i] = a[skip(i)]
  <2> SUFFICES ASSUME NEW i \in 1 .. m + n
               PROVE  skip(i) \in DOMAIN a /\ skip(i) # m + 1 /\ b[i] = a[skip(i)]
    OBVIOUS
  <2>1. CASE i <= m
    <3>1. i \in 1 .. m /\ i \in 1 .. m + n + 1 /\ i <= m + 1 /\ i # m + 1
      BY <1>1, <2>1
    <3>2. a[i] = u[i] /\ b[i] = u[i]
      BY <1>1, <1>2, <1>3, <2>1, <3>1
    <3> QED BY <1>3, <2>1, <3>1, <3>2
  <2>2. CASE ~ (i <= m)
    <3>1. i + 1 \in 1 .. m + n + 1 /\ ~ (i + 1 <= m + 1) /\ (i + 1) - (m + 1) = i - m /\ i + 1 # m + 1
      BY <1>1, <2>2
    <3>2. a[i + 1] = v[i - m] /\ b[i] = v[i - m]
      BY <1>2, <1>3, <2>2, <3>1
    <3> QED BY <1>3, <2>2, <3>1, <3>2
  <2> QED BY <2>1, <2>2
<1>6. \A i, j \in 1 .. m + n : i < j => skip(i) < skip(j)
  BY <1>1
<1>7. Ascending(b)
  BY <1>2, <1>4, <1>5, <1>6 DEF Ascending
<1>8. m + 1 \in DOMAIN a /\ a[m + 1] = x
  BY <1>1, <1>3
<1>9. ASSUME NEW i \in DOMAIN a, i # m + 1 PROVE a[i] # x
  <2>1. i \in Int /\ a[i] \in Nat
    <3>1. i \in 1 .. m + n + 1 /\ m + n + 1 \in Int
      BY <1>1, <1>3
    <3>2. a[i] \in Nat
      BY <1>3, <3>1
    <3> QED BY <3>1, <3>2
  <2>2. i < m + 1 \/ m + 1 < i
    BY <1>1, <1>9, <2>1
  <2> QED BY <1>4, <1>8, <2>1, <2>2 DEF Ascending
<1>10. ASSUME NEW i \in DOMAIN a, i # m + 1 PROVE \E k \in 1 .. m + n : skip(k) = i
  <2>1. i \in 1 .. m + n + 1
    BY <1>3
  <2>2. CASE i <= m
    <3>1. i \in 1 .. m + n /\ skip(i) = i
      BY <1>1, <2>1, <2>2
    <3> QED BY <3>1
  <2>3. CASE ~ (i <= m)
    <3>1. i - 1 \in 1 .. m + n /\ skip(i - 1) = i
      BY <1>1, <1>10, <2>1, <2>3
    <3> QED BY <3>1
  <2> QED BY <2>2, <2>3
<1>11. Range(b) = Range(a) \ {x}
  <2>1. ASSUME NEW y \in Range(b) PROVE y \in Range(a) /\ y # x
    BY <1>2, <1>5, <1>9, <2>1 DEF Range
  <2>2. ASSUME NEW y \in Range(a), y # x PROVE y \in Range(b)
    <3>1. PICK i \in DOMAIN a : y = a[i]
      BY <2>2 DEF Range
    <3>2. PICK k \in 1 .. m + n : skip(k) = i
      BY <1>8, <1>10, <2>2, <3>1
    <3>3. k \in DOMAIN b /\ y = b[k]
      BY <1>2, <1>5, <3>1, <3>2
    <3> QED BY <3>3 DEF Range
  <2> QED BY <2>1, <2>2
<1>12. x \in Range(a)
  BY <1>8 DEF Range
<1> QED BY <1>7, <1>11, <1>12 DEF a, b

\* What the argument needs of the words' way: the counts and the buffer, the
\* room that Poll found for Put, and a device that is enabled before anything
\* is written to it (an idle transmitter throws away what it may not send).
Words ==
    /\ {"sent", "recv_cnt", "recv_buf"} \subseteq DOMAIN mem
    /\ mem.recv_cnt \in Nat /\ loc.got \in Nat /\ loc.len \in Nat
    /\ \A i \in 1 .. mem.recv_cnt + loc.got : i \in DOMAIN mem.recv_buf /\ mem.recv_buf[i] \in Nat
    /\ hpc # "recv" => loc.got = 0 /\ loc.len = 0
    /\ Len(dev.txq) <= Depth /\ (pc = "put" => Len(dev.txq) < Depth)
    /\ app \in Serials /\ pc # "init" => dev.tx_en /\ dev.rx_en
    /\ dev.txq # << >> \/ dev.line # << >> => dev.tx_en /\ dev.rx_en
    /\ lost \subseteq 1 .. mem.sent

\* The steps that move no word.
Quiet ==
    \/ InitDevice \/ EnableGlb \/ EnableIrq \/ ConfigExtIrq \/ SetRxIrq \/ Poll \/ Check \/ TimerSetup
    \/ Round \/ GetVal \/ Exit \/ TakeIrq \/ HandleTrap \/ ReadIp \/ ReadLen \/ Mret
    \/ GateTrigger \/ GateSelect \/ Tick

\* They leave the buffer, its counts and the queues alone.
LEMMA QuietKeeps ==
    ASSUME Shape, Words, Quiet
    PROVE  /\ {"sent", "recv_cnt", "recv_buf"} \subseteq DOMAIN mem'
           /\ mem'.sent = mem.sent /\ mem'.recv_cnt = mem.recv_cnt /\ mem'.recv_buf = mem.recv_buf
           /\ loc'.got = loc.got /\ lost' = lost
           /\ dev'.rxq = dev.rxq /\ dev'.line = dev.line /\ dev'.txq = dev.txq
<1>1. CASE InitDevice BY <1>1 DEF InitDevice, Words, Shape, uv_uart_init, uv_spi_init, SerialReset
<1>2. CASE EnableGlb BY <1>2 DEF EnableGlb, Words, Shape
<1>3. CASE EnableIrq BY <1>3 DEF EnableIrq, Words, Shape
<1>4. CASE ConfigExtIrq BY <1>4 DEF ConfigExtIrq, Words, Shape
<1>5. CASE SetRxIrq BY <1>5 DEF SetRxIrq, Words, Shape, SerialReset
<1>6. CASE Poll BY <1>6 DEF Poll, Words, Shape
<1>7. CASE Check BY <1>7 DEF Check, Words, Shape
<1>8. CASE TimerSetup BY <1>8 DEF TimerSetup, Words, Shape
<1>9. CASE Round BY <1>9 DEF Round, Words, Shape
<1>10. CASE GetVal BY <1>10 DEF GetVal, Words, Shape
<1>11. CASE Exit BY <1>11 DEF Exit, Words, Shape
<1>12. CASE TakeIrq BY <1>12 DEF TakeIrq, Words, Shape
<1>13. CASE HandleTrap BY <1>13 DEF HandleTrap, Words, Shape
<1>14. CASE ReadIp BY <1>14 DEF ReadIp, Words, Shape
<1>15. CASE ReadLen BY <1>15 DEF ReadLen, Words, Shape
<1>16. CASE Mret BY <1>16 DEF Mret, Words, Shape
<1>17. CASE GateTrigger BY <1>17 DEF GateTrigger, Words, Shape
<1>18. CASE GateSelect BY <1>18 DEF GateSelect, Words, Shape
<1>19. CASE Tick BY <1>19 DEF Tick, Words, Shape
<1> QED BY <1>1, <1>2, <1>3, <1>4, <1>5, <1>6, <1>7, <1>8, <1>9, <1>10, <1>11, <1>12, <1>13, <1>14, <1>15, <1>16, <1>17, <1>18, <1>19 DEF Quiet

\* They keep what is said of the words' way.
LEMMA QuietWords == ASSUME Shape, Timer, Words, Quiet PROVE Words'
<1>1. /\ loc'.len \in Nat
      /\ hpc' # "recv" => loc'.got = 0 /\ loc'.len = 0
      /\ pc' = "put" => Len(dev.txq) < Depth
      /\ app' \in Serials /\ pc' # "init" => dev'.tx_en /\ dev'.rx_en
      /\ dev.tx_en => dev'.tx_en
      /\ dev.rx_en => dev'.rx_en
  <2> USE DEF Shape, Words
  <2>1. CASE InitDevice BY <2>1 DEF InitDevice, At, Serials, uv_uart_init, uv_spi_init, SerialReset
  <2>2. CASE EnableGlb BY <2>2 DEF EnableGlb, At, Serials
  <2>3. CASE EnableIrq BY <2>3 DEF EnableIrq, At
  <2>4. CASE ConfigExtIrq BY <2>4 DEF ConfigExtIrq, At
  <2>5. CASE SetRxIrq BY <2>5 DEF SetRxIrq, At, SerialReset
  <2>6. CASE Poll BY <2>6, DepthAssumption DEF Poll, At, TxFull, Serials, Timer, BeforeCompare
  <2>7. CASE Check BY <2>7 DEF Check, At
  <2>8. CASE TimerSetup BY <2>8 DEF TimerSetup, At
  <2>9. CASE Round BY <2>9 DEF Round, At
  <2>10. CASE GetVal BY <2>10 DEF GetVal, At
  <2>11. CASE Exit BY <2>11 DEF Exit, At
  <2>12. CASE TakeIrq BY <2>12 DEF TakeIrq
  <2>13. CASE HandleTrap BY <2>13 DEF HandleTrap
  <2>14. CASE ReadIp BY <2>14 DEF ReadIp
  <2>15. CASE ReadLen BY <2>15 DEF ReadLen
  <2>16. CASE Mret BY <2>16 DEF Mret
  <2>17. CASE GateTrigger BY <2>17 DEF GateTrigger
  <2>18. CASE GateSelect BY <2>18 DEF GateSelect
  <2>19. CASE Tick BY <2>19 DEF Tick
  <2> QED BY <2>1, <2>2, <2>3, <2>4, <2>5, <2>6, <2>7, <2>8, <2>9, <2>10, <2>11, <2>12, <2>13, <2>14, <2>15, <2>16, <2>17, <2>18, <2>19 DEF Quiet
<1> QED BY <1>1, QuietKeeps DEF Words

\* What was received is a sequence of words.
LEMMA ReceivedSeq ==
    ASSUME Words
    PROVE  /\ Received \in Seq(Nat) /\ mem.recv_cnt + loc.got \in Nat
           /\ Len(Received) = mem.recv_cnt + loc.got
           /\ \A i \in 1 .. mem.recv_cnt + loc.got : Received[i] = mem.recv_buf[i]
<1> DEFINE n == mem.recv_cnt + loc.got
<1>1. n \in Nat /\ \A i \in 1 .. n : mem.recv_buf[i] \in Nat
  BY DEF Words
<1>2. Received = [i \in 1 .. n |-> mem.recv_buf[i]]
  BY DEF Received
<1> HIDE DEF n
<1>3. Received \in Seq(Nat) /\ Len(Received) = n /\ \A i \in 1 .. n : Received[i] = mem.recv_buf[i]
  BY <1>1, <1>2
<1> QED BY <1>1, <1>3 DEF n

\* Main puts the next number at the end.
LEMMA PutStep == ASSUME Shape, Timer, Words, Conserved, Put PROVE (Words /\ Conserved)'
<1> DEFINE t == dev.txq
           q == dev.rxq
           ln == dev.line
           n == mem.sent + 1
<1>1. /\ t \in Seq(Nat) /\ q \in Seq(Nat) /\ ln \in Seq(Nat) /\ n \in Nat /\ mem.sent \in Nat
      /\ Len(t) < Depth
  BY DEF Shape, Words, Put, At
<1>2. /\ dev' = [dev EXCEPT !.txq = Append(t, n)]
      /\ mem' = [mem EXCEPT !.sent = n]
      /\ UNCHANGED <<app, hpc, loc, lost>> /\ pc = "put" /\ pc' = "send"
  <2>1. Len(t) # Depth
    BY <1>1, DepthAssumption
  <2>2. dev' = [dev EXCEPT !.txq = Append(t, n)]
    BY <2>1 DEF Put, PutTx, TxFull
  <2> QED BY <2>2 DEF Put, At
<1>3. /\ dev'.txq = Append(t, n) /\ dev'.rxq = q /\ dev'.line = ln
      /\ dev'.tx_en = dev.tx_en /\ dev'.rx_en = dev.rx_en
  BY <1>2 DEF Shape, SerialReset
<1>4. /\ {"sent", "recv_cnt", "recv_buf"} \subseteq DOMAIN mem'
      /\ mem'.sent = n /\ mem'.recv_cnt = mem.recv_cnt /\ mem'.recv_buf = mem.recv_buf
  BY <1>2 DEF Words
<1>5. Words'
  <2>1. dev.tx_en /\ dev.rx_en
    BY <1>2 DEF Words, Timer, BeforeCompare, Shape, Serials
  <2>2. Len(Append(t, n)) <= Depth
    BY <1>1, DepthAssumption
  <2>3. lost' \subseteq 1 .. mem'.sent
    BY <1>1, <1>2, <1>4 DEF Words
  <2>4. 1 .. mem'.recv_cnt + loc'.got = 1 .. mem.recv_cnt + loc.got
    BY <1>2, <1>4
  <2> QED BY <1>2, <1>3, <1>4, <2>1, <2>2, <2>3, <2>4 DEF Words
<1>6. OnTheWay \in Seq(Nat) /\ OnTheWay' = Append(OnTheWay, n)
  <2> DEFINE u == (Received \o q) \o ln
  <2>1. u \in Seq(Nat) /\ u \o t \in Seq(Nat)
    BY <1>1, ReceivedSeq, ConcatProperties
  <2>2. OnTheWay = u \o t /\ OnTheWay' = u \o Append(t, n)
    BY <1>2, <1>3, <1>4 DEF OnTheWay, Received
  <2> HIDE DEF u, t
  <2> QED BY <1>1, <2>1, <2>2, AppendLast
<1>7. \A y \in Range(OnTheWay) : y < n
  BY <1>1 DEF Conserved
<1>8. Ascending(Append(OnTheWay, n)) /\ Range(Append(OnTheWay, n)) = Range(OnTheWay) \union {n}
  BY <1>1, <1>6, <1>7, AscendingAppend DEF Conserved
<1>9. n \notin lost
  BY <1>1 DEF Words
<1> QED BY <1>1, <1>2, <1>4, <1>5, <1>6, <1>8, <1>9 DEF Conserved

\* The handler takes the first word of the receive queue to the end of what
\* was received.
LEMMA RecvStep == ASSUME Shape, Words, Conserved, Recv PROVE (Words /\ Conserved)'
<1> DEFINE k == mem.recv_cnt + loc.got
           q == dev.rxq
<1>1. k \in Nat /\ q \in Seq(Nat) /\ q # << >> /\ Head(q) \in Nat /\ Tail(q) \in Seq(Nat)
  <2>1. k \in Nat
    BY DEF Words
  <2>2. q \in Seq(Nat) /\ q # << >>
    BY DEF Shape, Recv
  <2> QED BY <2>1, <2>2, HeadTailProperties
<1>2. /\ mem'.recv_cnt = mem.recv_cnt /\ mem'.sent = mem.sent
      /\ {"sent", "recv_cnt", "recv_buf"} \subseteq DOMAIN mem'
      /\ mem'.recv_buf = [i \in DOMAIN mem.recv_buf \union {k + 1} |->
                            IF i = k + 1 THEN Head(q) ELSE mem.recv_buf[i]]
  BY DEF Recv, Words
<1>3. loc'.got = loc.got + 1 /\ loc'.len = loc.len
  BY DEF Recv, Shape
<1>4. /\ dev'.rxq = Tail(q) /\ dev'.line = dev.line /\ dev'.txq = dev.txq
      /\ dev'.tx_en = dev.tx_en /\ dev'.rx_en = dev.rx_en
  BY DEF Recv, TakeRx, Shape, SerialReset
<1>5. mem'.recv_cnt + loc'.got = k + 1
  BY <1>2, <1>3 DEF Words
<1>6. UNCHANGED <<app, pc, hpc, lost>> /\ hpc = "recv"
  BY DEF Recv
<1>7. Words'
  <2>1. \A i \in 1 .. k + 1 : i \in DOMAIN mem'.recv_buf /\ mem'.recv_buf[i] \in Nat
    <3>1. \A i \in 1 .. k + 1 : i = k + 1 \/ i \in 1 .. k
      BY <1>1
    <3> QED BY <1>1, <1>2, <3>1 DEF Words
  <2>2. loc'.got \in Nat /\ loc'.len \in Nat
    BY <1>3 DEF Words
  <2>3. \A i \in 1 .. mem'.recv_cnt + loc'.got : i \in DOMAIN mem'.recv_buf /\ mem'.recv_buf[i] \in Nat
    BY <1>5, <2>1
  <2> QED BY <1>2, <1>4, <1>6, <2>2, <2>3 DEF Words
<1>8. Received' = Append(Received, Head(q))
  <2>1. /\ Received' \in Seq(Nat) /\ Len(Received') = k + 1
        /\ \A i \in 1 .. k + 1 : Received'[i] = mem'.recv_buf[i]
    <3>1. Received' = [i \in 1 .. k + 1 |-> mem'.recv_buf[i]]
      BY <1>5 DEF Received
    <3>2. \A i \in 1 .. k + 1 : mem'.recv_buf[i] \in Nat
      BY <1>5, <1>7 DEF Words
    <3>3. k + 1 \in Nat
      BY <1>1
    <3> HIDE DEF k
    <3> QED BY <3>1, <3>2, <3>3
  <2>2. /\ Append(Received, Head(q)) \in Seq(Nat) /\ Len(Append(Received, Head(q))) = k + 1
        /\ \A i \in 1 .. k : Append(Received, Head(q))[i] = mem.recv_buf[i]
        /\ Append(Received, Head(q))[k + 1] = Head(q)
    BY <1>1, ReceivedSeq, AppendProperties
  <2>3. \A i \in 1 .. k + 1 : Received'[i] = Append(Received, Head(q))[i]
    <3> SUFFICES ASSUME NEW i \in 1 .. k + 1 PROVE Received'[i] = Append(Received, Head(q))[i]
      OBVIOUS
    <3>1. CASE i = k + 1
      BY <1>2, <2>1, <2>2, <3>1
    <3>2. CASE i # k + 1
      <4>1. i \in 1 .. k /\ i \in DOMAIN mem.recv_buf
        <5>1. i \in 1 .. k
          BY <1>1, <3>2
        <5> QED BY <5>1 DEF Words
      <4> QED BY <1>2, <2>1, <2>2, <3>2, <4>1
    <3> QED BY <3>1, <3>2
  <2> QED BY <2>1, <2>2, <2>3, SeqEqual
<1>9. OnTheWay' = OnTheWay
  <2>1. Received \o q = Append(Received, Head(q)) \o Tail(q)
    BY <1>1, ReceivedSeq, MoveHead
  <2>2. OnTheWay' = ((Append(Received, Head(q)) \o Tail(q)) \o dev.line) \o dev.txq
    BY <1>4, <1>8 DEF OnTheWay
  <2> QED BY <2>1, <2>2 DEF OnTheWay
<1> QED BY <1>2, <1>6, <1>7, <1>9 DEF Conserved

\* The handler counts what it has stored.
LEMMA CompleteStep == ASSUME Shape, Words, Conserved, Complete PROVE (Words /\ Conserved)'
<1>1. /\ mem'.recv_cnt = mem.recv_cnt + loc.len /\ mem'.sent = mem.sent /\ mem'.recv_buf = mem.recv_buf
      /\ {"sent", "recv_cnt", "recv_buf"} \subseteq DOMAIN mem'
  BY DEF Complete, Words
<1>2. loc'.got = 0 /\ loc'.len = 0 /\ loc.got = loc.len
  BY DEF Complete, Shape
<1>3. mem'.recv_cnt + loc'.got = mem.recv_cnt + loc.got /\ mem'.recv_cnt \in Nat
  BY <1>1, <1>2 DEF Words
<1>4. UNCHANGED <<app, pc, dev, lost>>
  BY DEF Complete
<1>5. Words'
  BY <1>1, <1>2, <1>3, <1>4 DEF Words
<1>6. OnTheWay' = OnTheWay
  BY <1>1, <1>3, <1>4 DEF OnTheWay, Received
<1> QED BY <1>1, <1>4, <1>5, <1>6 DEF Conserved

\* A word starts on the line.
LEMMA LineStartStep == ASSUME Shape, Words, Conserved, LineStart PROVE (Words /\ Conserved)'
<1> DEFINE t == dev.txq
           ln == dev.line
           u == Received \o dev.rxq
<1>1. /\ t \in Seq(Nat) /\ ln \in Seq(Nat) /\ t # << >> /\ u \in Seq(Nat) /\ dev.tx_en
  <2>1. t \in Seq(Nat) /\ ln \in Seq(Nat) /\ dev.rxq \in Seq(Nat) /\ t # << >>
    BY DEF Shape, LineStart, CanStart
  <2> QED BY <2>1, ReceivedSeq, ConcatProperties DEF Words
<1>2. /\ dev'.txq = Tail(t) /\ dev'.line = Append(ln, Head(t)) /\ dev'.rxq = dev.rxq
      /\ dev'.tx_en = dev.tx_en /\ dev'.rx_en = dev.rx_en
  BY <1>1 DEF LineStart, Start, Shape, SerialReset
<1>3. UNCHANGED <<app, pc, hpc, mem, loc, lost>>
  BY DEF LineStart
<1>4. Words'
  <2>1. Len(Tail(t)) \in Nat /\ Len(Tail(t)) < Len(t) /\ Len(t) \in Nat
    BY <1>1
  <2>2. Len(dev'.txq) <= Depth /\ (pc' = "put" => Len(dev'.txq) < Depth)
    BY <1>2, <1>3, <2>1, DepthAssumption DEF Words
  <2> QED BY <1>1, <1>2, <1>3, <2>2 DEF Words
<1>5. OnTheWay' = OnTheWay
  <2>1. (u \o ln) \o t = (u \o Append(ln, Head(t))) \o Tail(t)
    BY <1>1, MoveBetween
  <2> QED BY <1>2, <1>3, <2>1 DEF OnTheWay, Received
<1> QED BY <1>3, <1>4, <1>5 DEF Conserved

\* A word arrives and is stored or overrun; the SPI master starts the next.
LEMMA LineArriveStep == ASSUME Shape, Words, Conserved, LineArrive PROVE (Words /\ Conserved)'
<1> DEFINE t == dev.txq
           ln == dev.line
           q == dev.rxq
           h == Head(ln)
           r == Tail(ln)
           stored == IF Overruns(dev) THEN q ELSE Append(q, h)
           rest == [dev EXCEPT !.line = r]
           go == app = "spi" /\ CanStart(rest, app)
<1>1. /\ t \in Seq(Nat) /\ ln \in Seq(Nat) /\ q \in Seq(Nat) /\ ln # << >>
      /\ dev.tx_en /\ dev.rx_en
  BY DEF Shape, Words, LineArrive
<1>2. h \in Nat /\ r \in Seq(Nat) /\ stored \in Seq(Nat)
  <2>1. h \in Nat /\ r \in Seq(Nat)
    BY <1>1, HeadTailProperties
  <2> QED BY <1>1, <2>1, AppendProperties
<1>3. UNCHANGED <<app, pc, hpc, mem, loc>> /\ lost' = IF Overruns(dev) THEN lost \union {h} ELSE lost
  BY DEF LineArrive
<1>4. /\ rest.line = r /\ rest.txq = t /\ rest.rxq = q /\ DOMAIN rest = DOMAIN dev
      /\ rest.tx_en = dev.tx_en /\ rest.rx_en = dev.rx_en
  BY DEF Shape, SerialReset
<1>5. /\ dev'.rxq = stored
      /\ dev'.line = IF go THEN Append(r, Head(t)) ELSE r
      /\ dev'.txq = IF go THEN Tail(t) ELSE t
      /\ dev'.tx_en = dev.tx_en /\ dev'.rx_en = dev.rx_en
      /\ go => t # << >>
  <2>1. dev' = [IF go THEN Start(rest) ELSE rest EXCEPT !.rxq = stored]
    BY <1>1 DEF LineArrive, Arrive
  <2>2. go => t # << >>
    BY <1>4 DEF CanStart
  <2>3. CASE go
    BY <1>1, <1>4, <2>1, <2>2, <2>3 DEF Start, Shape, SerialReset
  <2>4. CASE ~ go
    BY <1>1, <1>4, <2>1, <2>2, <2>4 DEF Shape, SerialReset
  <2> QED BY <2>3, <2>4
<1> HIDE DEF go, rest, stored
<1>6. \A u \in Seq(Nat) : (u \o dev'.line) \o dev'.txq = (u \o r) \o t
  <2>1. CASE go
    <3>1. t \in Seq(Nat) /\ r \in Seq(Nat) /\ t # << >>
      BY <1>1, <1>2, <1>5, <2>1
    <3>2. dev'.line = Append(r, Head(t)) /\ dev'.txq = Tail(t)
      BY <1>5, <2>1
    <3> HIDE DEF t, r
    <3>3. \A u \in Seq(Nat) : (u \o r) \o t = (u \o Append(r, Head(t))) \o Tail(t)
      BY <3>1, MoveBetween
    <3> QED BY <3>2, <3>3
  <2>2. CASE ~ go
    BY <1>5, <2>2
  <2> QED BY <2>1, <2>2
<1>7. Received' = Received /\ Received \in Seq(Nat)
  BY <1>3, ReceivedSeq DEF Received
<1>8. OnTheWay' = ((Received \o stored) \o r) \o t
  <2>1. Received \o stored \in Seq(Nat)
    BY <1>2, <1>7, ConcatProperties
  <2> QED BY <1>5, <1>6, <1>7, <2>1 DEF OnTheWay
<1>9. /\ Len(dev'.txq) <= Depth /\ (pc' = "put" => Len(dev'.txq) < Depth)
  <2>1. CASE go
    <3>1. Len(Tail(t)) \in Nat /\ Len(Tail(t)) < Len(t) /\ Len(t) \in Nat
      <4>1. t \in Seq(Nat) /\ t # << >>
        BY <1>1, <1>5, <2>1
      <4> QED BY <4>1, HeadTailProperties, LenProperties
    <3> QED BY <1>3, <1>5, <2>1, <3>1, DepthAssumption DEF Words
  <2>2. CASE ~ go
    BY <1>3, <1>5, <2>2 DEF Words
  <2> QED BY <2>1, <2>2
<1>10. lost' \subseteq 1 .. mem'.sent => Words'
  BY <1>1, <1>3, <1>5, <1>9 DEF Words
<1>11. CASE ~ Overruns(dev)
  <2>1. stored = Append(q, h)
    BY <1>11 DEF stored
  <2>2. (Received \o q) \o ln = (Received \o Append(q, h)) \o r
    BY <1>1, <1>7, MoveBetween
  <2>3. OnTheWay' = OnTheWay
    BY <1>8, <2>1, <2>2 DEF OnTheWay
  <2>4. Words'
    BY <1>3, <1>10, <1>11 DEF Words
  <2> QED BY <1>3, <1>11, <2>3, <2>4 DEF Conserved
<1>12. CASE Overruns(dev)
  <2> DEFINE u == Received \o q
             v == r \o t
  <2>1. stored = q /\ u \in Seq(Nat) /\ v \in Seq(Nat) /\ Append(u, h) \in Seq(Nat)
    BY <1>1, <1>2, <1>7, <1>12, ConcatProperties, AppendProperties DEF stored
  <2>2. OnTheWay' = u \o v
    <3>1. u \in Seq(Nat) /\ r \in Seq(Nat) /\ t \in Seq(Nat)
      BY <1>1, <1>2, <2>1
    <3>2. OnTheWay' = (u \o r) \o t
      BY <1>8, <2>1
    <3> HIDE DEF u, r, t
    <3>3. (u \o r) \o t = u \o (r \o t)
      BY <3>1, Regroup
    <3> QED BY <3>2, <3>3
  <2>3. OnTheWay = Append(u, h) \o v
    <3>1. u \o ln = Append(u, h) \o r
      BY <1>1, <2>1, MoveHead
    <3>2. (Append(u, h) \o r) \o t = Append(u, h) \o v
      <4>1. Append(u, h) \in Seq(Nat) /\ r \in Seq(Nat) /\ t \in Seq(Nat)
        BY <1>1, <1>2, <2>1
      <4> HIDE DEF u, h, r, t
      <4> QED BY <4>1, Regroup
    <3> QED BY <3>1, <3>2 DEF OnTheWay
  <2> HIDE DEF u, v
  <2>4. /\ Ascending(u \o v) /\ Range(u \o v) = Range(Append(u, h) \o v) \ {h}
        /\ h \in Range(Append(u, h) \o v)
    BY <1>2, <2>1, <2>3, AscendingDrop DEF Conserved
  <2>5. Range(Append(u, h) \o v) = (1 .. mem.sent) \ lost
    BY <2>3 DEF Conserved
  <2>6. Words'
    BY <1>3, <1>10, <1>12, <2>4, <2>5 DEF Words
  <2>7. Range(OnTheWay') = (1 .. mem'.sent) \ lost'
    BY <1>3, <1>12, <2>2, <2>4, <2>5
  <2> QED BY <2>2, <2>4, <2>6, <2>7 DEF Conserved
<1> QED BY <1>11, <1>12

\* No word is duplicated, reordered or lost but by an overrun, for every
\* number of words, depth and threshold and whatever the speeds.
THEOREM ConservedHolds == Spec => []Conserved
<1>1. Init => Words /\ Conserved
  <2> SUFFICES ASSUME Init PROVE Words /\ Conserved
    OBVIOUS
  <2>1. /\ mem.sent = 0 /\ mem.recv_cnt = 0 /\ {"sent", "recv_cnt", "recv_buf"} \subseteq DOMAIN mem
        /\ loc.got = 0 /\ loc.len = 0 /\ lost = {} /\ pc = "init"
        /\ dev.rxq = << >> /\ dev.line = << >> /\ dev.txq = << >>
    BY DEF Init, SerialReset
  <2>2. Words
    BY <2>1, DepthAssumption DEF Words
  <2>3. OnTheWay = << >>
    <3>1. Received = << >>
      BY <2>1 DEF Received
    <3> QED BY <2>1, <3>1 DEF OnTheWay
  <2>4. Conserved
    BY <2>1, <2>3 DEF Conserved, Ascending, Range
  <2> QED BY <2>2, <2>4
<1>2. IInv /\ Timer /\ Words /\ Conserved /\ [Next]_vars => (Words /\ Conserved)'
  <2>1. ASSUME Shape, Timer, Words, Conserved, Quiet PROVE (Words /\ Conserved)'
    <3>1. OnTheWay' = OnTheWay /\ mem'.sent = mem.sent /\ lost' = lost
      BY <2>1, QuietKeeps DEF OnTheWay, Received
    <3> QED BY <2>1, <3>1, QuietWords DEF Conserved
  <2>2. ASSUME Words, Conserved, UNCHANGED vars PROVE (Words /\ Conserved)'
    BY <2>2 DEF vars, Words, Conserved, OnTheWay, Received
  <2> QED BY <2>1, <2>2, PutStep, RecvStep, CompleteStep, LineStartStep, LineArriveStep
          DEF IInv, Next, Main, Handler, Quiet
<1> QED BY <1>1, <1>2, Invariance, TimerInvariance, PTL DEF Spec

-----------------------------------------------------------------------------
(* Dhrystone.                                                              *)

Arrays1 == [0 .. 49 -> Int]
Arrays2 == [(0 .. 49) \X (0 .. 49) -> Int]
Globals == [Int_Glob : Int, Bool_Glob : BOOLEAN, Ch_1_Glob : Int, Ch_2_Glob : Int,
            Arr_1 : Arrays1, Arr_2 : Arrays2]
Locals  == [i1 : Int, i2 : Int, i3 : Int, enum : Int, ch : Int, str1 : {STR_1}, str2 : Int]
Records == [{"glob", "next"} -> RecType]

\* Types, and the number of the run.
Typed == /\ dpc \in {"run", "while", "procs", "letters", "printed"}
         /\ runs \in Nat \ {0} /\ index \in 1 .. runs + 1
         /\ dpc \in {"while", "procs", "letters"} => index <= runs
         /\ dpc = "printed" => index > runs
         /\ g \in Globals /\ l \in Locals /\ recs \in Records

\* The record of Ptr_Glob is what main made it, but for Int_Comp; in later
\* runs, and after Proc_1, both records have their last values.
Settled == index > 1 \/ dpc = "letters"
GlobIs(h, i) == /\ h["glob"].Ptr_Comp = "next" /\ h["glob"].Discr = Ident_1
                /\ h["glob"].Enum_Comp = Ident_3 /\ h["glob"].Int_Comp = i
                /\ h["glob"].Str_Comp = STR_SOME
NextIs(h, e, i) == /\ h["next"].Ptr_Comp = "next" /\ h["next"].Discr = Ident_1
                   /\ h["next"].Enum_Comp = e /\ h["next"].Int_Comp = i
                   /\ h["next"].Str_Comp = STR_SOME
RecordsRight == /\ GlobIs(recs, IF Settled THEN 17 ELSE 40)
                /\ Settled => NextIs(recs, Ident_2, 18)

\* Every run adds one to an element of the matrix, when it calls Proc_8.
ArraysRight ==
    /\ g.Arr_2[<<8, 7>>] = 10 + (index - 1) + (IF dpc = "letters" THEN 1 ELSE 0)
    /\ Settled => g.Arr_1[8] = 7 /\ g.Int_Glob = 5

\* The rest is set again in each run, and has its last value at the end of it.
RunRight ==
    /\ dpc \in {"while", "procs", "letters"} \/ index > 1 =>
         /\ g.Bool_Glob /\ g.Ch_1_Glob = A /\ g.Ch_2_Glob = B
         /\ l.str2 = STR_2 /\ l.enum = Ident_2
    /\ dpc = "while" => l.i2 = 3 /\ (l.i1 = 2 \/ (l.i1 = 3 /\ l.i3 = 7))
    /\ dpc \in {"procs", "letters"} => l.i1 = 3 /\ l.i2 = 3 /\ l.i3 = 7
    /\ dpc = "letters" => l.ch \in A .. C
    /\ dpc \in {"run", "printed"} /\ index > 1 => l.i1 = 5 /\ l.i2 = 13 /\ l.i3 = 7

DInv == Typed /\ RecordsRight /\ ArraysRight /\ RunRight

-----------------------------------------------------------------------------
\* One element of the matrix is counted up, among others that are set.
LEMMA Counted ==
    ASSUME NEW f \in Arrays2
    PROVE  /\ [f EXCEPT ![<<8, 8>>] = 8, ![<<8, 9>>] = 8, ![<<8, 7>>] = @ + 1,
                        ![<<28, 8>>] = 7] \in Arrays2
           /\ [f EXCEPT ![<<8, 8>>] = 8, ![<<8, 9>>] = 8, ![<<8, 7>>] = @ + 1,
                        ![<<28, 8>>] = 7][<<8, 7>>] = f[<<8, 7>>] + 1
  <1>1. [f EXCEPT ![<<8, 8>>] = 8, ![<<8, 9>>] = 8, ![<<8, 7>>] = @ + 1, ![<<28, 8>>] = 7] \in Arrays2
    BY DEF Arrays2
  <1>2. [f EXCEPT ![<<8, 8>>] = 8, ![<<8, 9>>] = 8, ![<<8, 7>>] = @ + 1,
                  ![<<28, 8>>] = 7][<<8, 7>>] = f[<<8, 7>>] + 1
    BY DEF Arrays2
  <1>. QED
    BY <1>1, <1>2

\* What Proc_8 does to the elements that main looks at.
LEMMA Proc8 ==
    ASSUME NEW q \in Globals
    PROVE  /\ Proc_8(q, 3, 7) \in Globals
           /\ Proc_8(q, 3, 7).Arr_1[8] = 7
           /\ Proc_8(q, 3, 7).Arr_2[<<8, 7>>] = q.Arr_2[<<8, 7>>] + 1
           /\ Proc_8(q, 3, 7).Int_Glob = 5
           /\ Proc_8(q, 3, 7).Bool_Glob = q.Bool_Glob
           /\ Proc_8(q, 3, 7).Ch_1_Glob = q.Ch_1_Glob
           /\ Proc_8(q, 3, 7).Ch_2_Glob = q.Ch_2_Glob
  <1>. DEFINE at == 3 + 5
              a1 == [q.Arr_1 EXCEPT ![at] = 7, ![at + 1] = 7, ![at + 30] = at]
              a2 == [q.Arr_2 EXCEPT ![<<at, at>>] = at, ![<<at, at + 1>>] = at,
                                    ![<<at, at - 1>>] = @ + 1, ![<<at + 20, at>>] = 7]
              p8 == [q EXCEPT !.Arr_1 = a1, !.Arr_2 = a2, !.Int_Glob = 5]
  <1>1. Proc_8(q, 3, 7) = p8
    BY Zenon DEF Proc_8
  <1>2. q.Arr_1 \in Arrays1 /\ q.Arr_2 \in Arrays2
    BY DEF Globals
  <1>3. a1 \in Arrays1 /\ a1[8] = 7
    BY <1>2 DEF Arrays1
  <1>4. a2 \in Arrays2 /\ a2[<<8, 7>>] = q.Arr_2[<<8, 7>>] + 1
    <2>1. at = 8 /\ at + 1 = 9 /\ at - 1 = 7 /\ at + 20 = 28
      OBVIOUS
    <2>. HIDE DEF at
    <2>2. a2 = [q.Arr_2 EXCEPT ![<<8, 8>>] = 8, ![<<8, 9>>] = 8, ![<<8, 7>>] = @ + 1, ![<<28, 8>>] = 7]
      BY <2>1
    <2>. HIDE DEF a2
    <2>. QED
      BY <1>2, <2>2, Counted, Zenon
  <1>. HIDE DEF a1, a2
  <1>5. /\ p8 \in Globals /\ p8.Arr_1 = a1 /\ p8.Arr_2 = a2 /\ p8.Int_Glob = 5
        /\ p8.Bool_Glob = q.Bool_Glob /\ p8.Ch_1_Glob = q.Ch_1_Glob /\ p8.Ch_2_Glob = q.Ch_2_Glob
    <2>. DEFINE q1 == [q EXCEPT !.Arr_1 = a1]
                q2 == [q1 EXCEPT !.Arr_2 = a2]
    <2>1. p8 = [q2 EXCEPT !.Int_Glob = 5]
      BY Zenon
    <2>2. /\ q1 \in Globals /\ q1.Arr_1 = a1
          /\ q1.Bool_Glob = q.Bool_Glob /\ q1.Ch_1_Glob = q.Ch_1_Glob /\ q1.Ch_2_Glob = q.Ch_2_Glob
      BY <1>3 DEF Globals
    <2>. HIDE DEF q1
    <2>3. /\ q2 \in Globals /\ q2.Arr_1 = a1 /\ q2.Arr_2 = a2
          /\ q2.Bool_Glob = q.Bool_Glob /\ q2.Ch_1_Glob = q.Ch_1_Glob /\ q2.Ch_2_Glob = q.Ch_2_Glob
      <3>1. a2 \in Arrays2
        BY <1>4
      <3>. QED
        BY <2>2, <3>1 DEF Globals
    <2>. HIDE DEF q2, p8
    <2>. QED
      BY <2>1, <2>3 DEF Globals
  <1>. HIDE DEF p8
  <1>. QED
    BY <1>1, <1>3, <1>4, <1>5, Zenon

\* What Proc_1 makes of the two records.
LEMMA Proc1 ==
    ASSUME NEW h \in Records, NEW x \in Int, GlobIs(h, x)
    PROVE  Proc_1(h, 5) \in Records /\ GlobIs(Proc_1(h, 5), 17) /\ NextIs(Proc_1(h, 5), Ident_2, 18)
  <1>. DEFINE next == h["glob"].Ptr_Comp
              h1 == [h EXCEPT ![next] = h["glob"]]
              h2 == [h1 EXCEPT !["glob"].Int_Comp = 5]
              h3 == [h2 EXCEPT ![next].Int_Comp = h2["glob"].Int_Comp,
                               ![next].Ptr_Comp = h2["glob"].Ptr_Comp]
              h4 == Proc_3(h3, next, 5)
              h5 == [h4 EXCEPT ![next].Int_Comp = 6,
                               ![next].Enum_Comp = Proc_6(h4["glob"].Enum_Comp, 5),
                               ![next].Ptr_Comp = h4["glob"].Ptr_Comp]
              h6 == [h5 EXCEPT ![next].Int_Comp = Proc_7(h5[next].Int_Comp, 10)]
  <1>1. Proc_1(h, 5) = IF h4[next].Discr = Ident_1 THEN h6
                       ELSE [h4 EXCEPT !["glob"] = h4[h4["glob"].Ptr_Comp]]
    BY Zenon DEF Proc_1
  <1>2. next = "next"
    BY DEF GlobIs
  <1>. HIDE DEF next
  <1>3. h1 \in Records /\ GlobIs(h1, x) /\ NextIs(h1, Ident_3, x)
    BY <1>2 DEF Records, RecType, GlobIs, NextIs
  <1>. HIDE DEF h1
  <1>4. h2 \in Records /\ GlobIs(h2, 5) /\ NextIs(h2, Ident_3, x)
    BY <1>3 DEF Records, RecType, GlobIs, NextIs
  <1>. HIDE DEF h2
  <1>5. h3 \in Records /\ GlobIs(h3, 5) /\ NextIs(h3, Ident_3, 5)
    BY <1>2, <1>4 DEF Records, RecType, GlobIs, NextIs
  <1>. HIDE DEF h3
  <1>6. h4 \in Records /\ GlobIs(h4, 17) /\ NextIs(h4, Ident_3, 5)
    BY <1>2, <1>5 DEF Records, RecType, GlobIs, NextIs, Proc_3, Proc_7
  <1>. HIDE DEF h4
  <1>7. Proc_6(h4["glob"].Enum_Comp, 5) = Ident_2 /\ Ident_2 \in Ident
    BY <1>6 DEF GlobIs, Proc_6, Ident, Ident_1, Ident_2, Ident_3, Ident_4, Ident_5
  <1>8. h5 \in Records /\ GlobIs(h5, 17) /\ NextIs(h5, Ident_2, 6)
    <2>. DEFINE a == [h4 EXCEPT ![next].Int_Comp = 6]
                 e == Proc_6(h4["glob"].Enum_Comp, 5)
                 b == [a EXCEPT ![next].Enum_Comp = e]
    <2>1. h5 = [b EXCEPT ![next].Ptr_Comp = h4["glob"].Ptr_Comp]
      BY Zenon
    <2>2. a \in Records /\ GlobIs(a, 17) /\ NextIs(a, Ident_3, 6)
      BY <1>2, <1>6 DEF Records, RecType, GlobIs, NextIs
    <2>3. e = Ident_2 /\ e \in Ident
      BY <1>7
    <2>. HIDE DEF a, e, h5
    <2>4. b \in Records /\ GlobIs(b, 17) /\ NextIs(b, Ident_2, 6)
      BY <1>2, <2>2, <2>3 DEF Records, RecType, GlobIs, NextIs
    <2>5. h4["glob"].Ptr_Comp = "next"
      BY <1>6 DEF GlobIs
    <2>. HIDE DEF b
    <2>. QED
      BY <1>2, <2>1, <2>4, <2>5 DEF Records, RecType, GlobIs, NextIs
  <1>. HIDE DEF h5
  <1>9. h6 \in Records /\ GlobIs(h6, 17) /\ NextIs(h6, Ident_2, 18)
    BY <1>2, <1>8 DEF Records, RecType, GlobIs, NextIs, Proc_7
  <1>. HIDE DEF h6
  <1>. QED
    BY <1>1, <1>2, <1>6, <1>9 DEF NextIs
-----------------------------------------------------------------------------
\* The values main starts with.
LEMMA InitRight == DInit => DInv
  <1>. SUFFICES ASSUME DInit PROVE DInv
    OBVIOUS
  <1>1. dpc = "run" /\ runs \in Nat \ {0} /\ index = 1 /\ ~Settled
    BY DhrystoneAssumption DEF DInit, Settled
  <1>2. g \in Globals /\ g.Arr_2[<<8, 7>>] = 10
    <2>. DEFINE a1 == [i \in 0 .. 49 |-> 0]
                a2 == [c \in (0 .. 49) \X (0 .. 49) |-> IF c = <<8, 7>> THEN 10 ELSE 0]
    <2>1. a1 \in Arrays1 /\ a2 \in Arrays2 /\ a2[<<8, 7>>] = 10
      BY DEF Arrays1, Arrays2
    <2>2. g = [Int_Glob |-> 0, Bool_Glob |-> FALSE, Ch_1_Glob |-> 0, Ch_2_Glob |-> 0,
               Arr_1 |-> a1, Arr_2 |-> a2]
      BY DEF DInit
    <2>. HIDE DEF a1, a2
    <2>3. g \in Globals
      BY <2>1, <2>2 DEF Globals
    <2>4. g.Arr_2 = a2
      BY <2>2
    <2>. QED
      BY <2>1, <2>3, <2>4, Zenon
  <1>3. recs \in Records /\ GlobIs(recs, 40)
    <2>. DEFINE new == [Ptr_Comp |-> "next", Discr |-> Ident_1, Enum_Comp |-> Ident_3,
                        Int_Comp |-> 40, Str_Comp |-> STR_SOME]
    <2>1. new \in RecType
      BY DEF RecType, Ident, Ident_1, Ident_3, STR_SOME
    <2>2. PICK junk \in RecType : recs = [p \in {"glob", "next"} |-> IF p = "next" THEN junk ELSE new]
      BY DhrystoneAssumption DEF DInit
    <2>. HIDE DEF new
    <2>3. recs \in Records /\ recs["glob"] = new
      BY <2>1, <2>2 DEF Records
    <2>. QED
      BY <2>3 DEF GlobIs, new
  <1>4. l \in Locals
    BY DEF DInit, Locals, STR_1
  <1>. QED
    BY <1>1, <1>2, <1>3, <1>4 DEF DInv, Typed, RecordsRight, ArraysRight, RunRight

\* BeginRun sets the characters and the flag; the first string is the smaller.
LEMMA BeginRunStep == ASSUME DInv, BeginRun PROVE DInv'
  <1>1. /\ dpc = "run" /\ dpc' = "while" /\ index' = index /\ runs' = runs /\ recs' = recs
        /\ index <= runs
    BY DEF BeginRun
  <1>2. Settled' <=> Settled
    BY <1>1 DEF Settled
  <1>3. ~Func_2(l.str1, STR_2)
    BY DEF DInv, Typed, Locals, Func_2, STR_1, STR_2
  <1>4. /\ g' \in Globals /\ g'.Int_Glob = g.Int_Glob /\ g'.Arr_1 = g.Arr_1 /\ g'.Arr_2 = g.Arr_2
        /\ g'.Bool_Glob /\ g'.Ch_1_Glob = A /\ g'.Ch_2_Glob = B
    <2>1. g' = [Proc_4(Proc_5(g)) EXCEPT !.Bool_Glob = ~Func_2(l.str1, STR_2),
                  !.Int_Glob = IF Func_2(l.str1, STR_2) THEN 10 ELSE @]
      BY DEF BeginRun
    <2>. DEFINE q1 == [g EXCEPT !.Ch_1_Glob = A]
                q2 == [q1 EXCEPT !.Bool_Glob = FALSE]
                q3 == [q2 EXCEPT !.Bool_Glob = (q2.Ch_1_Glob = A) \/ q2.Bool_Glob]
                q4 == [q3 EXCEPT !.Ch_2_Glob = B]
                q5 == [q4 EXCEPT !.Bool_Glob = TRUE]
                q6 == [q5 EXCEPT !.Int_Glob = q5.Int_Glob]
    <2>2. Proc_4(Proc_5(g)) = q4
      BY Zenon DEF Proc_4, Proc_5
    <2>. HIDE DEF q4
    <2>3. g' = q6
      BY <1>3, <2>1, <2>2
    <2>. USE DEF q4
    <2>4. q1 \in Globals /\ q1.Int_Glob = g.Int_Glob /\ q1.Arr_1 = g.Arr_1 /\ q1.Arr_2 = g.Arr_2
          /\ q1.Ch_1_Glob = A
      BY DEF DInv, Typed, Globals, A
    <2>. HIDE DEF q1
    <2>5. q2 \in Globals /\ q2.Int_Glob = g.Int_Glob /\ q2.Arr_1 = g.Arr_1 /\ q2.Arr_2 = g.Arr_2
          /\ q2.Ch_1_Glob = A
      BY <2>4 DEF Globals
    <2>. HIDE DEF q2
    <2>6. q3 \in Globals /\ q3.Int_Glob = g.Int_Glob /\ q3.Arr_1 = g.Arr_1 /\ q3.Arr_2 = g.Arr_2
          /\ q3.Ch_1_Glob = A
      BY <2>5 DEF Globals
    <2>. HIDE DEF q3
    <2>7. q4 \in Globals /\ q4.Int_Glob = g.Int_Glob /\ q4.Arr_1 = g.Arr_1 /\ q4.Arr_2 = g.Arr_2
          /\ q4.Ch_1_Glob = A /\ q4.Ch_2_Glob = B
      BY <2>6 DEF Globals, B
    <2>. HIDE DEF q4
    <2>8. q5 \in Globals /\ q5.Int_Glob = g.Int_Glob /\ q5.Arr_1 = g.Arr_1 /\ q5.Arr_2 = g.Arr_2
          /\ q5.Ch_1_Glob = A /\ q5.Ch_2_Glob = B /\ q5.Bool_Glob
      BY <2>7 DEF Globals
    <2>. HIDE DEF q5
    <2>9. q6 \in Globals /\ q6.Int_Glob = g.Int_Glob /\ q6.Arr_1 = g.Arr_1 /\ q6.Arr_2 = g.Arr_2
          /\ q6.Ch_1_Glob = A /\ q6.Ch_2_Glob = B /\ q6.Bool_Glob
      BY <2>8 DEF Globals
    <2>. HIDE DEF q6
    <2>. QED
      BY <2>3, <2>9
  <1>5. l' \in Locals /\ l'.i1 = 2 /\ l'.i2 = 3 /\ l'.str2 = STR_2 /\ l'.enum = Ident_2
    <2>. DEFINE l1 == [l EXCEPT !.i1 = 2]
                l2 == [l1 EXCEPT !.i2 = 3]
                l3 == [l2 EXCEPT !.str2 = STR_2]
                l4 == [l3 EXCEPT !.enum = Ident_2]
    <2>1. l' = l4
      BY Zenon DEF BeginRun
    <2>2. l1 \in Locals /\ l1.i1 = 2
      BY DEF DInv, Typed, Locals
    <2>. HIDE DEF l1
    <2>3. l2 \in Locals /\ l2.i1 = 2 /\ l2.i2 = 3
      BY <2>2 DEF Locals
    <2>. HIDE DEF l2
    <2>4. l3 \in Locals /\ l3.i1 = 2 /\ l3.i2 = 3 /\ l3.str2 = STR_2
      BY <2>3 DEF Locals, STR_2
    <2>. HIDE DEF l3
    <2>5. l4 \in Locals /\ l4.i1 = 2 /\ l4.i2 = 3 /\ l4.str2 = STR_2 /\ l4.enum = Ident_2
      BY <2>4 DEF Locals, Ident_2
    <2>. HIDE DEF l4
    <2>. QED
      BY <2>1, <2>5
  <1>. QED
    BY <1>1, <1>2, <1>4, <1>5 DEF DInv, Typed, RecordsRight, ArraysRight, RunRight

\* The while loop is passed once.
LEMMA WhileStep == ASSUME DInv, While PROVE DInv'
  <1>1. /\ dpc = "while" /\ index' = index /\ runs' = runs /\ recs' = recs /\ g' = g
        /\ dpc' \in {"while", "procs"}
    BY DEF While
  <1>2. Settled' <=> Settled
    BY <1>1 DEF Settled
  <1>3. /\ l' \in Locals /\ l'.str2 = l.str2 /\ l'.enum = l.enum /\ l'.i2 = 3
        /\ l'.i1 = 3 /\ l'.i3 = 7
    <2>1. l \in Locals /\ l.i2 = 3 /\ (l.i1 = 2 \/ (l.i1 = 3 /\ l.i3 = 7))
      BY <1>1 DEF DInv, Typed, RunRight
    <2>2. CASE l.i1 = 3
      <3>1. l' = l
        BY <2>1, <2>2 DEF While
      <3>. QED
        BY <2>1, <2>2, <3>1
    <2>3. CASE l.i1 = 2
      <3>. DEFINE l1 == [l EXCEPT !.i3 = Proc_7(l.i1, l.i2)]
                  l2 == [l1 EXCEPT !.i1 = l1.i1 + 1]
      <3>1. l.i1 < l.i2
        BY <2>1, <2>3
      <3>2. l' = [l EXCEPT !.i3 = Proc_7(l.i1, l.i2), !.i1 = @ + 1]
        BY <3>1 DEF While
      <3>3. l' = l2
        BY <3>2, Zenon
      <3>4. Proc_7(l.i1, l.i2) = 7
        BY <2>1, <2>3 DEF Proc_7
      <3>5. l1 \in Locals /\ l1.str2 = l.str2 /\ l1.enum = l.enum /\ l1.i1 = 2 /\ l1.i2 = 3 /\ l1.i3 = 7
        BY <2>1, <2>3, <3>4 DEF Locals
      <3>. HIDE DEF l1
      <3>6. l2 \in Locals /\ l2.str2 = l.str2 /\ l2.enum = l.enum /\ l2.i1 = 3 /\ l2.i2 = 3 /\ l2.i3 = 7
        BY <3>5 DEF Locals
      <3>. HIDE DEF l2
      <3>. QED
        BY <3>3, <3>6
    <2>. QED
      BY <2>1, <2>2, <2>3
  <1>. QED
    BY <1>1, <1>2, <1>3 DEF DInv, Typed, RecordsRight, ArraysRight, RunRight

\* Proc_8 counts the run, Proc_1 leaves the records as it did before.
LEMMA ProcsStep == ASSUME DInv, Procs PROVE DInv'
  <1>1. dpc = "procs" /\ dpc' = "letters" /\ index' = index /\ runs' = runs /\ Settled'
    BY DEF Procs, Settled
  <1>2. l.i1 = 3 /\ l.i3 = 7 /\ g \in Globals /\ recs \in Records
    BY <1>1 DEF DInv, Typed, RunRight
  <1>3. g' = Proc_8(g, 3, 7)
    BY <1>2 DEF Procs
  <1>4. /\ g' \in Globals /\ g'.Arr_1[8] = 7 /\ g'.Arr_2[<<8, 7>>] = g.Arr_2[<<8, 7>>] + 1
        /\ g'.Int_Glob = 5 /\ g'.Bool_Glob = g.Bool_Glob
        /\ g'.Ch_1_Glob = g.Ch_1_Glob /\ g'.Ch_2_Glob = g.Ch_2_Glob
    BY <1>2, <1>3, Proc8, Zenon
  <1>5. recs' = Proc_1(recs, 5)
    BY <1>4 DEF Procs
  <1>6. recs' \in Records /\ GlobIs(recs', 17) /\ NextIs(recs', Ident_2, 18)
    <2>1. GlobIs(recs, IF Settled THEN 17 ELSE 40)
      BY DEF DInv, RecordsRight
    <2>. QED
      BY <1>2, <1>5, <2>1, Proc1
  <1>7. /\ l' \in Locals /\ l'.ch = A /\ l'.i1 = l.i1 /\ l'.i2 = l.i2 /\ l'.i3 = l.i3
        /\ l'.str2 = l.str2 /\ l'.enum = l.enum
    BY DEF Procs, DInv, Typed, Locals, A
  <1>8. RunRight'
    BY <1>1, <1>4, <1>7 DEF DInv, RunRight, A, C
  <1>9. ArraysRight'
    BY <1>1, <1>4 DEF DInv, ArraysRight, Typed
  <1>. QED
    BY <1>1, <1>4, <1>6, <1>7, <1>8, <1>9 DEF DInv, Typed, RecordsRight

\* None of the letters 'A' and 'B' is 'C', so nothing else changes.
LEMMA LetterStep == ASSUME DInv, Letter PROVE DInv'
  <1>1. dpc = "letters" /\ dpc' = dpc /\ index' = index /\ runs' = runs /\ recs' = recs
    BY DEF Letter
  <1>2. /\ l \in Locals /\ g \in Globals /\ l.ch \in A .. C /\ l.enum = Ident_2
        /\ g.Ch_1_Glob = A /\ g.Ch_2_Glob = B
    BY <1>1 DEF DInv, Typed, RunRight
  <1>3. l.ch <= B
    BY <1>2 DEF Letter
  <1>4. Func_1(l.ch, C, g.Ch_1_Glob) = <<Ident_1, g.Ch_1_Glob>>
    BY <1>2, <1>3 DEF Func_1, A, B, C
  <1>5. l.enum # Ident_1
    BY <1>2 DEF Ident_1, Ident_2
  <1>6. g' = g
    <2>1. g' = [g EXCEPT !.Ch_1_Glob = g.Ch_1_Glob, !.Int_Glob = g.Int_Glob]
      BY <1>2, <1>4, <1>5 DEF Letter, Globals
    <2>. QED
      BY <1>2, <2>1 DEF Globals
  <1>7. /\ l' \in Locals /\ l'.ch = l.ch + 1 /\ l'.i1 = l.i1 /\ l'.i2 = l.i2 /\ l'.i3 = l.i3
        /\ l'.str2 = l.str2 /\ l'.enum = l.enum
    <2>. DEFINE l1 == [l EXCEPT !.ch = l.ch + 1]
                l2 == [l1 EXCEPT !.enum = l1.enum]
                l3 == [l2 EXCEPT !.str2 = l2.str2]
                l4 == [l3 EXCEPT !.i2 = l3.i2]
                F  == Func_1(l.ch, C, g.Ch_1_Glob)
    <2>1. l.enum # F[1]
      BY <1>4, <1>5
    <2>2. l' = [l EXCEPT !.ch = @ + 1,
                         !.enum = IF l.enum = F[1] THEN Proc_6(Ident_1, g.Int_Glob) ELSE @,
                         !.str2 = IF l.enum = F[1] THEN STR_3 ELSE @,
                         !.i2 = IF l.enum = F[1] THEN index ELSE @]
      BY Zenon DEF Letter
    <2>. HIDE DEF F
    <2>3. l' = l4
      BY <2>1, <2>2
    <2>4. /\ l1 \in Locals /\ l1.ch = l.ch + 1 /\ l1.i1 = l.i1 /\ l1.i2 = l.i2 /\ l1.i3 = l.i3
          /\ l1.str2 = l.str2 /\ l1.enum = l.enum
      BY <1>2 DEF Locals
    <2>. HIDE DEF l1
    <2>5. l2 = l1
      BY <2>4 DEF Locals
    <2>6. l3 = l1
      BY <2>4, <2>5 DEF Locals
    <2>7. l4 = l1
      BY <2>4, <2>6 DEF Locals
    <2>. QED
      BY <2>3, <2>4, <2>7
  <1>8. l'.ch \in A .. C
    BY <1>2, <1>3, <1>7 DEF A, B, C
  <1>9. Settled' <=> Settled
    BY <1>1 DEF Settled
  <1>. QED
    BY <1>1, <1>6, <1>7, <1>8, <1>9 DEF DInv, Typed, RecordsRight, ArraysRight, RunRight

\* 3 * 3 divided by 7: the locals main prints.
LEMMA EndRunStep == ASSUME DInv, EndRun PROVE DInv'
  <1>1. /\ dpc = "letters" /\ dpc' = "run" /\ index' = index + 1 /\ runs' = runs /\ recs' = recs
        /\ g' = g
    BY DEF EndRun
  <1>2. /\ l \in Locals /\ g \in Globals /\ l.i1 = 3 /\ l.i2 = 3 /\ l.i3 = 7
        /\ index \in 1 .. runs /\ Settled /\ g.Int_Glob = 5
    BY <1>1 DEF DInv, Typed, RunRight, Settled, ArraysRight
  <1>3. Settled'
    BY <1>1, <1>2 DEF Settled
  <1>4. l' = [l EXCEPT !.i1 = Proc_2((3 * 3) \div 7, g), !.i2 = 7 * (3 * 3 - 7) - ((3 * 3) \div 7)]
    BY <1>2 DEF EndRun
  <1>5. Proc_2((3 * 3) \div 7, g) = 5 /\ 7 * (3 * 3 - 7) - ((3 * 3) \div 7) = 13
    BY <1>2 DEF Proc_2
  <1>6. l' = [l EXCEPT !.i1 = 5, !.i2 = 13]
    BY <1>4, <1>5
  <1>7. /\ l' \in Locals /\ l'.i1 = 5 /\ l'.i2 = 13 /\ l'.i3 = 7
        /\ l'.str2 = l.str2 /\ l'.enum = l.enum
    <2>. DEFINE l1 == [l EXCEPT !.i1 = 5]
                l2 == [l1 EXCEPT !.i2 = 13]
    <2>1. l' = l2
      BY <1>6, Zenon
    <2>2. l1 \in Locals /\ l1.i1 = 5 /\ l1.i3 = 7 /\ l1.str2 = l.str2 /\ l1.enum = l.enum
      BY <1>2 DEF Locals
    <2>. HIDE DEF l1
    <2>3. /\ l2 \in Locals /\ l2.i1 = 5 /\ l2.i2 = 13 /\ l2.i3 = 7
          /\ l2.str2 = l.str2 /\ l2.enum = l.enum
      BY <2>2 DEF Locals
    <2>. HIDE DEF l2
    <2>. QED
      BY <2>1, <2>3
  <1>8. ArraysRight'
    BY <1>1, <1>2 DEF DInv, ArraysRight
  <1>. QED
    BY <1>1, <1>2, <1>3, <1>7, <1>8 DEF DInv, Typed, RecordsRight, RunRight

\* Every run leaves every variable as the run before did, but for the element
\* it counts up.
THEOREM DhrystoneInvariance == DSpec => []DInv
  <1>1. DInv /\ Results => DInv'
    BY DEF Results, DInv, Typed, RecordsRight, ArraysRight, RunRight, Settled
  <1>2. DInv /\ UNCHANGED dvars => DInv'
    BY DEF dvars, DInv, Typed, RecordsRight, ArraysRight, RunRight, Settled
  <1>3. DInv /\ DNext => DInv'
    BY <1>1, <1>2, BeginRunStep, WhileStep, ProcsStep, LetterStep, EndRunStep DEF DNext, Ended
  <1>. QED
    BY InitRight, <1>2, <1>3, PTL DEF DSpec

\* At the end every variable has the value main prints behind "should be:",
\* after any number of runs.
THEOREM ShouldBeHolds == DSpec => []ShouldBe
  <1>1. DInv => ShouldBe
    <2>. SUFFICES ASSUME DInv, dpc = "printed" PROVE ShouldBe
      BY DEF ShouldBe
    <2>1. index = runs + 1 /\ runs \in Nat \ {0} /\ index > 1 /\ Settled
      BY DEF DInv, Typed, Settled
    <2>2. recs["glob"] \in RecType /\ recs["next"] \in RecType
      BY DEF DInv, Typed, Records
    <2>3. recs["glob"] = [Ptr_Comp |-> "next", Discr |-> 0, Enum_Comp |-> 2,
                          Int_Comp |-> 17, Str_Comp |-> STR_SOME]
      BY <2>1, <2>2 DEF DInv, RecordsRight, GlobIs, RecType, Ident_1, Ident_3
    <2>4. recs["next"] = [Ptr_Comp |-> recs["glob"].Ptr_Comp, Discr |-> 0, Enum_Comp |-> 1,
                          Int_Comp |-> 18, Str_Comp |-> STR_SOME]
      BY <2>1, <2>2 DEF DInv, RecordsRight, GlobIs, NextIs, RecType, Ident_1, Ident_2
    <2>5. g.Arr_2[<<8, 7>>] = runs + 10 /\ g.Arr_1[8] = 7 /\ g.Int_Glob = 5
      BY <2>1 DEF DInv, ArraysRight
    <2>6. /\ g.Bool_Glob /\ g.Ch_1_Glob = A /\ g.Ch_2_Glob = B
          /\ l.i1 = 5 /\ l.i2 = 13 /\ l.i3 = 7 /\ l.enum = 1 /\ l.str2 = STR_2
      BY <2>1 DEF DInv, RunRight, Ident_2
    <2>7. l.str1 = STR_1
      BY DEF DInv, Typed, Locals
    <2>. QED
      BY <2>3, <2>4, <2>5, <2>6, <2>7 DEF ShouldBe
  <1>. QED
    BY <1>1, DhrystoneInvariance, PTL

-----------------------------------------------------------------------------
(* The matrix benchmark.                                                   *)

\* The values of a signed 16-bit cell.
Word16 == {x \in Int : 0 <= x + 32768 /\ x + 32768 < 65536}

\* The remainder of a division by 2^16 is the only one in its range.
LEMMA Remainder ==
    ASSUME NEW z \in Int, 0 <= z, z < 65536, NEW k \in Int, NEW y \in Int, y = z + 65536 * k
    PROVE  y % 65536 = z
OBVIOUS

\* Subtracting what was added gives the value back, also when the sum has
\* wrapped around.
LEMMA Wrap ==
    ASSUME NEW x \in Int, NEW v \in Int, 0 <= x + 32768, x + 32768 < 65536
    PROVE  LET r == (x + v + 32768) % 65536
           IN  /\ r \in Int /\ 0 <= r /\ r < 65536
               /\ (r - 32768 + (-v) + 32768) % 65536 = x + 32768
<1> DEFINE y == x + v + 32768
<1>1. /\ y \div 65536 \in Int /\ y % 65536 \in Int /\ 0 <= y % 65536 /\ y % 65536 < 65536
      /\ y = 65536 * (y \div 65536) + (y % 65536)
  OBVIOUS
<1>2. ASSUME NEW q \in Int, NEW r \in Int, 0 <= r, r < 65536, x + v + 32768 = 65536 * q + r
      PROVE  (r - 32768 + (-v) + 32768) % 65536 = x + 32768
  <2>1. r - 32768 + (-v) + 32768 = (x + 32768) + 65536 * (-q)
    BY <1>2
  <2>2. r - 32768 + (-v) + 32768 \in Int /\ -q \in Int /\ x + 32768 \in Int
    OBVIOUS
  <2> QED BY <2>1, <2>2, Remainder
<1>3. ((y % 65536) - 32768 + (-v) + 32768) % 65536 = x + 32768
  BY <1>1, <1>2
<1> QED BY <1>1, <1>3

LEMMA S16Inverse == \A x \in Word16, v \in Int : S16(S16(x + v) + (-v)) = x
<1> SUFFICES ASSUME NEW x \in Word16, NEW v \in Int PROVE S16(S16(x + v) + (-v)) = x
  OBVIOUS
<1>1. x \in Int /\ 0 <= x + 32768 /\ x + 32768 < 65536
  BY DEF Word16
<1> DEFINE r == (x + v + 32768) % 65536
<1>2. (r - 32768 + (-v) + 32768) % 65536 = x + 32768
  BY <1>1, Wrap
<1>3. S16(x + v) = r - 32768
  BY DEF S16
<1> HIDE DEF r
<1>4. S16(S16(x + v) + (-v)) = ((r - 32768 + (-v) + 32768) % 65536) - 32768
  BY <1>3 DEF S16
<1> QED BY <1>1, <1>2, <1>4

\* core_matrix.c:146, "return matrix to initial value": whatever the seed, the
\* benchmark leaves matrix A as it was, although its sums wrap in 16 bits.
THEOREM MatrixRestored ==
    ASSUME NEW N \in Nat, NEW a \in [Cells(N) -> Word16], NEW b, NEW seed \in Int, NEW crc
    PROVE  core_bench_matrix([N |-> N, A |-> a, B |-> b], seed, crc).A = a
<1> DEFINE m == [N |-> N, A |-> a, B |-> b]
           added == matrix_add_const(a, seed)
<1>1. added = [c \in Cells(N) |-> S16(a[c] + seed)]
  BY DEF matrix_add_const
<1>2. matrix_add_const(added, -seed) = [c \in Cells(N) |-> S16(added[c] + (-seed))]
  BY <1>1 DEF matrix_add_const
<1>3. matrix_add_const(added, -seed) = a
  BY <1>1, <1>2, S16Inverse
<1>4. matrix_test(m, seed).A = matrix_add_const(added, -seed)
  BY DEF matrix_test
<1>5. core_bench_matrix(m, seed, crc).A = matrix_test(m, seed).A
  BY DEF core_bench_matrix
<1> QED BY <1>3, <1>4, <1>5

=============================================================================
