-------------------------------- MODULE Slc --------------------------------
(***************************************************************************)
(* The two parts of the system-level controller that firmware programs:   *)
(* the machine timer and the gateway of external interrupts (uv_slc.v, as  *)
(* slc_type and the REG_* constants of uv_sys.h and uv_irq.h describe it). *)
(* The state is a record and every operator returns the next record.       *)
(*                                                                         *)
(* The timer's 64-bit value and compare registers are written and read by  *)
(* halves; HalfRange stands for the 2^32 values of a half.  Interrupts     *)
(* keep the high-level trigger, which is its reset value and the only one  *)
(* the drivers write.                                                      *)
(***************************************************************************)
EXTENDS Naturals, FiniteSets, FiniteSetsExt

CONSTANTS
    HalfRange,   \* number of values of one half of a timer register
    Irqs         \* interrupt numbers: UART_IRQ, SPI0_IRQ, SPI1_IRQ, ...

ASSUME SlcAssumption == HalfRange \in Nat \ {0, 1} /\ Irqs \subseteq Nat

TimerRange == HalfRange * HalfRange

\* Reset values: the compare register is all ones, everything else is zero.
SlcReset == [cnt |-> FALSE, auto_clr |-> FALSE, val |-> 0, cmp |-> TimerRange - 1,
             tmr_irq |-> FALSE,
             lock |-> {}, ip |-> {}, ie |-> {}, pr |-> [i \in Irqs |-> 0],
             th |-> 0, sel |-> 0, ext_irq |-> FALSE]

-----------------------------------------------------------------------------
(* The machine timer.                                                      *)

Low(v) == v % HalfRange
High(v) == v \div HalfRange
SetLow(v, x) == High(v) * HalfRange + x
SetHigh(v, x) == x * HalfRange + Low(v)

\* tmr_cmp_geq: the counter will reach the compare value.
CmpGeq(s) == (s.val + 1) % TimerRange >= s.cmp

\* One clock: the interrupt latches, and the value is cleared (even when
\* counting is stopped) or counts.
TimerClock(s) ==
    [s EXCEPT !.tmr_irq = @ \/ CmpGeq(s),
              !.val = IF CmpGeq(s) /\ s.auto_clr THEN 0
                      ELSE IF s.cnt THEN (@ + 1) % TimerRange ELSE @]

\* tmr_irq_clr, raised by the core when it takes the interrupt; a match in
\* the same clock wins.
TimerTaken(s) == [s EXCEPT !.tmr_irq = CmpGeq(s)]

-----------------------------------------------------------------------------
(* The gateway of external interrupts.                                     *)

\* The level of source i is high and its gate is not locked.
Triggers(s, i, level) == level /\ i \notin s.lock

Trigger(s, i) == [s EXCEPT !.lock = @ \union {i}, !.ip = @ \union {i}]

\* irq_to_arb: pending, enabled and above the threshold of the target.
ToArb(s) == {i \in s.ip \intersect s.ie : s.pr[i] > s.th}

\* The highest priority, and among equals the lowest number.
Selected(s) ==
    LET top == {i \in ToArb(s) : \A j \in ToArb(s) : s.pr[j] <= s.pr[i]}
    IN  Min(top)

Select(s) == [s EXCEPT !.sel = Selected(s), !.ext_irq = TRUE]

\* A read of the claim register returns sel and clears its pending bit.
ClaimRead(s) == [s EXCEPT !.ip = @ \ {s.sel}]

\* A write of id to the claim register completes the interrupt.
ClaimWrite(s, id) ==
    [s EXCEPT !.lock = @ \ {id}, !.ext_irq = @ /\ id # s.sel]

\* SET_EXT_IE: the word read is shifted right by the number of the interrupt
\* before its bit is or-ed in and the word is written back.
SetExtIe(s, i) ==
    [s EXCEPT !.ie = {k \in Irqs : k + i \in s.ie} \union {i}]
=============================================================================
