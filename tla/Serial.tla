------------------------------- MODULE Serial -------------------------------
(***************************************************************************)
(* A serial device as its driver sees it (uart_type and spi_type of        *)
(* uv_sys.h; uv_uart_reg.v, uv_spi_reg.v, uv_uart_tx.v, uv_uart_rx.v,      *)
(* uv_spi_rtx.v): a transmit and a receive queue, a threshold, interrupt   *)
(* enables, and the words under way on the line.  What is sent comes back: *)
(* a second UART of the bench receives a word and returns it, and the SPI  *)
(* input is wired to the output (tc_perips.v).                             *)
(* The state is a record and every operator returns the next record.       *)
(***************************************************************************)
EXTENDS Naturals, Sequences

CONSTANTS
    Depth,       \* capacity of each queue: UART_MAX_QLEN
    LineWords    \* words that the line and the peer of the UART hold at most

ASSUME DepthAssumption == Depth \in Nat \ {0} /\ LineWords \in Nat \ {0}

MAIN_CLK_FREQ == 100000000

\* The rates uv_sys.h names.
BaudRates == {1200, 2400, 4800, 9600, 19200, 38400, 57600, 115200,
              230400, 460800, 921600}

\* Faulty variant: the quotient is not rounded.
clk_div_trunc(baud) == (MAIN_CLK_FREQ \div baud) % 65536

\* Clock divider of a baud rate, as the 16-bit field of glb_cfg keeps it.
clk_div(baud) ==
    LET quot == MAIN_CLK_FREQ \div baud
    IN  (IF MAIN_CLK_FREQ % baud > baud \div 2 THEN quot + 1 ELSE quot) % 65536

SerialReset == [tx_en |-> FALSE, rx_en |-> FALSE, clk_div |-> 0,
                txq |-> <<>>, line |-> <<>>, rxq |-> <<>>,
                rx_th |-> 0, tx_ie |-> FALSE, rx_ie |-> FALSE]

uv_uart_init(d, tx_en, rx_en, baud) ==
    [d EXCEPT !.tx_en = tx_en, !.rx_en = rx_en, !.clk_div = clk_div(baud)]

\* The SPI master always transmits; recv_en makes it keep what it receives.
uv_spi_init(d, rx_en) == [d EXCEPT !.tx_en = TRUE, !.rx_en = rx_en]

\* Threshold that uv_uart_set_rx_irq and uv_spi_set_rx_irq write: a useless
\* one becomes the capacity.  (TestUART writes the register itself.)
RxThreshold(th) == IF th > 0 /\ th <= Depth THEN th ELSE Depth

\* rx_ip, and the interrupt line of the device.  At reset the threshold is 0,
\* so that rx_ip holds for an empty queue.  No program enables tx_ie.
RxIp(d) == Len(d.rxq) >= d.rx_th
Irq(d) == RxIp(d) /\ d.rx_ie

\* A word written to a full queue is dropped by the queue.
TxFull(d) == Len(d.txq) = Depth
PutTx(d, w) == [d EXCEPT !.txq = IF TxFull(d) THEN @ ELSE Append(@, w)]

\* A UART starts a word as soon as it is idle, also when it is disabled:
\* then the word is not sent.  Its peer queues what it gets and sends it back.
\* The SPI master starts a word when its receive queue has room.
CanStart(d, kind) ==
    /\ d.txq # <<>>
    /\ IF kind = "spi" THEN d.line = <<>> /\ Len(d.rxq) < Depth
                       ELSE Len(d.line) < LineWords
Start(d) == [d EXCEPT !.txq = Tail(@),
                      !.line = IF d.tx_en THEN Append(@, Head(d.txq)) ELSE @]

\* A word is complete.  The receivers do not look whether the queue has room.
\* The SPI master goes on with the next word at once, and decides so before
\* the word it has just received is in the queue.
Overruns(d) == d.rx_en /\ Len(d.rxq) = Depth
Arrive(d, kind) ==
    LET stored == IF d.rx_en /\ ~ Overruns(d) THEN Append(d.rxq, Head(d.line)) ELSE d.rxq
        rest == [d EXCEPT !.line = Tail(@)]
    IN  [IF kind = "spi" /\ CanStart(rest, kind) THEN Start(rest) ELSE rest
         EXCEPT !.rxq = stored]

TakeRx(d) == [d EXCEPT !.rxq = Tail(@)]
=============================================================================
