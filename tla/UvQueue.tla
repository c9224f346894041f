------------------------------ MODULE UvQueue -------------------------------
(***************************************************************************)
(* The ring-buffer queue of src/design/mem/uv_queue.v, used as the         *)
(* transmit and receive queue of the UART, SPI and I2C controllers.        *)
(*                                                                         *)
(* A state is a settled clock cycle: the registers, and the inputs that    *)
(* are driven in that cycle.  A step is the clock edge that ends it.  The  *)
(* inputs are free: the clients drive wr_vld and rd_vld without looking at *)
(* wr_rdy and rd_rdy.                                                      *)
(*                                                                         *)
(* A definition whose name has a suffix (X_Y beside X) is a faulty variant *)
(* of X that shows that a property tells the two apart; no specification   *)
(* uses it.                                                                *)
(***************************************************************************)
EXTENDS Naturals

CONSTANTS Data,       \* the values of a DAT_WIDTH-bit word
          QUE_DEPTH,  \* number of slots
          PTR_SPAN    \* 2^PTR_WIDTH, where a pointer register wraps

\* The pointer registers can address every slot (QUE_DEPTH <= 2**PTR_WIDTH),
\* and a queue cleared and written in one cycle puts its write pointer on
\* slot 1, which has to exist.
ASSUME QueueAssumption == /\ QUE_DEPTH \in Nat /\ QUE_DEPTH >= 2
                          /\ PTR_SPAN \in Nat /\ QUE_DEPTH <= PTR_SPAN
                          /\ Data # {}

VARIABLES que,      \* the storage; not reset by the hardware
          wr_ptr_r, \* slot the next word is written to
          rd_ptr_r, \* slot of the oldest word
          len_r,    \* number of queued words
          rd_dat_r, \* the word handed over by the last read that fired
          in        \* the inputs driven in the current cycle

vars == <<que, wr_ptr_r, rd_ptr_r, len_r, rd_dat_r, in>>

Slots  == 0 .. (QUE_DEPTH - 1)
Inputs == [wr_vld : BOOLEAN, wr_dat : Data, rd_vld : BOOLEAN, clr : BOOLEAN]

Init == /\ que \in [Slots -> Data]
        /\ wr_ptr_r = 0
        /\ rd_ptr_r = 0
        /\ len_r = 0
        /\ rd_dat_r \in Data
        /\ in \in Inputs

-----------------------------------------------------------------------------
\* Queue status.
full  == len_r = QUE_DEPTH
empty == len_r = 0

\* A write to a full queue and a read from an empty one are ignored ("Bypass
\* request under illegal status").
wr_fire == in.wr_vld /\ ~full
rd_fire == in.rd_vld /\ ~empty
wr_only == wr_fire /\ ~rd_fire
rd_only == rd_fire /\ ~wr_fire

\* A pointer one slot on: the adder wraps at the register width, the
\* comparison with QUE_DEPTH at the end of the ring.
ptr_add(p) == IF p + 1 < PTR_SPAN THEN p + 1 ELSE 0
ptr_nxt(p) == IF ptr_add(p) < QUE_DEPTH THEN ptr_add(p) ELSE 0

\* Back pressure: there will still be room (a word) after this cycle.
wr_rdy_NoLookahead == in.clr \/ len_r < QUE_DEPTH
wr_rdy == \/ in.clr
          \/ len_r < QUE_DEPTH - 1
          \/ len_r = QUE_DEPTH - 1 /\ ~wr_only
rd_rdy == /\ ~in.clr
          /\ len_r > 1 \/ (len_r = 1 /\ ~rd_only)

\* The write port of the storage.
WriteQue_IgnoresClr ==
    que' = IF wr_fire THEN [que EXCEPT ![wr_ptr_r] = in.wr_dat] ELSE que
WriteQue ==
    que' = IF wr_fire THEN [que EXCEPT ![IF in.clr THEN 0 ELSE wr_ptr_r] = in.wr_dat]
                      ELSE que

UpdateWrPtr ==
    wr_ptr_r' = IF in.clr THEN (IF wr_fire THEN 1 ELSE 0)
                ELSE IF wr_fire THEN ptr_nxt(wr_ptr_r) ELSE wr_ptr_r

UpdateRdPtr ==
    rd_ptr_r' = IF in.clr THEN 0 ELSE IF rd_fire THEN ptr_nxt(rd_ptr_r) ELSE rd_ptr_r

UpdateLen ==
    len_r' = IF in.clr THEN (IF wr_fire THEN 1 ELSE 0)
             ELSE IF wr_only THEN len_r + 1
             ELSE IF rd_only THEN len_r - 1
             ELSE len_r

\* The read port: with ZERO_RDLY the reader samples que[rd_ptr_r] itself in
\* the cycle its read fires, without it the queue registers the same word.
ReadQue == rd_dat_r' = IF rd_fire THEN que[rd_ptr_r] ELSE rd_dat_r

\* One rising clock edge.
Clock == WriteQue /\ UpdateWrPtr /\ UpdateRdPtr /\ UpdateLen /\ ReadQue

Next == Clock /\ in' \in Inputs

Spec == Init /\ [][Next]_vars

-----------------------------------------------------------------------------
\* Every register holds a value of its declared width, and the pointers
\* address existing slots.
TypeOK == /\ que \in [Slots -> Data]
          /\ wr_ptr_r \in Slots
          /\ rd_ptr_r \in Slots
          /\ len_r \in 0 .. QUE_DEPTH
          /\ rd_dat_r \in Data
          /\ in \in Inputs

\* The slot of the i-th oldest word (i counts from 1).
Slot(i) == IF rd_ptr_r + i - 1 < QUE_DEPTH THEN rd_ptr_r + i - 1
                                           ELSE rd_ptr_r + i - 1 - QUE_DEPTH

\* The three registers that describe the occupied part of the ring, each
\* updated by a process of its own with its own treatment of clr, agree: the
\* write pointer is len_r slots after the read pointer around the ring.
PointersAgree ==
    wr_ptr_r = IF rd_ptr_r + len_r < QUE_DEPTH THEN rd_ptr_r + len_r
                                               ELSE rd_ptr_r + len_r - QUE_DEPTH

\* What the ready outputs promise for the next cycle.
ReadyKept == /\ wr_rdy => len_r' < QUE_DEPTH
             /\ rd_rdy => len_r' > 0

\* The ready outputs look ahead over the cycle they are given in, whatever is
\* written, read or cleared in it: wr_rdy promises a free slot in the next
\* cycle and rd_rdy a word (uv_uart_tx.v starts a frame on that promise and
\* asserts its read one cycle later).
ReadyLooksAhead == [][ReadyKept]_vars

\* The words of the ring, oldest first.
Queued == [i \in 1 .. len_r |-> que[Slot(i)]]
AbstractQueue == INSTANCE Fifo WITH Depth <- QUE_DEPTH,
                                    items <- Queued, dout <- rd_dat_r, in <- in

\* The ring implements the bounded queue of module Fifo: no word is lost,
\* repeated or reordered by any sequence of writes, reads and clears.
ImplementsFifo == AbstractQueue!Spec

=============================================================================
