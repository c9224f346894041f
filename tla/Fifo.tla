-------------------------------- MODULE Fifo --------------------------------
(***************************************************************************)
(* What a synchronous bounded queue with a clear input promises.  In each  *)
(* clock cycle the writer may offer one word, the reader may ask for one,  *)
(* and the controller may clear the queue.  A word offered to a full queue *)
(* is dropped; a read of an empty queue returns nothing.  A clear discards *)
(* the old contents, but a word accepted in the same cycle survives it.    *)
(***************************************************************************)
EXTENDS Naturals, Sequences

CONSTANTS Data,   \* the words that can be queued
          Depth   \* the number of words the queue holds

VARIABLES items,  \* the queued words, oldest first
          dout,   \* the word the last successful read returned
          in      \* what writer, reader and controller ask for in this cycle

vars == <<items, dout, in>>

Inputs == [wr_vld : BOOLEAN, wr_dat : Data, rd_vld : BOOLEAN, clr : BOOLEAN]

Init == /\ items = << >>
        /\ dout \in Data
        /\ in \in Inputs

\* Whether the queue takes an offered word, or has one to give, this cycle.
CanWrite == Len(items) < Depth
CanRead  == Len(items) > 0

\* The words that stay over this cycle, and the word that joins them.
Kept  == IF in.clr THEN << >>
         ELSE IF in.rd_vld /\ CanRead THEN Tail(items) ELSE items
Taken == IF in.wr_vld /\ CanWrite THEN <<in.wr_dat>> ELSE << >>

Next == /\ dout' = IF in.rd_vld /\ CanRead THEN Head(items) ELSE dout
        /\ items' = Kept \o Taken
        /\ in' \in Inputs

Spec == Init /\ [][Next]_vars

=============================================================================
