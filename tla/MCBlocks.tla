------------------------------ MODULE MCBlocks ------------------------------
(***************************************************************************)
(* The building blocks of src/design that many components instantiate, the *)
(* queue and the arbiters, for TLC; a behaviour runs one of them, the      *)
(* other one rests.  A three-slot ring with two-bit pointers has QUE_DEPTH *)
(* below 2^PTR_WIDTH, so that the explicit wrap of the pointers is         *)
(* exercised; four request lines are the widest arbiter of the fabrics     *)
(* (uv_bus_fab_4x4.v).                                                     *)
(***************************************************************************)
EXTENDS UvQueue, ArbRr, FiniteSetsExt

\* The subtraction of ArbRr is that of the numbers that the vectors stand for.
Number(v) == MapThenSumSet(LAMBDA i : 2^i, v)
ASSUME MinusSubtracts ==
    \A a \in SUBSET Doubles, b \in SUBSET Lines :
        Number(Minus(a, b)) = (Number(a) - Number(b)) % 2^(2 * WIDTH)

ArbRests   == ArbInit /\ req = {}
QueueRests == /\ Init
              /\ \E d \in Data :
                    /\ que = [s \in Slots |-> d] /\ rd_dat_r = d
                    /\ in = [wr_vld |-> FALSE, wr_dat |-> d,
                             rd_vld |-> FALSE, clr |-> FALSE]

MCInit == (Init /\ ArbRests) \/ (ArbInit /\ QueueRests)
MCNext == \/ Next /\ ArbRests /\ UNCHANGED arbvars
          \/ ArbNext /\ QueueRests /\ UNCHANGED vars
MCSpec == MCInit /\ [][MCNext]_<<vars, arbvars>>
=============================================================================
