------------------------------ MODULE CoreMark ------------------------------
(***************************************************************************)
(* The CoreMark application, src/software/app/CoreMark: main and iterate   *)
(* of core_main.c and the steps of core_bench_list of core_list_join.c,    *)
(* with the list, the matrix and the state machine of the modules it       *)
(* extends computed in full, check sums included.                          *)
(*                                                                         *)
(* A build fixes the seeds (core_portme.c), TOTAL_DATA_SIZE (coremark.h)   *)
(* and ITERATIONS (core_portme.h).  All three algorithms are run (execs is *)
(* ALL_ALGORITHMS_MASK: seed5_volatile is 0), in one context (MULTITHREAD  *)
(* is 1).  Time is left out.                                               *)
(***************************************************************************)
EXTENDS CoreList

CONSTANT Builds   \* records [seed1, seed2, seed3, total, iterations]

ASSUME BuildsAssumption ==
    \A b \in Builds : /\ {b.seed1, b.seed2, b.seed3} \subseteq 0 .. 32767
                      /\ b.total \div 3 >= 140 /\ b.iterations \in Nat \ {0}

VARIABLES
    build,        \* the build that runs
    pc,           \* what core_bench_list, or main, does next
    res,          \* results[0]
    heap,         \* the block of the list
    loc,          \* the local variables of core_bench_list
    iter,         \* i of iterate
    verdict,      \* known_id and total_errors of main
    start         \* history: the data as the inits leave them

vars == <<build, pc, res, heap, loc, iter, verdict, start>>

NUM_ALGORITHMS == 3

\* The seeds used, with the defaults for the short forms.
Seeds(b) ==
    IF b.seed2 = 0 /\ b.seed3 = 0 /\ b.seed1 \in {0, 1}
    THEN LET s == IF b.seed1 = 0 THEN 0 ELSE 13333 IN <<s, s, 102>>   \* 0x3415, 0x66
    ELSE <<b.seed1, b.seed2, b.seed3>>

\* The local variables as a call of core_bench_list finds them.
Call(finder_idx, list) ==
    [finder_idx |-> finder_idx, list |-> list, i |-> 0, idx |-> finder_idx,
     found |-> 0, missed |-> 0, retval |-> 0, remover |-> 0]

Init ==
    /\ build \in Builds
    /\ pc = "main" /\ iter = 0
    /\ res = <<>> /\ heap = <<>> /\ loc = <<>> /\ start = <<>>
    /\ verdict = [known_id |-> -1, total_errors |-> 0]

\* main up to the first call of core_bench_list, iterate's resets included.
Setup ==
    LET s    == Seeds(build)
        size == build.total \div NUM_ALGORITHMS
        mat  == core_init_matrix(size, s[1] + s[2] * 65536)
        mem  == core_init_state(size, s[1])
    IN  /\ pc = "main"
        /\ \E l \in {core_list_init(size, s[1])} :
              /\ heap' = l.heap
              /\ res' = [seed1 |-> s[1], seed2 |-> s[2], seed3 |-> s[3], size |-> size,
                         iterations |-> build.iterations, list |-> l.list, mat |-> mat,
                         mem |-> mem, crc |-> 0, crclist |-> 0, crcmatrix |-> 0, crcstate |-> 0]
              /\ start' = [heap |-> l.heap, mat |-> mat, mem |-> mem]
              /\ loc' = Call(1, l.list)
        /\ pc' = "find"
        /\ UNCHANGED <<build, iter, verdict>>

\* One round of the find loop: look for a value, reverse the list, and move
\* the item behind the one found to the place behind the head.
Moved_linked(next, list, this_find) ==
    LET finder == next[this_find]
    IN  IF finder = 0 THEN next ELSE [next EXCEPT ![finder] = next[list], ![list] = finder]
Moved(next, list, this_find) ==
    LET finder == next[this_find]
        cut    == [next EXCEPT ![this_find] = next[finder]]
    IN  IF finder = 0 THEN next
        ELSE [cut EXCEPT ![finder] = cut[list], ![list] = finder]

Bit(data16, n) == (data16 \div 2^n) % 2

Find ==
    LET this_find == core_list_find(heap, loc.list, loc.idx, loc.i % 256)
        r         == core_list_reverse(heap.next, loc.list)
        data(k)   == heap.data[heap.info[k]]
        hit       == this_find # 0
        gain      == IF ~hit THEN Bit(data(r.next[r.list]), 8)
                     ELSE IF data(this_find) % 2 = 1 THEN Bit(data(this_find), 9) ELSE 0
    IN  /\ pc = "find" /\ loc.i < res.seed3
        /\ heap' = [heap EXCEPT !.next = IF hit THEN Moved(r.next, r.list, this_find) ELSE r.next]
        /\ loc' = [loc EXCEPT !.list = r.list, !.i = @ + 1,
                              !.found = IF hit THEN @ + 1 ELSE @,
                              !.missed = IF hit THEN @ ELSE @ + 1,
                              !.retval = U16(@ + gain),
                              !.idx = IF @ >= 0 THEN @ + 1 ELSE @]
        /\ UNCHANGED <<build, pc, res, iter, verdict, start>>

\* The loop ends; the first call sorts the list by the computed values.
Sort ==
    LET retval == U16(loc.retval + loc.found * 4 - loc.missed)
    IN  /\ pc = "find" /\ loc.i >= res.seed3
        /\ IF loc.finder_idx > 0
           THEN \E m \in {core_list_mergesort(heap, loc.list, "complex", res)} :
                   /\ heap' = m.heap /\ res' = m.res
                   /\ loc' = [loc EXCEPT !.list = m.list, !.retval = retval]
           ELSE /\ loc' = [loc EXCEPT !.retval = retval]
                /\ UNCHANGED <<heap, res>>
        /\ pc' = "remove"
        /\ UNCHANGED <<build, iter, verdict, start>>

RemoveOne ==
    /\ pc = "remove"
    /\ heap' = core_list_remove(heap, heap.next[loc.list])
    /\ loc' = [loc EXCEPT !.remover = heap.next[heap.next[loc.list]]]
    /\ pc' = "undo"
    /\ UNCHANGED <<build, res, iter, verdict, start>>

\* The check sum of the head's data, once for every item of the list from
\* finder on.
CrcItems(h, list, finder, retval) ==
    LET sum[n \in Nat, crc \in Nat] ==
            IF n = 0 THEN crc ELSE sum[n - 1, crc16(h.data[h.info[list]], crc)]
    IN  sum[Len(Path(h.next, finder)), retval]

Undo ==
    LET hit    == core_list_find(heap, loc.list, loc.idx, (loc.i - 1) % 256)
        finder == IF hit = 0 THEN heap.next[loc.list] ELSE hit
    IN  /\ pc = "undo"
        /\ loc' = [loc EXCEPT !.retval = CrcItems(heap, loc.list, finder, @)]
        /\ heap' = core_list_undo_remove(heap, loc.remover, heap.next[loc.list])
        /\ pc' = "resort"
        /\ UNCHANGED <<build, res, iter, verdict, start>>

\* The list is sorted by index, core_bench_list returns, iterate goes on.
Resort ==
    LET second == loc.finder_idx < 0
    IN  /\ pc = "resort"
        /\ \E m \in {core_list_mergesort(heap, loc.list, "idx", res)} :
           \E crc \in {crcu16(CrcItems(m.heap, m.list, m.heap.next[m.list], loc.retval), res.crc)} :
              /\ heap' = m.heap
              /\ res' = [res EXCEPT !.crc = crc, !.crclist = IF second /\ iter = 0 THEN crc ELSE @]
        /\ iter' = IF second THEN iter + 1 ELSE iter
        /\ loc' = Call(IF second THEN 1 ELSE -1, res.list)
        /\ pc' = IF iter' = res.iterations THEN "report" ELSE "find"
        /\ UNCHANGED <<build, verdict, start>>

list_known_crc   == <<54448, 13120, 27257, 59156, 58305>>  \* d4b0 3340 6a79 e714 e3c1
matrix_known_crc == <<48722, 4505, 22024, 8151, 1863>>     \* be52 1199 5608 1fd7 0747
state_known_crc  == <<24135, 14783, 58788, 36410, 36228>>  \* 5e47 39bf e5a4 8e3a 8d84
seed_known_crc   == <<35330, 31493, 20143, 59893, 6386>>   \* 8a02 7b05 4eaf e9f5 18f2

Report ==
    LET seedcrc == crc16(res.size, crc16(res.seed3, crc16(res.seed2, crc16(res.seed1, 0))))
        known   == {k \in DOMAIN seed_known_crc : seed_known_crc[k] = seedcrc}
        k       == CHOOSE k \in known : TRUE
        err     == IF known = {} THEN -1
                   ELSE One(res.crclist # list_known_crc[k])
                        + One(res.crcmatrix # matrix_known_crc[k])
                        + One(res.crcstate # state_known_crc[k])
    IN  /\ pc = "report"
        /\ verdict' = [known_id |-> IF known = {} THEN -1 ELSE k - 1,
                       total_errors |-> err + check_data_types(ee_types)]
        /\ pc' = "done"
        /\ UNCHANGED <<build, res, heap, loc, iter, start>>

\* main has returned.
Done == pc = "done" /\ UNCHANGED vars

Next == Setup \/ Find \/ Sort \/ RemoveOne \/ Undo \/ Resort \/ Report \/ Done
Spec == Init /\ [][Next]_vars
-----------------------------------------------------------------------------
\* Where no call of core_bench_list is under way: every input should be as
\* the inits left it.
Between == pc = "report" \/ (pc = "find" /\ loc.i = 0)

\* Only the head has index 0; all indexes differ.
HeadFirst   == \A k \in DOMAIN start.heap.idx \ {1} : start.heap.idx[k] > 0
IdxDistinct == IsInjective(start.heap.idx)

\* While a call runs, the list from its head visits every item exactly once
\* (but for the one removed, whose next pointer is NULL), and no two items
\* share a data item: neither the reversal and relinking of the find loop
\* nor the in-place sort loses, repeats or ties up items in a cycle.
ListIntact ==
    pc \in {"find", "remove", "undo", "resort"} /\ HeadFirst =>
        LET s    == Path(heap.next, loc.list)
            gone == IF pc = "undo" THEN {loc.remover} ELSE {}
        IN  /\ IsInjective(s)
            /\ Range(s) = DOMAIN heap.next \ gone
            /\ IsInjective(heap.info)

\* core_list_join.c:130: "At the end of this function, the list is back to
\* original state".  True of the order, the pointers and the data, as long
\* as no two items have the same index.
ListRestored == Between /\ IdxDistinct => heap = start.heap /\ res.list = 1

\* Matrix A is back to its contents (core_matrix.c:115), and the state
\* memory too (core_state.c:87) when both seeds are equal, unless the
\* corruption makes a comma of a byte, which the undo pass then skips.
InputsRestored ==
    Between =>
        /\ res.mat = start.mat
        /\ \/ res.seed1 # res.seed2
           \/ \E k \in DOMAIN start.mem : start.mem[k] ^^ (res.seed1 % 256) = Comma
           \/ res.mem = start.mem

\* The corrupted text still ends inside the state memory, with every step
\* calc_func can pass, so that the second scan stays inside too.
ScanInside ==
    pc = "find" /\ loc.i = 0 =>
        \A step \in {34} \cup {17 * d : d \in 3 .. 15} :
            \E k \in DOMAIN res.mem : Corrupt(res.mem, res.seed1, step)[k] = 0

\* A run with the parameters that core_main.c lists is recognised by its
\* seeds and finds the three check sums that are known for it.
Standard == {<<0, 0, 102, 666>>, <<13333, 13333, 102, 666>>, <<8, 8, 8, 400>>}
Validated ==
    pc = "done" => (<<res.seed1, res.seed2, res.seed3, res.size>> \in Standard
                       <=> verdict.known_id >= 0 /\ verdict.total_errors = 0)

\* Both sorts are stable: the items come out in the order of their keys, and
\* items with equal keys in the order in which they went in.
PosIn(s, k) == CHOOSE j \in DOMAIN s : s[j] = k
SortedFrom(s, t, key(_)) ==
    /\ Range(s) = Range(t) /\ Len(s) = Len(t)
    /\ \A j, k \in DOMAIN t : j < k =>
          \/ key(t[j]) < key(t[k])
          \/ key(t[j]) = key(t[k]) /\ PosIn(s, t[j]) < PosIn(s, t[k])
SortsStable ==
    [][/\ pc = "find" /\ pc' = "remove" /\ loc.finder_idx > 0 =>
             SortedFrom(Path(heap.next, loc.list), Path(heap'.next, loc'.list),
                        LAMBDA k : heap'.data[heap'.info[k]] % 128)
       /\ pc = "resort" =>
             LET t == Path(heap'.next, 1)
             IN  HeadFirst => SortedFrom(Path(heap.next, loc.list), t,
                                         LAMBDA k : heap'.idx[heap'.info[k]])]_vars
=============================================================================
