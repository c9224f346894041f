------------------------------ MODULE CoreList ------------------------------
(***************************************************************************)
(* The linked list of CoreMark,                                            *)
(* src/software/app/CoreMark/src/core_list_join.c.  A heap is the block of *)
(* list_head and list_data items: next and info are the pointers of each   *)
(* list_head (0 is NULL), data and idx the contents of each list_data.     *)
(***************************************************************************)
EXTENDS CoreMatrix, CoreState, SequencesExt

\* The items from l on, in the order of their next pointers; at most n.
RECURSIVE Walk(_, _, _)
Walk(next, l, n) == IF l = 0 \/ n = 0 THEN <<>> ELSE <<l>> \o Walk(next, next[l], n - 1)
Path(next, l) == Walk(next, l, Cardinality(DOMAIN next) + 1)

\* next with the items of s linked in the order of s, the last one to NULL.
Link(next, s) ==
    [k \in DOMAIN next |->
        IF k \notin Range(s) THEN next[k]
        ELSE LET j == CHOOSE j \in DOMAIN s : s[j] = k
             IN  IF j = Len(s) THEN 0 ELSE s[j + 1]]

core_list_find(h, l, idx, data16) ==
    LET s    == Path(h.next, l)
        hits == {j \in DOMAIN s : IF idx >= 0 THEN h.idx[h.info[s[j]]] = idx
                                  ELSE h.data[h.info[s[j]]] % 256 = data16}
    IN  IF hits = {} THEN 0 ELSE s[Min(hits)]

\* The head of the reversed list and its next pointers.
core_list_reverse(next, l) ==
    LET s == Reverse(Path(next, l)) IN [list |-> s[1], next |-> Link(next, s)]

\* The item after item leaves the list; their info pointers change places.
core_list_remove(h, item) ==
    LET ret == h.next[item]
    IN  [h EXCEPT !.info[item] = h.info[ret], !.info[ret] = h.info[item],
                  !.next[item] = h.next[ret], !.next[ret] = 0]

core_list_undo_remove(h, removed, modified) ==
    [h EXCEPT !.info[removed] = h.info[modified], !.info[modified] = h.info[removed],
              !.next[removed] = h.next[modified], !.next[modified] = removed]

-----------------------------------------------------------------------------
\* w is what a comparison may change: data, the contents of the data items,
\* and res, the results structure with the matrix and the state memory.

\* What a run of a benchmark returns, and the results it leaves.
StateRun(res, s) ==
    [val |-> s.crc, res |-> [res EXCEPT !.mem = s.mem, !.crcstate = IF @ = 0 THEN s.crc ELSE @]]
MatrixRun(res, m) ==
    [val |-> m.crc, res |-> [res EXCEPT !.mat.A = m.A, !.crcmatrix = IF @ = 0 THEN m.crc ELSE @]]
Run(res, data) ==
    LET dtype == ((data \div 8) % 16) * 17
    IN  CASE data % 8 = 0 -> StateRun(res, core_bench_state(res.mem, res.seed1, res.seed2,
                                             IF dtype < 34 THEN 34 ELSE dtype, res.crc))
          [] data % 8 = 1 -> MatrixRun(res, core_bench_matrix(res.mat, dtype, res.crc))
          [] OTHER -> [val |-> data, res |-> res]

\* The 7-bit value of a data item, computed by a benchmark and cached.
Cached(w, i, run) ==
    [val |-> run.val % 128,
     w   |-> [data |-> [w.data EXCEPT ![i] = (@ \div 256) * 256 + 128 + (run.val % 128)],
              res  |-> [run.res EXCEPT !.crc = crcu16(run.val, @)]]]
calc_func(w, i) ==
    IF (w.data[i] \div 128) % 2 = 1 THEN [val |-> w.data[i] % 128, w |-> w]
    ELSE Cached(w, i, Run(w.res, w.data[i]))

cmp_complex(w, a, b) ==
    LET minus(val1, v2) == [diff |-> val1 - v2.val, w |-> v2.w]
        second(v1)      == minus(v1.val, calc_func(v1.w, b))
    IN  second(calc_func(w, a))

\* The low byte of a data item restored from its backup, the high byte.
Rebuilt_cached(data16) == data16
Rebuilt(data16) == (data16 \div 256) * 257

\* Every sort by index passes NULL for res, so that the data are rebuilt.
cmp_idx(w, idx, a, b) ==
    [diff |-> idx[a] - idx[b],
     w    |-> [w EXCEPT !.data[a] = Rebuilt(@), !.data[b] = Rebuilt(@)]]

Compare(cmp, h, w, a, b) == IF cmp = "complex" THEN cmp_complex(w, a, b) ELSE cmp_idx(w, h.idx, a, b)

\* The next item of the merge comes from the first run.
FromP_strict(diff) == diff < 0
FromP(diff) == diff <= 0

\* acc is the list sorted so far, out, and w.
\* Two sorted runs p and q of items merged behind acc.out.
RECURSIVE MergeRuns(_, _, _, _, _)
MergeRuns(cmp, h, p, q, acc) ==
    LET first(s, w) == [out |-> Append(acc.out, s[1]), w |-> w]
        compared(c) == IF FromP(c.diff) THEN MergeRuns(cmp, h, Tail(p), q, first(p, c.w))
                                        ELSE MergeRuns(cmp, h, p, Tail(q), first(q, c.w))
    IN  IF p = <<>> \/ q = <<>> THEN [acc EXCEPT !.out = @ \o p \o q]
        ELSE compared(Compare(cmp, h, acc.w, h.info[p[1]], h.info[q[1]]))

\* One pass over the list s: pairs of runs of insize items are merged.
RECURSIVE MergePass(_, _, _, _, _)
MergePass(cmp, h, insize, s, acc) ==
    LET both == Min({2 * insize, Len(s)})
    IN  IF s = <<>> THEN acc
        ELSE MergePass(cmp, h, insize, SubSeq(s, both + 1, Len(s)),
                       MergeRuns(cmp, h, SubSeq(s, 1, Min({insize, Len(s)})),
                                 SubSeq(s, insize + 1, both), acc))

\* Passes with runs of twice the size, until a pass was one merge only.
RECURSIVE MergePasses(_, _, _, _)
MergePasses(cmp, h, insize, acc) ==
    IF Len(acc.out) <= insize THEN acc
    ELSE MergePasses(cmp, h, 2 * insize,
                     MergePass(cmp, h, insize, acc.out, [acc EXCEPT !.out = <<>>]))

\* The head of the sorted list, the heap and the results after the sort.
core_list_mergesort(h, l, cmp, res) ==
    LET with(m) == [list |-> m.out[1], res |-> m.w.res,
                    heap |-> [h EXCEPT !.next = Link(@, m.out), !.data = m.w.data]]
    IN  with(MergePasses(cmp, h, 1, [out |-> Path(h.next, l), w |-> [data |-> h.data, res |-> res]]))

-----------------------------------------------------------------------------
\* The list and data items the block has room for (20 bytes each, less two)
\* that core_list_insert_new gives out: it keeps one of them back.
ListSize(blksize) == (blksize \div 20) - 2
Items(blksize)    == 1 .. ListSize(blksize) - 1

\* Item 1 is the head, item 2 the fake tail, item k the one inserted with
\* i = k - 3.  Each one goes in right behind the head, so that the list
\* runs from the last one down to item 2.
ItemData(seed, i) == ((((seed ^^ i) % 16) * 8) + (i % 8)) * 257
ItemIdx(blksize, seed, i) ==
    IF i < ListSize(blksize) \div 5 THEN i
    ELSE ((((i + 1) % 8) * 256) | (i ^^ seed)) % 16384

core_list_init(blksize, seed) ==
    LET n == Cardinality(Items(blksize))
        h == [next |-> Link([k \in Items(blksize) |-> 0],
                            <<1>> \o [j \in 1 .. n - 1 |-> n + 1 - j]),
              info |-> [k \in Items(blksize) |-> k],
              data |-> [k \in Items(blksize) |->
                          CASE k = 1 -> 32896 [] k = 2 -> 65535 [] OTHER -> ItemData(seed, k - 3)],
              idx  |-> [k \in Items(blksize) |->
                          CASE k = 1 -> 0 [] k = 2 -> 32767
                            [] OTHER -> ItemIdx(blksize, seed, n + 1 - k)]]
    IN  core_list_mergesort(h, 1, "idx", <<>>)
=============================================================================
