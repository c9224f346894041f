----------------------------- MODULE CoreMatrix -----------------------------
(***************************************************************************)
(* The matrix benchmark, src/software/app/CoreMark/src/core_matrix.c.  A   *)
(* matrix is a function on the index i * N + j.  The result matrix C is    *)
(* written by matrix_mul_const before it is read, so that nothing of it    *)
(* lives longer than one matrix_test: it is a local value here.            *)
(***************************************************************************)
EXTENDS CoreUtil

Cells(N) == 0 .. N * N - 1

\* The dimension: the largest N with two matrices of N * N results in the block.
MatDim(blksize) == (CHOOSE i \in 1 .. blksize : /\ 8 * i * i >= blksize
                                                /\ 8 * (i - 1) * (i - 1) < blksize) - 1

\* seed before cell c is filled is seeds[c]; order is c + 1 there.
core_init_matrix(blksize, seed) ==
    LET N == MatDim(blksize)
        seeds[c \in Cells(N)] ==
            ((c + 1) * (IF c > 0 THEN seeds[c - 1] ELSE IF seed = 0 THEN 1 ELSE seed)) % 65536
        B == [c \in Cells(N) |-> S16(seeds[c] + c + 1)]
    IN  [N |-> N, B |-> B, A |-> [c \in Cells(N) |-> (B[c] + c + 1) % 256]]

matrix_add_const(A, val) == [c \in DOMAIN A |-> S16(A[c] + val)]
matrix_mul_const(A, val) == [c \in DOMAIN A |-> A[c] * val]

\* Sum of f over 0 .. n - 1.
SumTo(f, n) == LET s[k \in 0 .. n] == IF k = 0 THEN 0 ELSE Add32(s[k - 1], f[k - 1]) IN s[n]

\* The product of A with the first row of B goes to the first row of C.
matrix_mul_vect(N, C, A, B) ==
    [c \in DOMAIN C |->
        IF c < N THEN SumTo([j \in 0 .. N - 1 |-> A[c * N + j] * B[j]], N) ELSE C[c]]

MulWith(N, A, B, F(_)) ==
    [c \in Cells(N) |->
        SumTo([k \in 0 .. N - 1 |-> F(A[(c \div N) * N + k] * B[k * N + (c % N)])], N)]

\* bit_extract(x, 2, 4) * bit_extract(x, 5, 7)
BitExtract(x) == ((x \div 4) % 16) * ((x \div 32) % 128)

matrix_mul_matrix(N, A, B)            == MulWith(N, A, B, LAMBDA x : x)
matrix_mul_matrix_bitextract(N, A, B) == MulWith(N, A, B, BitExtract)

\* From cell c on: tmp is the sum since the last reset, ret the result so far.
matrix_sum(C, clipval) ==
    LET from[c \in Nat, tmp \in Int, ret \in Int] ==
            IF c \notin DOMAIN C THEN ret
            ELSE IF Add32(tmp, C[c]) > clipval THEN from[c + 1, 0, S16(ret + 10)]
            ELSE from[c + 1, Add32(tmp, C[c]),
                      IF C[c] > (IF c = 0 THEN 0 ELSE C[c - 1]) THEN S16(ret + 1) ELSE ret]
    IN  from[0, 0, 0]

\* The check sum of the four products, and the matrix A left behind.
matrix_test(m, val) ==
    LET clipval == S16(61440 + val)                       \* 0xf000 | val
        A  == matrix_add_const(m.A, val)
        c1 == matrix_mul_const(A, val)
        c2 == matrix_mul_vect(m.N, c1, A, m.B)
        s1 == crc16(matrix_sum(c1, clipval), 0)
        s2 == crc16(matrix_sum(c2, clipval), s1)
        s3 == crc16(matrix_sum(matrix_mul_matrix(m.N, A, m.B), clipval), s2)
        s4 == crc16(matrix_sum(matrix_mul_matrix_bitextract(m.N, A, m.B), clipval), s3)
    IN  [crc |-> s4, A |-> matrix_add_const(A, -val)]

\* The check sum and the matrix that core_bench_matrix leaves, from those of
\* its matrix_test.
core_bench_matrix_added(m, seed, crc) ==
    [crc |-> crc16(matrix_test(m, seed).crc, crc), A |-> matrix_add_const(m.A, seed)]
core_bench_matrix(m, seed, crc) ==
    LET with(t) == [crc |-> crc16(t.crc, crc), A |-> t.A] IN with(matrix_test(m, seed))
=============================================================================
