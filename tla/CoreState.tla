------------------------------ MODULE CoreState ------------------------------
(***************************************************************************)
(* The state machine benchmark of CoreMark,                                *)
(* src/software/app/CoreMark/src/core_state.c: a scanner that classifies   *)
(* comma-separated numbers.  Characters are their codes; the states have   *)
(* the numbers of enum CORE_STATE, since the counts are summed in order.   *)
(***************************************************************************)
EXTENDS CoreUtil, Sequences, Bitwise

CORE_START == 0
CORE_INVALID == 1
CORE_S1 == 2
CORE_S2 == 3
CORE_INT == 4
CORE_FLOAT == 5
CORE_EXPONENT == 6
CORE_SCIENTIFIC == 7
CORE_STATE == 0 .. 7

Comma == 44
Digit == 48 .. 57
Sign  == {43, 45}
Dot   == {46}
Exp   == {69, 101}

\* The transitions the switch names; every other symbol leads to CORE_INVALID.
Edges == {<<CORE_START, Digit, CORE_INT>>, <<CORE_START, Sign, CORE_S1>>,
          <<CORE_START, Dot, CORE_FLOAT>>,
          <<CORE_S1, Digit, CORE_INT>>, <<CORE_S1, Dot, CORE_FLOAT>>,
          <<CORE_INT, Digit, CORE_INT>>, <<CORE_INT, Dot, CORE_FLOAT>>,
          <<CORE_FLOAT, Digit, CORE_FLOAT>>, <<CORE_FLOAT, Exp, CORE_S2>>,
          <<CORE_S2, Sign, CORE_EXPONENT>>,
          <<CORE_EXPONENT, Digit, CORE_SCIENTIFIC>>,
          <<CORE_SCIENTIFIC, Digit, CORE_SCIENTIFIC>>}

Targets(s, c) == {e[3] : e \in {x \in Edges : x[1] = s /\ c \in x[2]}}
NextState == [s \in CORE_STATE |-> [c \in 0 .. 255 |->
                 IF Targets(s, c) = {} THEN CORE_INVALID ELSE CHOOSE t \in Targets(s, c) : TRUE]]

\* The step from s to t counts the state it leaves; from the start and from
\* the last state of a number it counts CORE_INVALID instead or as well.
CountLeft(s, t) == s = CORE_START \/ (s # t /\ s # CORE_SCIENTIFIC)
CountInvalid_start(s, t) == t = CORE_INVALID /\ s = CORE_START
CountInvalid(s, t) == t = CORE_INVALID /\ s \in {CORE_START, CORE_SCIENTIFIC}
One(b) == IF b THEN 1 ELSE 0

\* Scanning on from str in a state: where the token ends, its state, the counts.
RECURSIVE Scan(_, _, _, _)
Scan(mem, str, state, count) ==
    IF mem[str] = 0 \/ state = CORE_INVALID THEN [str |-> str, state |-> state, count |-> count]
    ELSE IF mem[str] = Comma THEN [str |-> str + 1, state |-> state, count |-> count]
    ELSE LET next == NextState[state][mem[str]]
         IN  Scan(mem, str + 1, next, [count EXCEPT ![state] = @ + One(CountLeft(state, next)),
                                           ![CORE_INVALID] = @ + One(CountInvalid(state, next))])

core_state_transition(mem, instr, count) == Scan(mem, instr, CORE_START, count)

\* One token from s.p on: p, final_counts and track_counts after it.
Counted(s, t) ==
    [p |-> t.str, final |-> [s.final EXCEPT ![t.state] = @ + 1], track |-> t.count]

\* At most n tokens, up to the zero byte.  Halving n keeps the recursion shallow.
RECURSIVE Tokens(_, _, _)
Tokens(n, mem, s) ==
    IF mem[s.p] = 0 THEN s
    ELSE IF n = 1 THEN Counted(s, core_state_transition(mem, s.p, s.track))
    ELSE Tokens(n - (n \div 2), mem, Tokens(n \div 2, mem, s))

\* The scan from the first byte; every token has at least one byte.
ScanAll(mem, counts) == Tokens(Cardinality(DOMAIN mem), mem, [counts EXCEPT !.p = 0])

\* Every step-th byte that is not a comma is changed by the low byte of seed.
Corrupt(mem, seed, step) ==
    [k \in DOMAIN mem |-> IF k % step = 0 /\ mem[k] # Comma THEN mem[k] ^^ (seed % 256) ELSE mem[k]]

\* The final and the track count of every state go into the check sum in turn.
CrcCounts(counts, crc) ==
    LET sum[s \in Nat, c \in Nat] ==
            IF s \notin CORE_STATE THEN c
            ELSE sum[s + 1, crcu32(counts.track[s], crcu32(counts.final[s], c))]
    IN  sum[0, crc]

core_bench_state(mem, seed1, seed2, step, crc) ==
    LET zero == [s \in CORE_STATE |-> 0]
        bad  == Corrupt(mem, seed1, step)
        once == ScanAll(mem, [p |-> 0, final |-> zero, track |-> zero])
    IN  [crc |-> CrcCounts(ScanAll(bad, once), crc), mem |-> Corrupt(bad, seed2, step)]

intpat == <<<<53, 48, 49, 50>>,
            <<49, 50, 51, 52>>,
            <<45, 56, 55, 52>>,
            <<43, 49, 50, 50>>>>
floatpat == <<<<51, 53, 46, 53, 52, 52, 48, 48>>,
              <<46, 49, 50, 51, 52, 53, 48, 48>>,
              <<45, 49, 49, 48, 46, 55, 48, 48>>,
              <<43, 48, 46, 54, 52, 52, 48, 48>>>>
scipat == <<<<53, 46, 53, 48, 48, 101, 43, 51>>,
            <<45, 46, 49, 50, 51, 101, 45, 50>>,
            <<45, 56, 55, 101, 43, 56, 51, 50>>,
            <<43, 48, 46, 54, 101, 45, 49, 50>>>>
errpat == <<<<84, 48, 46, 51, 101, 45, 49, 70>>,
            <<45, 84, 46, 84, 43, 43, 84, 113>>,
            <<49, 84, 51, 46, 52, 101, 52, 122>>,
            <<51, 52, 46, 48, 101, 45, 84, 94>>>>

\* The pattern buf chosen by a seed, with the comma that ends it.
Pattern(seed) ==
    LET k == ((seed \div 8) % 4) + 1
    IN  Append(CASE (seed % 8) \in 0 .. 2 -> intpat[k]
                 [] (seed % 8) \in 3 .. 4 -> floatpat[k]
                 [] (seed % 8) \in 5 .. 6 -> scipat[k]
                 [] OTHER               -> errpat[k], Comma)

\* The text that may still grow by a pattern of n bytes: one byte is kept
\* for the zero and one more is left.
Fits_full(text, n, size) == Len(text) + n <= size
Fits(text, n, size) == Len(text) + n < size - 1

\* Patterns for as long as one fits.
RECURSIVE Patterns(_, _, _)
Patterns(size, seed, done) ==
    IF Fits(done, Len(Pattern(seed + 1)), size)
    THEN Patterns(size, seed + 1, done \o Pattern(seed + 1)) ELSE done

\* The rest of the block is filled with zeros.
core_init_state(size, seed) ==
    LET text == Patterns(size, seed, <<>>)
    IN  [k \in 0 .. size - 1 |-> IF k < Len(text) THEN text[k + 1] ELSE 0]
==============================================================================
