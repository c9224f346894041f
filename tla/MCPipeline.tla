----------------------------- MODULE MCPipeline -----------------------------
(* Four programs: memory accesses, jumps, multiplications and divisions,    *)
(* CSR instructions, each with producers of register 1.                     *)
EXTENDS Pipeline

\* An instruction that computes a value, and one whose value is not followed.
Value(kind, src, rd) ==
    [kind : {kind}, src : {src}, src2 : {0}, rd : {rd}, v : BOOLEAN, mis : {FALSE}]
Other(kind, src, src2, rd, mis) ==
    {[kind |-> kind, src |-> src, src2 |-> src2, rd |-> rd, v |-> FALSE, mis |-> mis]}

Producers == Value("alu", 0, 1) \cup Value("load", 0, 1)
MemoryProgram == Producers \cup Other("load", 0, 0, 2, FALSE) \cup Other("alu", 1, 2, 2, FALSE)
                 \cup Other("store", 1, 2, 0, FALSE)
JumpProgram   == Producers \cup Other("br", 1, 2, 0, FALSE) \cup Other("br", 2, 1, 0, TRUE)
                 \cup {[i EXCEPT !.mis = TRUE] : i \in Value("jalr", 1, 1)}
UnitProgram   == Other("load", 0, 0, 1, FALSE) \cup Value("mul", 1, 1) \cup Value("div", 1, 1)
                 \cup Other("div0", 1, 0, 2, FALSE) \cup Other("br", 1, 2, 0, TRUE)
CsrProgram    == Producers \cup Value("csr", 0, 0) \cup Other("csr", 1, 0, 1, FALSE)
MCPrograms == {MemoryProgram, JumpProgram, UnitProgram, CsrProgram}
=============================================================================
