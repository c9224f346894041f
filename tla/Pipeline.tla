------------------------------ MODULE Pipeline ------------------------------
(***************************************************************************)
(* The bypass and stall network of the core: operand read and output       *)
(* registers of src/design/core/uv_idu.v, the execution unit uv_exu.v with *)
(* its divider uv_div.v and multiplier uv_mul.v, the write-back path of    *)
(* uv_lsu.v, the register file uv_regfile.v.                               *)
(*                                                                         *)
(* A state is a settled clock cycle, a step the clock edge that ends it.   *)
(* The network moves values and never looks at them, so a value is a bit,  *)
(* which each instruction that computes one brings along.  The bits change *)
(* once, at any time, from FALSE to TRUE (newer): this tells an older from *)
(* a newer value, whichever two are confused.                              *)
(* One register that an instruction reads is followed (src, 0 for none:    *)
(* the two ALU operands have paths of the same shape), the other one       *)
(* (src2) only stalls; it writes one (rd, 0 for none). CSR instructions    *)
(* write one CSR, and read it unless rd = 0. How a load treats rd = 0, and *)
(* exceptions found before the last stage, are in module BackEnd.          *)
(*                                                                         *)
(* The environment is the fetch unit, which offers an instruction until it *)
(* is taken or flushed; a memory that may refuse a request and answers one *)
(* in the next cycle, like the memory of module BackEnd; and a commit unit *)
(* that may trap at any instruction.                                       *)
(***************************************************************************)
EXTENDS Naturals, Sequences

CONSTANTS Programs, \* sets of instructions: a program is made of those of one set
          MulStage, \* pipeline stages of the multiplier
          DivCycles \* cycles the divider is busy

Kinds == {"alu", "br", "jalr", "load", "store", "mul", "div", "div0", "csr"}
Regs  == {1, 2}
\* v: the value it computes, loads or has as immediate; mis: mispredicted.
Insts == [kind : Kinds, src : Regs \cup {0}, src2 : Regs \cup {0}, rd : Regs \cup {0},
          v : BOOLEAN, mis : BOOLEAN]

ASSUME ProgramAssumption ==
    /\ Programs \subseteq SUBSET Insts
    /\ \A i \in UNION Programs :
         /\ i.kind \in {"br", "store"} => i.rd = 0
         /\ i.kind \in {"load", "mul", "div", "div0"} => i.rd # 0
         /\ i.mis => i.kind \in {"br", "jalr"}
         /\ i.kind \in {"load", "jalr", "csr"} => i.src2 = 0
ASSUME UnitAssumption == MulStage \in Nat \ {0} /\ DivCycles \in Nat \ {0}

NoInst == [kind |-> "none", src |-> 0, src2 |-> 0, rd |-> 0, v |-> FALSE, mis |-> FALSE]

VARIABLES
    program,        \* the set of instructions of this behaviour
    if2id,          \* input: the instruction the IFU offers, or NoInst
    req_rdy,        \* input: ls2mem_req_rdy
    trap,           \* input: the trap taken at the instruction that commits
    id2ex_vld_r,    \* IDU register: an instruction is in the output registers
    id,             \* IDU registers: the instruction and its operand
    id2ex_fire_p,   \* EXU register: an instruction was taken from the IDU
    id2ex_init_p,   \* EXU register: none was offered
    id2ex_r,        \* EXU registers id2ex_*_r: the copy of its input
    src_r,          \* EXU register src_alu_opa_r (src_alu_opb_r)
    ls2ex_fw_r,     \* EXU registers ls2ex_fw_vld_r, ls2ex_fw_idx_r, ls2ex_fw_data_r
    ex2ex_fw_r,     \* EXU registers ex2ex_fw_vld_r, ...
    ex_stall_p, ls_stall_p, ls_stall_vld_r, cs_stall_p, cs_stall_vld_r, \* EXU registers
    mul_req_r, div_req_r, \* EXU registers: a multiplication, a division is requested
    mul_pipe,       \* multiplier: its stages
    div,            \* divider: busy_r, busy_p, div_cnt_r and the result
    ex2ls_vld_r,    \* EXU register: an instruction is in the output registers
    ex,             \* EXU output registers
    bjp_mis_r,      \* EXU register: a misprediction was found
    ex2ls_fire_p,   \* EXU and LSU register: the LSU took an instruction
    ex2ls_init_p,   \* EXU and LSU register: none was offered to it
    ex2ls_r,        \* LSU registers ex2ls_*_r: the copy of its input
    mem_ld_req_r,   \* LSU register: a load waits for its answer
    rsp_data,       \* input: the answer
    mem_ld_data_r,  \* LSU register: the last data loaded
    ls,             \* LSU registers of the last stage
    trap_flush,     \* CMT register
    rf,             \* the register file
    csr,            \* the CSR
    ref,            \* history: the registers after the instructions executed so far
    refc,           \* history: the CSR after them
    overlap,        \* history: the last request to the multiplier or divider met a busy unit
    newer           \* history: the values computed are the newer ones

invars  == <<program, if2id, req_rdy, trap>>
idvars  == <<id2ex_vld_r, id>>
bufvars == <<id2ex_fire_p, id2ex_init_p, id2ex_r, src_r, ls2ex_fw_r, ex2ex_fw_r>>
stvars  == <<ex_stall_p, ls_stall_p, ls_stall_vld_r, cs_stall_p, cs_stall_vld_r>>
mdvars  == <<mul_req_r, div_req_r, mul_pipe, div>>
exvars  == <<ex2ls_vld_r, ex, bjp_mis_r>>
lsvars  == <<ex2ls_fire_p, ex2ls_init_p, ex2ls_r, mem_ld_req_r, rsp_data, mem_ld_data_r, ls>>
vars    == <<invars, idvars, bufvars, stvars, mdvars, exvars, lsvars, trap_flush, rf, csr, ref, refc, overlap, newer>>

NoId == [inst |-> NoInst, opd |-> FALSE]
NoFw == [vld |-> FALSE, idx |-> 0, data |-> FALSE]
NoEx == [kind |-> "none", rs2_idx |-> 0, wb_act |-> FALSE, wb_idx |-> 0, wb_vld |-> FALSE,
         wb_data |-> FALSE, ld_data |-> FALSE, st_data |-> FALSE, st_ref |-> FALSE,
         csr_vld |-> FALSE, csr_data |-> FALSE]
NoLs == [vld |-> FALSE, wb_vld |-> FALSE, wb_idx |-> 0, wb_data |-> FALSE,
         csr_vld |-> FALSE, csr_data |-> FALSE]
\* Of an instruction that is in the program with both values, one is fetched.
Fetch(v) == {NoInst} \cup {i \in program : [i EXCEPT !.v = v] \in program => i.v = v}

Init ==
    /\ program \in Programs
    /\ if2id \in Fetch(FALSE) /\ req_rdy = TRUE /\ trap = "none"
    /\ id2ex_vld_r = FALSE /\ id = NoId
    /\ id2ex_fire_p = FALSE /\ id2ex_init_p = TRUE /\ id2ex_r = NoId /\ src_r = FALSE
    /\ ls2ex_fw_r = NoFw /\ ex2ex_fw_r = NoFw
    /\ ex_stall_p = FALSE /\ ls_stall_p = FALSE /\ ls_stall_vld_r = FALSE
    /\ cs_stall_p = <<FALSE, FALSE, FALSE>> /\ cs_stall_vld_r = FALSE
    /\ mul_req_r = FALSE /\ div_req_r = FALSE
    /\ mul_pipe = [i \in 1 .. MulStage |-> [vld |-> FALSE, res |-> FALSE]]
    /\ div = [busy_r |-> FALSE, busy_p |-> FALSE, cnt |-> 0, res |-> FALSE]
    /\ ex2ls_vld_r = FALSE /\ ex = NoEx /\ bjp_mis_r = FALSE
    /\ ex2ls_fire_p = FALSE /\ ex2ls_init_p = TRUE /\ ex2ls_r = NoEx
    /\ mem_ld_req_r = FALSE /\ rsp_data = FALSE /\ mem_ld_data_r = FALSE /\ ls = NoLs
    /\ trap_flush = FALSE
    /\ rf = [r \in Regs |-> FALSE] /\ csr = FALSE
    /\ ref = [r \in Regs |-> FALSE] /\ refc = FALSE /\ overlap = FALSE /\ newer = FALSE

-----------------------------------------------------------------------------
\* LSU, combinational.
ex2ls_vld == /\ ex2ls_vld_r /\ ~trap_flush /\ ~ex_stall_p /\ ~ls_stall_p
             /\ \A i \in DOMAIN cs_stall_p : ~cs_stall_p[i]
ex2ls_real == ex2ls_fire_p \/ ex2ls_init_p
ls_pipe    == IF ex2ls_real THEN ex ELSE ex2ls_r

ls2mem_req_vld == ex2ls_vld /\ ls_pipe.kind \in {"load", "store"}
mem_req_fire   == ls2mem_req_vld /\ req_rdy
ex2ls_rdy      == ~(ls2mem_req_vld /\ ~req_rdy)
ex2ls_fire     == ex2ls_vld /\ ex2ls_rdy

wb_vld_NotFlushed == ls.wb_vld \/ mem_ld_req_r
wb_vld  == (ls.wb_vld \/ mem_ld_req_r) /\ ~trap_flush
wb_data == IF ls.wb_vld THEN ls.wb_data ELSE IF mem_ld_req_r THEN rsp_data ELSE mem_ld_data_r

st_rs2_frm_wb   == ls_pipe.kind = "store" /\ wb_vld /\ ex.rs2_idx = ls.wb_idx
ls2mem_req_data == IF st_rs2_frm_wb THEN wb_data ELSE ls_pipe.st_data

\* CMT, combinational.  A CSR write is not suppressed by a flush (BackEnd).
ls2cm_vld     == ls.vld /\ ~trap_flush
cm2rf_wb_vld  == wb_vld /\ trap # "excp"
cm2cs_csr_vld == ls.csr_vld /\ trap # "excp"

-----------------------------------------------------------------------------
\* EXU, combinational: its input,
pipe_flush  == bjp_mis_r \/ trap_flush
id2ex_vld   == id2ex_vld_r /\ ~pipe_flush
id2ex_real  == id2ex_fire_p \/ id2ex_init_p
pipe        == IF id2ex_real THEN id ELSE id2ex_r
inst        == pipe.inst
csr_rd      == inst.kind = "csr" /\ inst.rd # 0

\* the results of the instructions ahead,
ls_fw == IF ex2ls_real THEN [vld |-> wb_vld, idx |-> ls.wb_idx, data |-> wb_data] ELSE ls2ex_fw_r
ex_fw == IF ex2ls_real THEN [vld |-> ex.wb_vld, idx |-> ex.wb_idx, data |-> ex.wb_data] ELSE ex2ex_fw_r
fw_rs_frm_exu == ex_fw.vld /\ inst.src # 0 /\ ex_fw.idx = inst.src
fw_rs_frm_lsu == ls_fw.vld /\ inst.src # 0 /\ ls_fw.idx = inst.src
Bypassed(frm_exu, frm_lsu, frm_idu) ==
    IF fw_rs_frm_exu THEN frm_exu ELSE IF fw_rs_frm_lsu THEN frm_lsu ELSE frm_idu

\* the operands (a CSR immediate has src = 0 and is not bypassed),
calc_op     == Bypassed(ex_fw.data, ls_fw.data, IF id2ex_real THEN id.opd ELSE src_r)
bjp_base    == Bypassed(ex_fw.data, ls_fw.data, pipe.opd)
st_data_NoLsu == IF fw_rs_frm_exu THEN ex.wb_data ELSE pipe.opd
st_data     == Bypassed(ex.wb_data, wb_data, pipe.opd)
csr_rs_data == Bypassed(ex.wb_data, wb_data, pipe.opd)
csr_rd_data_NoLsu == IF ex.csr_vld THEN ex.csr_data ELSE csr
csr_rd_data == IF ex.csr_vld THEN ex.csr_data ELSE IF ls.csr_vld THEN ls.csr_data ELSE csr

\* the stalls,
ls_stall_vld_OneOperand == ex2ls_vld /\ ex.kind = "load" /\ ex.wb_act /\ ex.wb_idx = inst.src2
ls_stall_vld == ex2ls_vld /\ ex.kind = "load" /\ ex.wb_act /\ ex.wb_idx \in {inst.src, inst.src2}
cs_stall_vld == ex2ls_vld /\ ex.csr_vld /\ csr_rd
ls_stall     == (ls_stall_vld \/ ls_stall_vld_r) /\ ex2ls_rdy
cs_stall     == (cs_stall_vld \/ cs_stall_vld_r) /\ ex2ls_rdy
cs_stall_nxt == <<cs_stall, cs_stall_p[1], cs_stall_p[2]>>
cs_stalled   == \E i \in DOMAIN cs_stall_nxt : cs_stall_nxt[i]
pipe_start   == id2ex_vld /\ ex2ls_rdy /\ ~ls_stall /\ ~cs_stalled

mul_start   == pipe_start /\ inst.kind = "mul"
div_start   == pipe_start /\ inst.kind \in {"div", "div0"}
mul_req_vld == mul_start /\ ~mul_req_r
div_req_vld == div_start /\ ~div_req_r
dvs_zero    == div_req_vld /\ inst.kind = "div0"
mul_rsp_vld == mul_pipe[MulStage].vld
mul_rsp_res == mul_pipe[MulStage].res
div_rsp_vld_NotBusy == dvs_zero \/ ~div.busy_r
div_rsp_vld == dvs_zero \/ (~div.busy_r /\ div.busy_p)
div_rsp_res == IF dvs_zero THEN inst.v ELSE div.res
ex_stall    == \/ (mul_req_vld \/ mul_req_r) /\ ~mul_rsp_vld
               \/ (div_req_vld \/ div_req_r) /\ ~div_rsp_vld

pipe_stall == ls_stall \/ ex_stall \/ cs_stalled
pipe_nxt   == id2ex_vld /\ ~pipe_stall
id2ex_rdy  == ex2ls_rdy /\ ~pipe_stall
id2ex_fire == id2ex_vld /\ id2ex_rdy
bjp_mis    == id2ex_fire /\ inst.mis

\* (a unit may still be at work for an instruction that was flushed)
Overlap == IF mul_req_vld THEN \E i \in 1 .. MulStage : mul_pipe[i].vld
           ELSE IF div_req_vld THEN div.busy_r \/ div.busy_p
           ELSE overlap

\* and the result of all instructions but loads.
ex_wb_data == CASE csr_rd -> csr_rd_data
                [] inst.kind = "mul" -> mul_rsp_res
                [] inst.kind \in {"div", "div0"} -> div_rsp_res
                [] OTHER -> inst.v

-----------------------------------------------------------------------------
\* IDU: operands are read in every cycle, from the EXU and LSU output
\* registers or the register file; the output registers are loaded even when
\* the EXU is not ready for the instruction that is in them.
Rs_data(r) ==
    CASE r = 0 -> if2id.v
      [] r # 0 /\ ex.wb_vld /\ ex.wb_idx = r -> ex.wb_data
      [] r # 0 /\ ~(ex.wb_vld /\ ex.wb_idx = r) /\ wb_vld /\ ls.wb_idx = r -> wb_data
      [] OTHER -> rf[r]
UpdateIdu ==
    LET id_pre == if2id # NoInst /\ ~pipe_flush
    IN  /\ id2ex_vld_r' = IF id_pre THEN TRUE ELSE id2ex_vld_r /\ ~(id2ex_rdy \/ pipe_flush)
        /\ id' = IF id_pre THEN [inst |-> if2id, opd |-> Rs_data(if2id.src)] ELSE id

\* EXU and LSU, registers: the handshakes,
UpdateHandshake ==
    /\ id2ex_fire_p' = id2ex_fire
    /\ id2ex_init_p' = ~id2ex_vld
    /\ ex2ls_fire_p' = ex2ls_fire
    /\ ex2ls_init_p' = ~ex2ls_vld

\* the copies of what may change while the EXU waits (of a copy that is going
\* to be replaced before it is looked at, the model keeps nothing),
UpdateBuffers ==
    /\ id2ex_r' = IF id2ex_real' THEN NoId ELSE pipe
    /\ src_r' = (~id2ex_real' /\ calc_op)
    /\ ls2ex_fw_r' = IF ex2ls_real' THEN NoFw ELSE ls_fw
    /\ ex2ex_fw_r' = IF ex2ls_real' THEN NoFw ELSE ex_fw

\* the stalls,
UpdateStalls ==
    /\ ex_stall_p' = (ex_stall /\ ~pipe_flush)
    /\ ls_stall_p' = (ls_stall /\ ~pipe_flush)
    /\ ls_stall_vld_r' = IF ex2ls_rdy THEN FALSE ELSE ls_stall_vld \/ ls_stall_vld_r
    /\ cs_stall_p' = IF pipe_flush THEN <<FALSE, FALSE, FALSE>> ELSE cs_stall_nxt
    /\ cs_stall_vld_r' = IF ex2ls_rdy THEN FALSE ELSE cs_stall_vld \/ cs_stall_vld_r

\* the requests to the multiplier and the divider,
UpdateRequests_StartFirst ==
    /\ mul_req_r' = (~pipe_flush /\ (mul_start \/ (mul_req_r /\ ~mul_rsp_vld)))
    /\ div_req_r' = (~pipe_flush /\ (div_start \/ (div_req_r /\ ~div_rsp_vld)))
UpdateRequests ==
    /\ mul_req_r' = (~pipe_flush /\ ~mul_rsp_vld /\ (mul_start \/ mul_req_r))
    /\ div_req_r' = (~pipe_flush /\ ~div_rsp_vld /\ (div_start \/ div_req_r))

\* the units themselves, which know nothing of a flush.  A request to a busy
\* divider changes the divisor under way: the result is arbitrary.  The count
\* and the result are kept while they are used.
div_end == div.cnt = DivCycles - 1
UpdateUnits ==
    /\ mul_pipe' = [i \in 1 .. MulStage |->
                      IF i = 1 THEN [vld |-> mul_req_vld, res |-> mul_req_vld /\ inst.v]
                      ELSE mul_pipe[i - 1]]
    /\ LET start == div_req_vld /\ ~dvs_zero
       IN  \E any \in IF div.busy_r /\ start THEN BOOLEAN ELSE {FALSE} :
             div' = [busy_r |-> IF div.busy_r /\ div_end THEN FALSE ELSE div.busy_r \/ start,
                     busy_p |-> div.busy_r,
                     cnt    |-> IF div.busy_r /\ ~div_end THEN div.cnt + 1 ELSE 0,
                     res    |-> IF div.busy_r /\ start THEN any
                                ELSE IF start THEN inst.v ELSE div.busy_r /\ div.res]

\* the output,
op_ldst == inst.kind \in {"load", "store"}
UpdateEx ==
    /\ ex2ls_vld_r' = IF id2ex_vld THEN TRUE ELSE ex2ls_vld_r /\ ~(ex2ls_rdy \/ pipe_flush)
    /\ bjp_mis_r' = bjp_mis
    /\ ex' = IF pipe_nxt
             THEN [kind     |-> IF op_ldst THEN inst.kind ELSE "other",
                   rs2_idx  |-> inst.src,
                   wb_act   |-> inst.rd # 0,
                   wb_idx   |-> IF inst.rd # 0 THEN inst.rd ELSE ex.wb_idx,
                   wb_vld   |-> inst.rd # 0 /\ ~op_ldst,
                   wb_data  |-> IF inst.rd # 0 /\ ~op_ldst THEN ex_wb_data ELSE ex.wb_data,
                   ld_data  |-> inst.kind = "load" /\ inst.v,
                   st_data  |-> IF inst.kind = "store" THEN st_data ELSE ex.st_data,
                   st_ref   |-> inst.kind = "store" /\ inst.src # 0 /\ ref[inst.src],
                   csr_vld  |-> inst.kind = "csr",
                   csr_data |-> csr_rs_data]
             ELSE [ex EXCEPT !.wb_vld = FALSE, !.csr_vld = FALSE]

\* LSU, registers.
UpdateLsu ==
    /\ ex2ls_r' = IF ex2ls_real' THEN NoEx ELSE ls_pipe
    /\ mem_ld_req_r' = (mem_req_fire /\ ls_pipe.kind = "load")
    /\ rsp_data' = (mem_req_fire /\ ls_pipe.ld_data)
    /\ mem_ld_data_r' = IF mem_ld_req_r THEN rsp_data ELSE mem_ld_data_r
    /\ ls' = [vld      |-> ex2ls_fire,
              wb_vld   |-> ex2ls_fire /\ ls_pipe.wb_act /\ ls_pipe.wb_vld,
              wb_data  |-> ex2ls_fire /\ ls_pipe.wb_vld /\ ls_pipe.wb_data,
              wb_idx   |-> IF ex2ls_vld /\ ls_pipe.wb_act THEN ls_pipe.wb_idx ELSE ls.wb_idx,
              csr_vld  |-> ex2ls_fire /\ ls_pipe.csr_vld,
              csr_data |-> ex2ls_fire /\ ls_pipe.csr_vld /\ ls_pipe.csr_data]

\* The register file, the CSR and the flush.
UpdateState ==
    /\ rf' = IF cm2rf_wb_vld THEN [rf EXCEPT ![ls.wb_idx] = wb_data] ELSE rf
    /\ csr' = IF cm2cs_csr_vld THEN ls.csr_data ELSE csr
    /\ trap_flush' = (trap # "none")

\* What the program has computed: every instruction the EXU is done with
\* counts, in order; a flush takes back the ones that have not committed.
UpdateRef ==
    /\ ref' = IF trap_flush THEN rf
              ELSE IF id2ex_fire /\ inst.rd # 0
                   THEN [ref EXCEPT ![inst.rd] = IF inst.kind = "load" THEN inst.v ELSE ex_wb_data]
                   ELSE ref
    /\ overlap' = Overlap
    /\ refc' = IF trap_flush THEN csr'
               ELSE IF id2ex_fire /\ inst.kind = "csr" THEN csr_rs_data ELSE refc

Clock == /\ UpdateIdu /\ UpdateHandshake /\ UpdateBuffers /\ UpdateStalls
         /\ UpdateRequests /\ UpdateUnits
         /\ UpdateEx /\ UpdateLsu /\ UpdateState /\ UpdateRef

\* The inputs of the next cycle.  Ready is looked at under a request only.
Drive ==
    /\ UNCHANGED program
    /\ newer' \in {newer, TRUE}
    /\ if2id' \in IF if2id = NoInst \/ id2ex_rdy \/ pipe_flush THEN Fetch(newer') ELSE {if2id}
    /\ req_rdy' \in IF ls2mem_req_vld' THEN BOOLEAN ELSE {TRUE}
    /\ trap' \in IF ls2cm_vld' THEN {"none", "irq", "excp"} ELSE {"none"}

Next == Clock /\ Drive

Spec == Init /\ [][Next]_vars

-----------------------------------------------------------------------------
Bits(S) == [S -> BOOLEAN]
ExRecords == [kind : {"none", "other", "load", "store"}, rs2_idx : Regs \cup {0},
              wb_act : BOOLEAN, wb_idx : Regs \cup {0}, wb_vld : BOOLEAN, wb_data : BOOLEAN,
              ld_data : BOOLEAN, st_data : BOOLEAN, st_ref : BOOLEAN,
              csr_vld : BOOLEAN, csr_data : BOOLEAN]
ExRegs == {e \in ExRecords : e.wb_vld \/ e.kind = "load" => e.wb_act /\ e.wb_idx # 0}
LsRegs == [vld : BOOLEAN, wb_vld : BOOLEAN, wb_idx : Regs \cup {0}, wb_data : BOOLEAN,
           csr_vld : BOOLEAN, csr_data : BOOLEAN]
IdRegs == [inst : program \cup {NoInst}, opd : BOOLEAN]
FwRegs == [vld : BOOLEAN, idx : Regs \cup {0}, data : BOOLEAN]

\* The registers keep their types; what is written back has a destination,
\* and the divider stops in time.
TypeOK ==
    /\ program \in Programs /\ if2id \in program \cup {NoInst}
    /\ req_rdy \in BOOLEAN /\ trap \in {"none", "irq", "excp"}
    /\ id2ex_vld_r \in BOOLEAN /\ id \in IdRegs
    /\ id2ex_fire_p \in BOOLEAN /\ id2ex_init_p \in BOOLEAN /\ id2ex_r \in IdRegs /\ src_r \in BOOLEAN
    /\ ls2ex_fw_r \in FwRegs /\ ex2ex_fw_r \in FwRegs
    /\ ex_stall_p \in BOOLEAN /\ ls_stall_p \in BOOLEAN /\ ls_stall_vld_r \in BOOLEAN
    /\ cs_stall_p \in Bits(1 .. 3) /\ cs_stall_vld_r \in BOOLEAN
    /\ mul_req_r \in BOOLEAN /\ div_req_r \in BOOLEAN
    /\ mul_pipe \in [1 .. MulStage -> [vld : BOOLEAN, res : BOOLEAN]]
    /\ div \in [busy_r : BOOLEAN, busy_p : BOOLEAN, cnt : 0 .. DivCycles - 1, res : BOOLEAN]
    /\ ex2ls_vld_r \in BOOLEAN /\ ex \in ExRegs /\ bjp_mis_r \in BOOLEAN
    /\ ex2ls_fire_p \in BOOLEAN /\ ex2ls_init_p \in BOOLEAN /\ ex2ls_r \in ExRegs
    /\ mem_ld_req_r \in BOOLEAN /\ rsp_data \in BOOLEAN /\ mem_ld_data_r \in BOOLEAN /\ ls \in LsRegs
    /\ ls.wb_vld \/ mem_ld_req_r => ls.wb_idx # 0
    /\ trap_flush \in BOOLEAN /\ rf \in Bits(Regs) /\ csr \in BOOLEAN
    /\ ref \in Bits(Regs) /\ refc \in BOOLEAN /\ overlap \in BOOLEAN /\ newer \in BOOLEAN

\* The bypass network: the operand of an instruction that leaves the EXU, and
\* of one that starts the multiplier or the divider, is the newest value of
\* its register in program order, however many instructions and stalls lie
\* between the two, and whatever a flush in between took back.
OperandsNewest ==
    inst.src # 0 =>
        /\ id2ex_fire /\ inst.kind \in {"alu", "br", "load"} => calc_op = ref[inst.src]
        /\ id2ex_fire /\ inst.kind = "jalr" => bjp_base = ref[inst.src]
        /\ mul_req_vld \/ div_req_vld => calc_op = ref[inst.src]

\* A CSR instruction reads the newest value of the CSR, whether the last write
\* is in the EXU, in the LSU or done, and whatever a flush took back.
CsrReadNewest == id2ex_fire /\ csr_rd => csr_rd_data = refc

\* The data of a store and the source of a CSR instruction are the newest
\* value if the instruction leaves the EXU in its first cycle there and the
\* LSU took the one ahead in its first; and what the LSU bypasses on its own
\* (st_rs2_frm_wb) never makes store data wrong.
LateOperandsNewest ==
    /\ id2ex_fire /\ id2ex_real /\ ex2ls_real /\ inst.src # 0 =>
         /\ inst.kind = "store" => st_data = ref[inst.src]
         /\ inst.kind = "csr" => csr_rs_data = ref[inst.src]
    /\ mem_req_fire /\ ls_pipe.kind = "store" /\ ls_pipe.st_data = ls_pipe.st_ref =>
         ls2mem_req_data = ls_pipe.st_ref

\* Once the stages behind the EXU are empty, the register file and the CSR
\* hold what the program has computed: no result is lost, written twice out
\* of order or left over from a flushed instruction.
ResultsRetired == ~ex2ls_vld_r /\ ~ls.vld /\ ~trap_flush => rf = ref /\ csr = refc

\* An instruction that waits for the multiplier or the divider gets its own
\* result unless, at its request, the unit was at work for a flushed one.
MulDivOwn ==
    id2ex_fire /\ ~Overlap =>
        /\ inst.kind = "mul" => mul_rsp_res = inst.v
        /\ inst.kind \in {"div", "div0"} => div_rsp_res = inst.v

\* The EXU stalls for the multiplier or the divider only while that unit is
\* going to answer, also when requests overlap after a flush.
StallsEnd == /\ mul_req_r => \E i \in 1 .. MulStage : mul_pipe[i].vld
             /\ div_req_r => div.busy_r \/ div.busy_p

-----------------------------------------------------------------------------
\* "A bypass network is added to avoid pipeline hazards" (README.md): a store
\* writes the newest value of its data register.
StoreDataNewest == mem_req_fire /\ ls_pipe.kind = "store" => ls2mem_req_data = ls_pipe.st_ref
=============================================================================
