------------------------------ MODULE BackEnd ------------------------------
(***************************************************************************)
(* The back end of the core: the load/store unit src/design/core/uv_lsu.v, *)
(* the commit unit uv_cmt.v and the interrupt enable bits of uv_csr.v.     *)
(*                                                                         *)
(* A state is a settled clock cycle, a step the clock edge that ends it.   *)
(* An instruction is its kind, which decides what the back end does with   *)
(* it, and a number that stands for its place in the program: its pc, its  *)
(* operands and its results are told apart by it.  The numbers go around   *)
(* modulo N, which is more than are ever in flight.                        *)
(*                                                                         *)
(* The environment is the execution unit, which offers an instruction      *)
(* until the LSU takes it or a trap flushes it and may meanwhile load the  *)
(* next one over it, and a memory that answers in the cycle after it took  *)
(* a request, as every slave of this SOC does (module BusToApb when pready *)
(* comes in the first access cycle; uv_sram_bus_ctrl.v).  A register that  *)
(* is only looked at under its valid bit is NoInst (trap_mepc_r: 0) while  *)
(* the bit is clear.                                                       *)
(***************************************************************************)
EXTENDS Naturals, Sequences

CONSTANT N \* instruction numbers

ASSUME NAssumption == N \in Nat /\ N > 2

Ids   == 0 .. N - 1
Kinds == {"alu", "csr", "load", "load0", "store", "excp", "mret"}
Insts == [id : Ids, kind : Kinds]

\* The content of a pipeline register after reset.
NoInst == [id |-> N, kind |-> "none"]

VARIABLES
    in,             \* inputs: ls2mem_req_rdy, ls2mem_rsp_excp, interrupt line
    ex,             \* the instruction the EXU offers, or NoInst
    live,           \* the instruction in the EXU's output registers
    nid,            \* the number of the next instruction offered
    rsp_vld,        \* the memory answers in this cycle
    rsp_own,        \* the instruction whose request it answers
    ex2ls_r,        \* LSU registers ex2ls_*_r: the copy of its input
    ex2ls_fire_p,   \* LSU register: an instruction was taken
    ex2ls_init_p,   \* LSU register: none was offered
    mem_ld_req_r,   \* LSU register: a load waits for its answer
    mem_st_req_r,   \* LSU register: a store waits for its answer
    ls2cm_vld_r,    \* LSU register: an instruction is in the last stage
    inst_non_ls_r,  \* LSU register: it is neither load nor store
    cm_r,           \* LSU registers inst_r, pc_r, trap_exit_r, ill_inst_r, ...
    wb_vld_r,       \* LSU register: a result of the EXU is written back
    wb_data_r,      \* LSU register: the instruction that computed it
    wb_idx_r,       \* LSU register: the instruction whose rd is written
    csr_r,          \* LSU registers csr_vld_r, csr_idx_r, csr_data_r
    trap_flush_r,   \* CMT register: flush the pipeline
    trap_trig_r,    \* CMT register: a trap is taken
    trap_exit_r,    \* CMT register: an mret is done
    trap_mepc_r,    \* CMT register: the instruction to come back to
    mie,            \* CSR register mstatus[3]
    mpie,           \* CSR register mstatus[7]
    inflight,       \* history: offered instructions, not retired or flushed
    touched,        \* history: those of inflight with a request on the bus
    handler         \* history: a trap was taken; no mret, no CSR write yet

exvars  == <<ex, live, nid>>
memvars == <<rsp_vld, rsp_own>>
lsuvars == <<ex2ls_r, ex2ls_fire_p, ex2ls_init_p, mem_ld_req_r, mem_st_req_r, ls2cm_vld_r,
             inst_non_ls_r, cm_r, wb_vld_r, wb_data_r, wb_idx_r, csr_r>>
cmtvars == <<trap_flush_r, trap_trig_r, trap_exit_r, trap_mepc_r>>
csrvars == <<mie, mpie>>
history == <<inflight, touched, handler>>
vars    == <<in, exvars, memvars, lsuvars, cmtvars, csrvars, history>>

Inputs == [req_rdy : BOOLEAN, rsp_excp : BOOLEAN, irq : {"none", "irq", "nmi"}]

\* What the decoder says of an instruction.  A load to x0 has no wb_act
\* ("load0"); "excp" is a CSR instruction found illegal, the kind of
\* exception that carries a result and a CSR write with it.
op_load(i)  == i.kind \in {"load", "load0"}
op_store(i) == i.kind = "store"
wb_act(i)   == i.kind \in {"alu", "csr", "load", "excp"}
wb_vld(i)   == i.kind \in {"alu", "csr", "excp"}
csr_vld(i)  == i.kind \in {"csr", "excp"}
has_excp(i) == i.kind = "excp"
op_mret(i)  == i.kind = "mret"

Init ==
    /\ in \in Inputs /\ ~in.rsp_excp
    /\ ex = NoInst /\ live = NoInst /\ nid = 0
    /\ rsp_vld = FALSE /\ rsp_own = NoInst
    /\ ex2ls_r = NoInst /\ ex2ls_fire_p = FALSE /\ ex2ls_init_p = TRUE
    /\ mem_ld_req_r = FALSE /\ mem_st_req_r = FALSE
    /\ ls2cm_vld_r = FALSE /\ inst_non_ls_r = FALSE /\ cm_r = NoInst
    /\ wb_vld_r = FALSE /\ wb_data_r = NoInst /\ wb_idx_r = NoInst /\ csr_r = NoInst
    /\ trap_flush_r = FALSE /\ trap_trig_r = FALSE /\ trap_exit_r = FALSE /\ trap_mepc_r = 0
    /\ mie = FALSE /\ mpie = TRUE
    /\ inflight = << >> /\ touched = {} /\ handler = FALSE

-----------------------------------------------------------------------------
\* LSU, combinational.
ex2ls_vld_NotFlushed == ex # NoInst
ex2ls_vld  == ex # NoInst /\ ~trap_flush_r

ex2ls_real == ex2ls_fire_p \/ ex2ls_init_p
pipe       == IF ex2ls_real THEN live ELSE ex2ls_r
pipe_nxt   == ex2ls_vld /\ ~trap_flush_r

ls2mem_req_vld == ex2ls_vld /\ ~has_excp(pipe) /\ ((wb_act(pipe) /\ op_load(pipe)) \/ op_store(pipe))
mem_req_fire == ls2mem_req_vld /\ in.req_rdy
mem_ld_fire  == mem_ld_req_r /\ rsp_vld
mem_st_fire  == mem_st_req_r /\ rsp_vld
mem_wait     == (mem_ld_req_r /\ ~mem_ld_fire) \/ (mem_st_req_r /\ ~mem_st_fire)

ex2ls_rdy  == ~((ls2mem_req_vld /\ ~in.req_rdy) \/ mem_wait)
ex2ls_fire == ex2ls_vld /\ ex2ls_rdy

ls2cm_vld == ls2cm_vld_r /\ ~trap_flush_r /\ (mem_ld_fire \/ mem_st_fire \/ inst_non_ls_r)

ls2cm_wb_vld_NotFlushed == wb_vld_r \/ mem_ld_fire
ls2cm_wb_vld  == (wb_vld_r \/ mem_ld_fire) /\ ~trap_flush_r
ls2cm_wb_data == IF wb_vld_r THEN wb_data_r ELSE rsp_own

\* CMT, combinational.
cmt_with_irq  == ls2cm_vld /\ ((mie /\ in.irq = "irq") \/ in.irq = "nmi")
cmt_with_excp == ls2cm_vld /\ (has_excp(cm_r) \/ ((mem_ld_fire \/ mem_st_fire) /\ in.rsp_excp))
cmt_with_trap == cmt_with_irq \/ cmt_with_excp
cmt_with_eret == ls2cm_vld /\ op_mret(cm_r)
cm2rf_wb_vld  == ~cmt_with_excp /\ ls2cm_wb_vld
cm2cs_csr_vld == ~cmt_with_excp /\ csr_vld(csr_r)

-----------------------------------------------------------------------------
\* The EXU.  While the LSU cannot take the offered instruction, the next one
\* may already be in the output registers (Waiting); it is offered later.
Waiting == live.id = nid
Fresh   == IF Waiting THEN {live} ELSE [id : {nid}, kind : Kinds]
Succ(i) == (i + 1) % N

Flushed == /\ trap_flush_r
           /\ ex' = NoInst
           /\ live' = NoInst
           /\ UNCHANGED nid
Held ==    /\ ~trap_flush_r /\ ex2ls_vld /\ ~ex2ls_rdy
           /\ live' \in {live} \cup Fresh
           /\ UNCHANGED <<ex, nid>>
Bubble ==  /\ ~trap_flush_r /\ (ex2ls_fire \/ ~ex2ls_vld)
           /\ ex' = NoInst
           /\ live' = IF Waiting THEN live ELSE NoInst
           /\ UNCHANGED nid
Offer ==   /\ ~trap_flush_r /\ (ex2ls_fire \/ ~ex2ls_vld)
           /\ ex' \in Fresh
           /\ live' = ex'
           /\ nid' = Succ(nid)
UpdateEx == Flushed \/ Held \/ Bubble \/ Offer

\* The memory answers one cycle after it takes a request.
Memory == /\ rsp_vld' = mem_req_fire
          /\ rsp_own' = IF mem_req_fire THEN pipe ELSE NoInst

-----------------------------------------------------------------------------
\* LSU, registers: the input buffer,
UpdateInput ==
    /\ ex2ls_fire_p' = ex2ls_fire
    /\ ex2ls_init_p' = ~ex2ls_vld
    /\ ex2ls_r' = IF ex2ls_real THEN live ELSE ex2ls_r

\* the load and the store request status,
UpdateRequest_ClearFirst ==
    /\ mem_ld_req_r' = IF mem_ld_fire THEN FALSE ELSE (mem_req_fire /\ ~op_store(pipe)) \/ mem_ld_req_r
    /\ mem_st_req_r' = IF mem_st_fire THEN FALSE ELSE (mem_req_fire /\ op_store(pipe)) \/ mem_st_req_r
UpdateRequest ==
    /\ mem_ld_req_r' = IF mem_req_fire /\ ~op_store(pipe) THEN TRUE ELSE mem_ld_req_r /\ ~mem_ld_fire
    /\ mem_st_req_r' = IF mem_req_fire /\ op_store(pipe) THEN TRUE ELSE mem_st_req_r /\ ~mem_st_fire

\* the instruction handed to the commit unit (inst_non_ls_r looks at the
\* EXU's registers, not at the buffered input),
UpdateCommit_OnReady ==
    /\ ls2cm_vld_r' = (ex2ls_rdy /\ ~trap_flush_r)
    /\ inst_non_ls_r' = IF pipe_nxt THEN ~op_load(live) /\ ~op_store(live) ELSE inst_non_ls_r
    /\ cm_r' = IF pipe_nxt THEN pipe ELSE cm_r
UpdateCommit ==
    /\ ls2cm_vld_r' = (ex2ls_fire /\ ~trap_flush_r)
    /\ inst_non_ls_r' = IF pipe_nxt THEN ~op_load(live) /\ ~op_store(live) ELSE inst_non_ls_r
    /\ cm_r' = IF pipe_nxt THEN pipe ELSE cm_r

\* its result and its CSR write.
UpdateWriteBack ==
    /\ wb_vld_r' = (ex2ls_fire /\ wb_act(pipe) /\ wb_vld(pipe))
    /\ wb_data_r' = IF ex2ls_fire /\ wb_act(pipe) /\ wb_vld(pipe) THEN pipe ELSE NoInst
    /\ wb_idx_r' = IF pipe_nxt /\ wb_act(pipe) THEN pipe ELSE wb_idx_r
    /\ csr_r' = IF ex2ls_fire /\ csr_vld(pipe) THEN pipe ELSE NoInst

\* CMT, registers: the flush and what the CSRs record of a trap.
UpdateTrap ==
    /\ trap_flush_r' = (cmt_with_trap \/ cmt_with_eret)
    /\ trap_trig_r' = cmt_with_trap
    /\ trap_exit_r' = cmt_with_eret
    /\ trap_mepc_r' = IF cmt_with_irq THEN Succ(cm_r.id) ELSE IF cmt_with_excp THEN cm_r.id ELSE 0

\* mstatus: traps go before mret, mret before a CSR instruction, which may
\* write any value (or another CSR).
UpdateStatus_WriteFirst ==
    IF cm2cs_csr_vld THEN mie' \in BOOLEAN /\ mpie' \in BOOLEAN
    ELSE IF trap_trig_r THEN mie' = FALSE /\ mpie' = mie
    ELSE IF trap_exit_r THEN mie' = mpie /\ mpie' = TRUE
    ELSE UNCHANGED csrvars
UpdateStatus ==
    IF trap_trig_r THEN mie' = FALSE /\ mpie' = mie
    ELSE IF trap_exit_r THEN mie' = mpie /\ mpie' = TRUE
    ELSE IF cm2cs_csr_vld THEN mie' \in BOOLEAN /\ mpie' \in BOOLEAN
    ELSE UNCHANGED csrvars

\* The instructions in flight whose request the memory has taken, in this
\* cycle or before.
Exposed == touched \cup IF mem_req_fire THEN {pipe} ELSE {}

\* An instruction leaves the pipeline at the end of its cycle in the last
\* stage.  A flush empties the pipeline.
Leaves == ls2cm_vld_r /\ ~trap_flush_r
UpdateHistory ==
    /\ inflight' = IF trap_flush_r THEN << >>
                   ELSE LET rest == IF Leaves /\ inflight # << >> THEN Tail(inflight) ELSE inflight
                        IN IF nid' # nid THEN Append(rest, ex') ELSE rest
    /\ touched' = IF trap_flush_r THEN {}
                  ELSE Exposed \ IF Leaves THEN {cm_r} ELSE {}
    /\ handler' = IF cmt_with_trap THEN TRUE
                  ELSE handler /\ ~cmt_with_eret /\ ~(ls2cm_vld /\ cm2cs_csr_vld)

\* One rising clock edge.
Clock == /\ UpdateEx /\ Memory
         /\ UpdateInput /\ UpdateRequest /\ UpdateCommit /\ UpdateWriteBack
         /\ UpdateTrap /\ UpdateStatus
         /\ UpdateHistory

\* The inputs of the next cycle; a memory reports exceptions with answers.
Drive == in' \in Inputs /\ (in'.rsp_excp => rsp_vld')

Next == Clock /\ Drive

Spec == Init /\ [][Next]_vars

-----------------------------------------------------------------------------
AnyInst == Insts \cup {NoInst}

\* The registers hold instructions, numbers and bits; a valid last stage
\* holds an instruction.
TypeOK ==
    /\ in \in Inputs
    /\ ex \in AnyInst /\ live \in AnyInst /\ nid \in Ids
    /\ rsp_vld \in BOOLEAN /\ rsp_own \in AnyInst
    /\ ex2ls_r \in AnyInst /\ ex2ls_fire_p \in BOOLEAN /\ ex2ls_init_p \in BOOLEAN
    /\ mem_ld_req_r \in BOOLEAN /\ mem_st_req_r \in BOOLEAN
    /\ ls2cm_vld_r \in BOOLEAN /\ inst_non_ls_r \in BOOLEAN
    /\ cm_r \in IF ls2cm_vld_r THEN Insts ELSE AnyInst
    /\ wb_vld_r \in BOOLEAN /\ wb_data_r \in AnyInst /\ wb_idx_r \in AnyInst /\ csr_r \in AnyInst
    /\ trap_flush_r \in BOOLEAN /\ trap_trig_r \in BOOLEAN /\ trap_exit_r \in BOOLEAN
    /\ trap_mepc_r \in Ids
    /\ mie \in BOOLEAN /\ mpie \in BOOLEAN
    /\ inflight \in Seq(Insts) /\ touched \subseteq Insts /\ handler \in BOOLEAN

\* The LSU works on the instruction it was offered for as long as it cannot
\* take it, although the EXU loads the next one over it in the meantime.
InputHeld == ex2ls_vld => pipe = ex

\* The instruction committed is the oldest one in flight: none is skipped,
\* repeated or overtaken, and none that was flushed commits.
CommitsInOrder == ls2cm_vld => inflight # << >> /\ cm_r = Head(inflight)

\* An instruction the LSU took commits in the next cycle unless it is
\* flushed, loads and stores together with the answer of the memory.  (A load
\* to x0 makes no request and is not seen by the commit unit.)
NothingLost ==
    ls2cm_vld_r /\ ~trap_flush_r /\ cm_r.kind # "load0" =>
        ls2cm_vld /\ (op_load(cm_r) <=> mem_ld_fire) /\ (op_store(cm_r) <=> mem_st_fire)

\* Precise results: the register file is written only by the instruction
\* that commits in that cycle without an exception, with its own result and
\* to its own destination, wherever the result came from.
RfPrecise ==
    cm2rf_wb_vld => /\ ls2cm_vld /\ ~has_excp(cm_r)
                    /\ wb_idx_r = cm_r /\ ls2cm_wb_data = cm_r

\* How far a trap is imprecise: of the instructions it flushes at most one
\* has a request on the bus or writes a CSR, and it is the oldest of them,
\* the one right behind the instruction that trapped.
ShadowBounded ==
    trap_flush_r => /\ Exposed \subseteq {inflight[i] : i \in DOMAIN inflight \cap {1}}
                    /\ cm2cs_csr_vld => inflight # << >> /\ csr_r = Head(inflight)

\* Once a trap is taken, no interrupt but the NMI is taken before an mret or
\* a CSR instruction of the handler commits: not in the cycles before mstatus
\* is updated, and not because of a CSR write that was behind the trap.
NoNestedIrq == handler /\ cmt_with_irq => in.irq = "nmi"

-----------------------------------------------------------------------------
\* What a pipeline flush ("Flush pipeline.", uv_cmt.v) promises to a core
\* that executes in order: a flushed instruction has had no effect.
FlushedHasNoEffect == trap_flush_r => Exposed = {} /\ ~cm2cs_csr_vld

ExceptionAtPc == cmt_with_excp => trap_mepc_r' = cm_r.id

\* An exception is reported with the pc of the instruction that raised it, as
\* the handler of the breakpoint test expects (riscv-tests, sbreak.S).
ExceptionsPrecise == [][ExceptionAtPc]_vars

=============================================================================
