--------------------------- MODULE BackEndProofs ---------------------------
(***************************************************************************)
(* Proofs about module BackEnd, for every number of instructions N.        *)
(*                                                                         *)
(* The properties are not inductive: which instruction sits in the last    *)
(* stage, whose answer the memory owes and where the LSU's input comes     *)
(* from are kept in registers of their own.  Inv relates them.             *)
(***************************************************************************)
EXTENDS BackEnd, TLAPS

\* The offered instruction is in the EXU's registers or in the LSU's copy,
\* wherever the LSU looks; only loads and stores are ever held back.
Offered == ex # NoInst => /\ pipe = ex
                          /\ ~ex2ls_real => ex.kind \in {"load", "store"}

\* The memory answers exactly the request the LSU waits for.
Owed == /\ rsp_vld <=> mem_ld_req_r \/ mem_st_req_r
        /\ ~(mem_ld_req_r /\ mem_st_req_r)

\* The last stage: what the LSU's registers say of the instruction in it.
LastStage ==
    /\ ls2cm_vld_r => /\ cm_r \in Insts
                      /\ cm_r.kind = "load" => mem_ld_req_r
                      /\ cm_r.kind = "store" => mem_st_req_r
                      /\ cm_r.kind \notin {"load", "load0", "store"} => inst_non_ls_r
    /\ mem_ld_req_r => ls2cm_vld_r /\ cm_r.kind = "load" /\ wb_idx_r = cm_r /\ rsp_own = cm_r
    /\ mem_st_req_r => ls2cm_vld_r /\ cm_r.kind = "store"
    /\ wb_vld_r => /\ ls2cm_vld_r /\ cm_r.kind \in {"alu", "csr", "excp"}
                   /\ wb_idx_r = cm_r /\ wb_data_r = cm_r

\* In flight are the instruction in the last stage and the offered one; a
\* request or a CSR write that is under way belongs to the former.
Tracked ==
    /\ inflight = IF ls2cm_vld_r THEN IF ex # NoInst THEN <<cm_r, ex>> ELSE <<cm_r>>
                  ELSE IF ex # NoInst THEN <<ex>> ELSE << >>
    /\ touched \subseteq IF ls2cm_vld_r THEN {cm_r} ELSE {}
    /\ csr_vld(csr_r) => ls2cm_vld_r /\ csr_r = cm_r

\* The inductive invariant.
Inv == TypeOK /\ Offered /\ Owed /\ LastStage /\ Tracked

-----------------------------------------------------------------------------
\* The registers are reset to a state that satisfies the invariant.
LEMMA InitInv == Init => Inv
<1> SUFFICES ASSUME Init PROVE Inv
  OBVIOUS
<1>1. NoInst \in AnyInst /\ 0 \in Ids
  BY NAssumption DEF AnyInst, Ids
<1>2. TypeOK
  <2>1. << >> \in Seq(Insts)
    OBVIOUS
  <2>2. inflight \in Seq(Insts) /\ touched \subseteq Insts /\ in \in Inputs
    BY <2>1 DEF Init
  <2> QED BY <1>1, <2>2 DEF Init, TypeOK
<1>3. Offered /\ Owed /\ LastStage
  BY DEF Init, Offered, Owed, LastStage
<1>4. Tracked
  BY DEF Init, Tracked, csr_vld, NoInst
<1> QED BY <1>2, <1>3, <1>4 DEF Inv

\* Under the invariant the LSU never waits for an answer, so that an
\* instruction is held back only by its own request.
LEMMA NeverWaits ==
    ASSUME Inv
    PROVE  /\ ~mem_wait
           /\ ex2ls_rdy <=> ~(ls2mem_req_vld /\ ~in.req_rdy)
           /\ ex2ls_vld => pipe = ex /\ ex \in Insts
           /\ mem_req_fire => ex2ls_fire
           /\ ls2mem_req_vld <=> ex2ls_vld /\ pipe.kind \in {"load", "store"}
BY DEF Inv, TypeOK, Offered, Owed, mem_wait, mem_ld_fire, mem_st_fire, ex2ls_rdy, ex2ls_fire,
       mem_req_fire, ls2mem_req_vld, ex2ls_vld, has_excp, wb_act, op_load, op_store,
       AnyInst, Insts, Kinds, Inputs

\* What the execution unit offers are instructions.
LEMMA FreshInst ==
    ASSUME Inv PROVE Fresh \subseteq Insts /\ Succ(nid) \in Ids
<1>1. Succ(nid) \in Ids
  BY NAssumption DEF Inv, TypeOK, Succ, Ids
<1>2. CASE Waiting
  BY <1>1, <1>2, NAssumption DEF Inv, TypeOK, Fresh, Waiting, Insts, AnyInst, NoInst, Ids
<1>3. CASE ~Waiting
  BY <1>1, <1>3 DEF Inv, TypeOK, Fresh, Insts
<1> QED BY <1>2, <1>3

\* Every clock edge keeps the registers in their types.
LEMMA TypeStep == ASSUME Inv, Next PROVE TypeOK'
<1> USE DEF Next, Clock
<1>1. TypeOK /\ pipe \in AnyInst
  BY DEF Inv, TypeOK, pipe
<1>2. /\ ex' \in AnyInst /\ live' \in AnyInst /\ nid' \in Ids
      /\ nid' # nid => ex' \in Insts
  BY <1>1, FreshInst DEF TypeOK, AnyInst, UpdateEx, Flushed, Held, Bubble, Offer
<1>3. in' \in Inputs
  BY DEF Drive
<1>4. mem_req_fire => pipe \in Insts
  BY NeverWaits DEF ex2ls_fire
<1>5. /\ rsp_vld' \in BOOLEAN /\ rsp_own' \in AnyInst
  BY <1>1, <1>4 DEF Memory, AnyInst, mem_req_fire, ls2mem_req_vld, ex2ls_vld, TypeOK, Inputs
<1>6. /\ ex2ls_r' \in AnyInst /\ ex2ls_fire_p' \in BOOLEAN /\ ex2ls_init_p' \in BOOLEAN
      /\ mem_ld_req_r' \in BOOLEAN /\ mem_st_req_r' \in BOOLEAN
  BY <1>1 DEF UpdateInput, UpdateRequest, TypeOK, ex2ls_fire, ex2ls_vld, ex2ls_rdy
<1>7. /\ ls2cm_vld_r' \in BOOLEAN /\ inst_non_ls_r' \in BOOLEAN
      /\ cm_r' \in IF ls2cm_vld_r' THEN Insts ELSE AnyInst
  BY <1>1, NeverWaits DEF UpdateCommit, TypeOK, ex2ls_fire, pipe_nxt, ex2ls_vld, AnyInst
<1>8. /\ wb_vld_r' \in BOOLEAN /\ wb_data_r' \in AnyInst /\ wb_idx_r' \in AnyInst
      /\ csr_r' \in AnyInst
  BY <1>1 DEF UpdateWriteBack, TypeOK, AnyInst
<1>9. /\ trap_flush_r' \in BOOLEAN /\ trap_trig_r' \in BOOLEAN /\ trap_exit_r' \in BOOLEAN
      /\ trap_mepc_r' \in Ids
  <2>1. cmt_with_irq \/ cmt_with_excp => cm_r.id \in Ids /\ Succ(cm_r.id) \in Ids
    BY <1>1, NAssumption DEF TypeOK, cmt_with_irq, cmt_with_excp, ls2cm_vld, Insts, Succ, Ids
  <2>2. trap_mepc_r' \in Ids
    BY <2>1, NAssumption DEF UpdateTrap, Ids
  <2>3. trap_flush_r' \in BOOLEAN /\ trap_trig_r' \in BOOLEAN /\ trap_exit_r' \in BOOLEAN
    BY DEF UpdateTrap, cmt_with_trap, cmt_with_irq, cmt_with_excp, cmt_with_eret
  <2> QED BY <2>2, <2>3
<1>10. mie' \in BOOLEAN /\ mpie' \in BOOLEAN
  BY <1>1 DEF UpdateStatus, TypeOK, csrvars
<1>11. inflight' \in Seq(Insts)
  BY <1>1, <1>2 DEF UpdateHistory, TypeOK
<1>12. touched' \subseteq Insts /\ handler' \in BOOLEAN
  BY <1>1, <1>4 DEF UpdateHistory, TypeOK, Exposed
<1> QED BY <1>2, <1>3, <1>5, <1>6, <1>7, <1>8, <1>9, <1>10, <1>11, <1>12 DEF TypeOK

\* Every clock edge leaves the offered instruction where the LSU looks.
LEMMA OfferedStep == ASSUME Inv, Next PROVE Offered'
<1> USE NeverWaits DEF Next, Clock
<1>1. CASE Flushed \/ Bubble
  BY <1>1 DEF Flushed, Bubble, Offered
<1>2. CASE Held
  BY <1>2 DEF Held, Offered, UpdateInput, ex2ls_real, pipe, ex2ls_fire
<1>3. CASE Offer
  BY <1>3 DEF Offer, Offered, UpdateInput, ex2ls_real, pipe
<1> QED BY <1>1, <1>2, <1>3 DEF UpdateEx

\* Every clock edge keeps the memory and the LSU in agreement.
LEMMA OwedStep == ASSUME Inv, Next PROVE Owed'
BY NeverWaits DEF Next, Clock, Memory, UpdateRequest, Owed, mem_wait, Inv, TypeOK

\* An instruction other than a load or a store is taken from the registers
\* of the execution unit, which inst_non_ls_r looks at.
LEMMA NotHeld ==
    ASSUME Inv, ex2ls_vld, pipe.kind \notin {"load", "store"} PROVE live = pipe
BY NeverWaits DEF Inv, Offered, pipe, ex2ls_vld

\* Every clock edge moves an instruction to the last stage with all that
\* belongs to it, or nothing.
LEMMA LastStageStep == ASSUME Inv, Next PROVE LastStage'
<1> USE DEF Next, Clock
<1>1. CASE ex2ls_fire
  <2>1. /\ ex2ls_vld /\ ~trap_flush_r /\ pipe_nxt /\ pipe \in Insts
        /\ mem_req_fire <=> pipe.kind \in {"load", "store"}
    BY <1>1, NeverWaits DEF ex2ls_fire, ex2ls_vld, pipe_nxt, mem_req_fire
  <2>2. /\ ls2cm_vld_r' /\ cm_r' = pipe
        /\ pipe.kind \notin {"load", "load0", "store"} => inst_non_ls_r'
    BY <1>1, <2>1, NotHeld DEF UpdateCommit, op_load, op_store
  <2>3. /\ mem_ld_req_r' <=> pipe.kind = "load"
        /\ mem_st_req_r' <=> pipe.kind = "store"
    BY <2>1, NeverWaits DEF UpdateRequest, op_store, mem_wait, Inv, TypeOK
  <2>4. pipe.kind = "load" => wb_idx_r' = pipe /\ rsp_own' = pipe
    BY <2>1 DEF UpdateWriteBack, Memory, wb_act
  <2>5. wb_vld_r' => /\ pipe.kind \in {"alu", "csr", "excp"}
                     /\ wb_idx_r' = pipe /\ wb_data_r' = pipe
    BY <1>1, <2>1 DEF UpdateWriteBack, wb_act, wb_vld
  <2> QED BY <2>1, <2>2, <2>3, <2>4, <2>5 DEF LastStage
<1>2. CASE ~ex2ls_fire
  <2>1. ~ls2cm_vld_r' /\ ~wb_vld_r'
    BY <1>2 DEF UpdateCommit, UpdateWriteBack
  <2>2. ~mem_ld_req_r' /\ ~mem_st_req_r'
    BY <1>2, NeverWaits DEF UpdateRequest, mem_wait, Inv, TypeOK
  <2> QED BY <2>1, <2>2 DEF LastStage
<1> QED BY <1>1, <1>2

\* Every clock edge keeps the history in agreement with the pipeline.
LEMMA TrackedStep == ASSUME Inv, Next PROVE Tracked'
<1> USE DEF Next, Clock
<1>1. TypeOK /\ Tracked /\ (ex2ls_vld => pipe = ex /\ ex \in Insts)
  BY NeverWaits DEF Inv
<1>2. csr_vld(csr_r)' => ls2cm_vld_r' /\ csr_r' = cm_r'
  BY DEF UpdateWriteBack, UpdateCommit, csr_vld, NoInst, ex2ls_fire, ex2ls_vld, pipe_nxt
<1>3. CASE trap_flush_r
  <2>1. ~ls2cm_vld_r' /\ ex' = NoInst
    BY <1>3 DEF UpdateCommit, UpdateEx, Flushed, Held, Bubble, Offer
  <2>2. inflight' = << >> /\ touched' = {}
    BY <1>3 DEF UpdateHistory
  <2> QED BY <1>2, <2>1, <2>2 DEF Tracked
<1>4. CASE ~trap_flush_r
  <2> DEFINE rest == IF ex # NoInst THEN <<ex>> ELSE << >>
  <2>1. inflight' = IF nid' # nid THEN Append(rest, ex') ELSE rest
    BY <1>1, <1>4 DEF UpdateHistory, Leaves, Tracked
  <2>2. /\ ex2ls_vld <=> ex # NoInst
        /\ ls2cm_vld_r' <=> ex2ls_fire
        /\ ex2ls_fire => cm_r' = ex
    BY <1>1, <1>4 DEF UpdateCommit, ex2ls_vld, ex2ls_fire, pipe_nxt
  <2>3. inflight' = IF ls2cm_vld_r' THEN IF ex' # NoInst THEN <<cm_r', ex'>> ELSE <<cm_r'>>
                    ELSE IF ex' # NoInst THEN <<ex'>> ELSE << >>
    <3>1. CASE Held
      BY <1>4, <2>1, <2>2, <3>1 DEF Held, ex2ls_fire
    <3>2. CASE Bubble
      BY <1>4, <2>1, <2>2, <3>2 DEF Bubble, ex2ls_fire
    <3>3. CASE Offer
      <4>1. nid' # nid
        BY <3>3, NAssumption, <1>1 DEF Offer, Succ, Ids, TypeOK
      <4>2. ex' # NoInst
        BY <3>3, FreshInst, NAssumption DEF Offer, NoInst, Insts, Ids
      <4> QED BY <1>4, <2>1, <2>2, <3>3, <4>1, <4>2 DEF Offer, ex2ls_fire
    <3> QED BY <1>4, <3>1, <3>2, <3>3 DEF UpdateEx, Flushed
  <2>4. touched' \subseteq IF ls2cm_vld_r' THEN {cm_r'} ELSE {}
    <3>1. touched \ (IF Leaves THEN {cm_r} ELSE {}) = {}
      BY <1>1, <1>4 DEF Tracked, Leaves
    <3>2. mem_req_fire => ls2cm_vld_r' /\ cm_r' = pipe
      BY <1>1, <2>2, NeverWaits DEF ex2ls_fire
    <3> QED BY <1>4, <3>1, <3>2 DEF UpdateHistory, Exposed
  <2> QED BY <1>2, <2>3, <2>4 DEF Tracked
<1> QED BY <1>3, <1>4

\* The invariant holds in every reachable cycle.
THEOREM Invariance == Spec => []Inv
<1>1. Inv /\ [Next]_vars => Inv'
  <2>1. ASSUME Inv, Next PROVE Inv'
    BY <2>1, TypeStep, OfferedStep, OwedStep, LastStageStep, TrackedStep DEF Inv
  <2>2. ASSUME Inv, UNCHANGED vars PROVE Inv'
    BY <2>2 DEF Inv, TypeOK, Offered, Owed, LastStage, Tracked, csr_vld, pipe, ex2ls_real, vars, exvars, memvars,
                lsuvars, cmtvars, csrvars, history
  <2> QED BY <2>1, <2>2
<1> QED BY InitInv, <1>1, PTL DEF Spec

\* The registers of LSU, CMT and mstatus stay in their types.
THEOREM TypeCorrect == Spec => []TypeOK
<1>1. Inv => TypeOK
  BY DEF Inv
<1> QED BY <1>1, Invariance, PTL

\* The LSU works on the offered instruction while the execution unit runs
\* ahead.
THEOREM InputHeldHolds == Spec => []InputHeld
<1>1. Inv => InputHeld
  BY NeverWaits DEF InputHeld
<1> QED BY <1>1, Invariance, PTL

\* Instructions commit in the order they were offered, without gaps.
THEOREM CommitsInOrderHolds == Spec => []CommitsInOrder
<1>1. Inv => CommitsInOrder
  BY DEF Inv, Tracked, CommitsInOrder, ls2cm_vld
<1> QED BY <1>1, Invariance, PTL

\* A trap exposes at most the instruction right behind it.
THEOREM ShadowBoundedHolds == Spec => []ShadowBounded
<1>1. Inv => ShadowBounded
  <2> SUFFICES ASSUME Inv, trap_flush_r
               PROVE  /\ Exposed \subseteq {inflight[i] : i \in DOMAIN inflight \cap {1}}
                      /\ cm2cs_csr_vld => inflight # << >> /\ csr_r = Head(inflight)
    BY DEF ShadowBounded
  <2>1. Exposed = touched
    BY DEF Exposed, mem_req_fire, ls2mem_req_vld, ex2ls_vld
  <2>2. ls2cm_vld_r => inflight # << >> /\ 1 \in DOMAIN inflight /\ inflight[1] = cm_r /\ Head(inflight) = cm_r
    BY DEF Inv, Tracked
  <2>3. touched \subseteq IF ls2cm_vld_r THEN {cm_r} ELSE {}
    BY DEF Inv, Tracked
  <2>4. cm2cs_csr_vld => ls2cm_vld_r /\ csr_r = cm_r
    BY DEF Inv, Tracked, cm2cs_csr_vld
  <2> QED BY <2>1, <2>2, <2>3, <2>4
<1> QED BY <1>1, Invariance, PTL

\* Every instruction taken by the LSU and not flushed commits in the next
\* cycle, loads and stores with the memory's answer.
THEOREM NothingLostHolds == Spec => []NothingLost
<1>1. Inv => NothingLost
  BY DEF Inv, TypeOK, Owed, LastStage, NothingLost, ls2cm_vld, mem_ld_fire, mem_st_fire,
         op_load, op_store, Insts, Kinds
<1> QED BY <1>1, Invariance, PTL

\* The register file is written only by the instruction that commits.
THEOREM RfPreciseHolds == Spec => []RfPrecise
<1>1. Inv => RfPrecise
  <2> SUFFICES ASSUME Inv, cm2rf_wb_vld
               PROVE  /\ ls2cm_vld /\ ~has_excp(cm_r)
                      /\ wb_idx_r = cm_r /\ ls2cm_wb_data = cm_r
    BY DEF RfPrecise
  <2>1. /\ ls2cm_vld_r /\ ~trap_flush_r /\ (wb_vld_r \/ mem_ld_fire)
        /\ wb_idx_r = cm_r /\ ls2cm_wb_data = cm_r
        /\ cm_r.kind \in {"alu", "csr", "excp", "load"}
        /\ wb_vld_r => cm_r.kind # "load"
    BY DEF Inv, LastStage, cm2rf_wb_vld, ls2cm_wb_vld, ls2cm_wb_data, mem_ld_fire
  <2>2. ls2cm_vld
    BY <2>1 DEF Inv, LastStage, ls2cm_vld, mem_ld_fire
  <2>3. ~has_excp(cm_r)
    BY <2>2 DEF cm2rf_wb_vld, cmt_with_excp
  <2> QED BY <2>1, <2>2, <2>3
<1> QED BY <1>1, Invariance, PTL

-----------------------------------------------------------------------------
\* Why a trap is not interrupted: its flush, which lasts as long as mstatus
\* still has the old mie, kills whatever could commit; after it mie is clear.
Masked == /\ trap_flush_r <=> trap_trig_r \/ trap_exit_r
          /\ handler /\ ~trap_trig_r => ~mie /\ ~trap_exit_r

\* A clock edge keeps interrupts masked in a handler: a CSR write that
\* reaches mstatus outside a flush is an instruction that commits, and ends
\* the handler's protection.
LEMMA MaskedStep == ASSUME Inv, Masked, Next PROVE Masked'
<1> USE DEF Next, Clock
<1>1. trap_flush_r' <=> trap_trig_r' \/ trap_exit_r'
  BY DEF UpdateTrap, cmt_with_trap, cmt_with_irq, cmt_with_excp, cmt_with_eret
<1>2. ASSUME handler', ~trap_trig_r' PROVE ~mie' /\ ~trap_exit_r'
  <2>1. ~cmt_with_trap
    BY <1>2 DEF UpdateTrap, cmt_with_trap, cmt_with_irq, cmt_with_excp
  <2>2. handler /\ ~cmt_with_eret /\ ~(ls2cm_vld /\ cm2cs_csr_vld)
    BY <1>2, <2>1 DEF UpdateHistory, Inv, TypeOK
  <2>3. ~trap_exit_r'
    BY <2>2 DEF UpdateTrap, cmt_with_eret
  <2>4. CASE trap_trig_r
    BY <2>3, <2>4 DEF UpdateStatus
  <2>5. CASE ~trap_trig_r
    <3>1. ~mie /\ ~trap_exit_r /\ ~trap_flush_r
      BY <2>2, <2>5 DEF Masked
    <3>2. ~cm2cs_csr_vld
      <4>1. csr_vld(csr_r) => ls2cm_vld_r /\ inst_non_ls_r
        BY DEF Inv, Tracked, LastStage, csr_vld
      <4> QED BY <2>2, <3>1, <4>1 DEF cm2cs_csr_vld, ls2cm_vld
    <3> QED BY <2>3, <2>5, <3>1, <3>2 DEF UpdateStatus, csrvars
  <2> QED BY <2>4, <2>5
<1> QED BY <1>1, <1>2 DEF Masked

\* Between a trap and the first mret or CSR write of its handler no interrupt
\* but the NMI is taken.
THEOREM NoNestedIrqHolds == Spec => []NoNestedIrq
<1>1. Init => Masked
  BY DEF Init, Masked
<1>2. Inv /\ Masked /\ [Next]_vars => Masked'
  <2>1. ASSUME Masked, UNCHANGED vars PROVE Masked'
    BY <2>1 DEF Masked, vars, cmtvars, csrvars, history
  <2> QED BY <2>1, MaskedStep
<1>3. Inv /\ Masked => NoNestedIrq
  BY DEF Masked, NoNestedIrq, cmt_with_irq, ls2cm_vld
<1> QED BY <1>1, <1>2, <1>3, Invariance, PTL DEF Spec

=============================================================================
