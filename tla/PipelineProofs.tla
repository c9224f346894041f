--------------------------- MODULE PipelineProofs ---------------------------
(***************************************************************************)
(* Proofs about module Pipeline, for all programs and all unit latencies.  *)
(*                                                                         *)
(* The argument has three layers: where instructions are (Control), what   *)
(* those behind the EXU leave in registers and CSR (Retiring), and which   *)
(* value an instruction in the EXU has for its operand (OperandRight,      *)
(* JumpRight, StoreRight).  Each layer is inductive given those before it. *)
(***************************************************************************)
EXTENDS Pipeline, TLAPS

\* The instruction in the EXU is one of the program, its operand a bit.
LEMMA WiresTyped ==
    ASSUME TypeOK
    PROVE  /\ pipe \in IdRegs
           /\ inst \in program \cup {NoInst} /\ inst \in Insts \cup {NoInst}
           /\ inst.kind = "load" => inst.rd # 0
           /\ inst.src \in Regs \cup {0} /\ inst.rd \in Regs \cup {0} /\ inst.v \in BOOLEAN
           /\ ls_pipe \in ExRegs
           /\ wb_vld \in BOOLEAN /\ wb_data \in BOOLEAN
           /\ ls_fw \in FwRegs /\ ex_fw \in FwRegs
  <1>1. pipe \in IdRegs
    BY DEF TypeOK, pipe
  <1>2. inst \in program \cup {NoInst}
    BY <1>1 DEF IdRegs, inst
  <1>3. program \subseteq UNION Programs /\ UNION Programs \subseteq Insts
    BY ProgramAssumption DEF TypeOK
  <1>4. inst \in Insts \cup {NoInst}
    BY <1>2, <1>3
  <1>5. inst.kind = "load" => inst.rd # 0
    BY <1>2, <1>3, ProgramAssumption DEF NoInst
  <1>6. inst.src \in Regs \cup {0} /\ inst.rd \in Regs \cup {0} /\ inst.v \in BOOLEAN
    <2>1. CASE inst = NoInst
      BY <2>1 DEF NoInst
    <2>2. CASE inst \in Insts
      BY <2>2 DEF Insts
    <2>. QED
      BY <1>4, <2>1, <2>2
  <1>7. ls_pipe \in ExRegs
    BY DEF TypeOK, ls_pipe
  <1>8. wb_vld \in BOOLEAN /\ wb_data \in BOOLEAN
    BY DEF TypeOK, wb_vld, wb_data, LsRegs
  <1>9. ls_fw \in FwRegs
    BY <1>8 DEF TypeOK, ls_fw, FwRegs, LsRegs
  <1>10. ex_fw \in FwRegs
    BY DEF TypeOK, ex_fw, FwRegs, ExRegs, ExRecords
  <1>. QED
    BY <1>1, <1>2, <1>4, <1>5, <1>6, <1>7, <1>8, <1>9, <1>10

\* Whatever the network selects is a bit.
LEMMA DataTyped ==
    ASSUME TypeOK
    PROVE  /\ calc_op \in BOOLEAN /\ st_data \in BOOLEAN /\ csr_rs_data \in BOOLEAN
           /\ csr_rd_data \in BOOLEAN /\ mul_rsp_res \in BOOLEAN /\ div_rsp_res \in BOOLEAN
           /\ ex_wb_data \in BOOLEAN
  <1>. USE WiresTyped
  <1>1. calc_op \in BOOLEAN
    BY DEF TypeOK, calc_op, Bypassed, FwRegs, IdRegs
  <1>2. st_data \in BOOLEAN /\ csr_rs_data \in BOOLEAN
    BY DEF TypeOK, st_data, csr_rs_data, Bypassed, IdRegs, ExRegs, ExRecords
  <1>3. csr_rd_data \in BOOLEAN
    BY DEF TypeOK, csr_rd_data, ExRegs, ExRecords, LsRegs
  <1>4. mul_rsp_res \in BOOLEAN
    BY UnitAssumption DEF TypeOK, mul_rsp_res
  <1>5. div_rsp_res \in BOOLEAN
    BY DEF TypeOK, div_rsp_res
  <1>6. ex_wb_data \in BOOLEAN
    BY <1>3, <1>4, <1>5 DEF ex_wb_data
  <1>. QED
    BY <1>1, <1>2, <1>3, <1>4, <1>5, <1>6

\* A tuple of three bits is a function.
LEMMA ThreeBits ==
    ASSUME NEW a \in BOOLEAN, NEW b \in BOOLEAN, NEW c \in BOOLEAN
    PROVE  <<a, b, c>> \in Bits(1 .. 3)
  <1>1. <<a, b, c>> \in Seq(BOOLEAN) /\ Len(<<a, b, c>>) = 3
    OBVIOUS
  <1>. QED
    BY <1>1 DEF Bits

\* What one clock edge does to the types, register group by register group.
LEMMA TypeStep ==
    ASSUME TypeOK, Next
    PROVE  TypeOK'
  <1>. USE WiresTyped, DataTyped
  <1>1. program' \in Programs /\ if2id' \in program' \cup {NoInst}
    BY DEF TypeOK, Next, Drive, Fetch
  <1>2. req_rdy' \in BOOLEAN /\ trap' \in {"none", "irq", "excp"} /\ newer' \in BOOLEAN
    BY DEF TypeOK, Next, Drive
  <1>3. IdRegs' = IdRegs
    BY DEF Next, Drive, IdRegs
  <1>4. id2ex_vld_r' \in BOOLEAN /\ id' \in IdRegs'
    <2>1. if2id # NoInst => if2id \in Insts /\ if2id.src \in Regs \cup {0} /\ if2id.v \in BOOLEAN
      BY ProgramAssumption DEF TypeOK, Insts
    <2>2. if2id # NoInst => Rs_data(if2id.src) \in BOOLEAN
      BY <2>1 DEF TypeOK, Rs_data, Bits, ExRegs, ExRecords
    <2>3. id' \in IdRegs'
      BY <1>3, <2>2 DEF TypeOK, Next, Clock, UpdateIdu, IdRegs
    <2>. QED
      BY <2>3 DEF TypeOK, Next, Clock, UpdateIdu
  <1>5. /\ id2ex_fire_p' \in BOOLEAN /\ id2ex_init_p' \in BOOLEAN
        /\ ex2ls_fire_p' \in BOOLEAN /\ ex2ls_init_p' \in BOOLEAN
    BY DEF Next, Clock, UpdateHandshake, id2ex_fire, id2ex_vld, ex2ls_fire, ex2ls_vld
  <1>6. id2ex_r' \in IdRegs' /\ src_r' \in BOOLEAN
    BY <1>3 DEF Next, Clock, UpdateBuffers, IdRegs, NoId
  <1>7. ls2ex_fw_r' \in FwRegs /\ ex2ex_fw_r' \in FwRegs
    BY DEF Next, Clock, UpdateBuffers, FwRegs, NoFw
  <1>8. /\ ex_stall_p' \in BOOLEAN /\ ls_stall_p' \in BOOLEAN /\ ls_stall_vld_r' \in BOOLEAN
        /\ cs_stall_vld_r' \in BOOLEAN
    BY DEF TypeOK, Next, Clock, UpdateStalls, ls_stall_vld, cs_stall_vld
  <1>9. cs_stall_p' \in Bits(1 .. 3)
    <2>1. cs_stall \in BOOLEAN
      BY DEF cs_stall
    <2>2. cs_stall_p[1] \in BOOLEAN /\ cs_stall_p[2] \in BOOLEAN
      BY DEF TypeOK, Bits
    <2>3. cs_stall_nxt \in Bits(1 .. 3) /\ <<FALSE, FALSE, FALSE>> \in Bits(1 .. 3)
      BY <2>1, <2>2, ThreeBits DEF cs_stall_nxt
    <2>. QED
      BY <2>3 DEF Next, Clock, UpdateStalls
  <1>10. mul_req_r' \in BOOLEAN /\ div_req_r' \in BOOLEAN
    BY DEF Next, Clock, UpdateRequests
  <1>11. mul_pipe' \in [1 .. MulStage -> [vld : BOOLEAN, res : BOOLEAN]]
    BY UnitAssumption DEF TypeOK, Next, Clock, UpdateUnits, mul_req_vld
  <1>12. div' \in [busy_r : BOOLEAN, busy_p : BOOLEAN, cnt : 0 .. DivCycles - 1, res : BOOLEAN]
    <2>. DEFINE start == div_req_vld /\ ~dvs_zero
    <2>1. PICK any \in BOOLEAN :
            div' = [busy_r |-> IF div.busy_r /\ div_end THEN FALSE ELSE div.busy_r \/ start,
                    busy_p |-> div.busy_r,
                    cnt    |-> IF div.busy_r /\ ~div_end THEN div.cnt + 1 ELSE 0,
                    res    |-> IF div.busy_r /\ start THEN any
                               ELSE IF start THEN inst.v ELSE div.busy_r /\ div.res]
      BY DEF Next, Clock, UpdateUnits
    <2>2. div.busy_r \in BOOLEAN /\ div.res \in BOOLEAN /\ div.cnt \in 0 .. DivCycles - 1
      BY DEF TypeOK
    <2>3. (IF div.busy_r /\ ~div_end THEN div.cnt + 1 ELSE 0) \in 0 .. DivCycles - 1
      BY <2>2, UnitAssumption DEF div_end
    <2>4. (IF div.busy_r /\ div_end THEN FALSE ELSE div.busy_r \/ start) \in BOOLEAN
      BY <2>2
    <2>5. (IF div.busy_r /\ start THEN any
           ELSE IF start THEN inst.v ELSE div.busy_r /\ div.res) \in BOOLEAN
      BY <2>2
    <2>. HIDE DEF start
    <2>. QED
      BY <2>1, <2>2, <2>3, <2>4, <2>5
  <1>13. ex2ls_vld_r' \in BOOLEAN /\ bjp_mis_r' \in BOOLEAN
    BY DEF TypeOK, Next, Clock, UpdateEx, bjp_mis, id2ex_fire, id2ex_vld
  <1>14. ex' \in ExRegs
    <2>1. ex \in ExRecords /\ (ex.kind = "load" => ex.wb_act /\ ex.wb_idx # 0)
      BY DEF TypeOK, ExRegs
    <2>2. CASE ~pipe_nxt
      <3>1. ex' = [ex EXCEPT !.wb_vld = FALSE, !.csr_vld = FALSE]
        BY <2>2 DEF Next, Clock, UpdateEx
      <3>. QED
        BY <2>1, <3>1 DEF ExRegs, ExRecords
    <2>3. CASE pipe_nxt
      <3>. DEFINE K == IF op_ldst THEN inst.kind ELSE "other"
                  I == IF inst.rd # 0 THEN inst.rd ELSE ex.wb_idx
                  D == IF inst.rd # 0 /\ ~op_ldst THEN ex_wb_data ELSE ex.wb_data
                  S == IF inst.kind = "store" THEN st_data ELSE ex.st_data
                  F == inst.kind = "store" /\ inst.src # 0 /\ ref[inst.src]
                  L == inst.kind = "load" /\ inst.v
      <3>1. ex' = [kind |-> K, rs2_idx |-> inst.src, wb_act |-> inst.rd # 0, wb_idx |-> I,
                   wb_vld |-> inst.rd # 0 /\ ~op_ldst, wb_data |-> D, ld_data |-> L,
                   st_data |-> S, st_ref |-> F, csr_vld |-> inst.kind = "csr",
                   csr_data |-> csr_rs_data]
        BY <2>3 DEF Next, Clock, UpdateEx
      <3>2. K \in {"other", "load", "store"} /\ (K = "load" => inst.rd # 0)
        BY DEF op_ldst
      <3>3. I \in Regs \cup {0} /\ (inst.rd # 0 => I # 0)
        BY <2>1 DEF ExRecords
      <3>4. D \in BOOLEAN /\ S \in BOOLEAN /\ L \in BOOLEAN /\ F \in BOOLEAN
        BY <2>1 DEF TypeOK, ExRecords, Bits
      <3>. HIDE DEF K, I, D, S, F, L
      <3>5. ex' \in ExRecords
        BY <3>1, <3>2, <3>3, <3>4 DEF ExRecords
      <3>. QED
        BY <3>1, <3>2, <3>3, <3>5 DEF ExRegs
    <2>. QED
      BY <2>2, <2>3
  <1>15. ex2ls_r' \in ExRegs
    BY DEF Next, Clock, UpdateLsu, ExRegs, ExRecords, NoEx
  <1>16. /\ mem_ld_req_r' \in BOOLEAN /\ rsp_data' \in BOOLEAN /\ mem_ld_data_r' \in BOOLEAN
         /\ ls' \in LsRegs
    BY DEF TypeOK, Next, Clock, UpdateLsu, LsRegs, ExRegs, ExRecords, ex2ls_fire, ex2ls_vld, mem_req_fire
  <1>17. ls'.wb_vld \/ mem_ld_req_r' => ls'.wb_idx # 0
    BY DEF Next, Clock, UpdateLsu, ExRegs, ExRecords, ex2ls_fire, mem_req_fire, ls2mem_req_vld
  <1>18. trap_flush' \in BOOLEAN /\ rf' \in Bits(Regs) /\ csr' \in BOOLEAN
    BY DEF TypeOK, Next, Clock, UpdateState, Bits, LsRegs
  <1>19. ref' \in Bits(Regs) /\ refc' \in BOOLEAN /\ overlap' \in BOOLEAN
    BY <1>18 DEF TypeOK, Next, Clock, UpdateRef, Overlap, Bits
  <1>. HIDE WiresTyped, DataTyped
  <1>. QED
    BY <1>1, <1>2, <1>4, <1>5, <1>6, <1>7, <1>8, <1>9, <1>10, <1>11, <1>12, <1>13, <1>14,
       <1>15, <1>16, <1>17, <1>18, <1>19
    DEF TypeOK, FwRegs, ExRegs, ExRecords, LsRegs, Bits

\* The registers of the pipeline keep their types, a result that is written
\* back has a destination, and the divider stops in time.
THEOREM TypeCorrect == Spec => []TypeOK
  <1>1. Init => TypeOK
    <2>. SUFFICES ASSUME Init PROVE TypeOK
      OBVIOUS
    <2>1. program \in Programs /\ if2id \in program \cup {NoInst} /\ id \in IdRegs /\ id2ex_r \in IdRegs
      BY DEF Init, Fetch, IdRegs, NoId
    <2>2. ls2ex_fw_r \in FwRegs /\ ex2ex_fw_r \in FwRegs /\ ls \in LsRegs
      BY DEF Init, FwRegs, NoFw, LsRegs, NoLs
    <2>3. ex \in ExRegs /\ ex2ls_r \in ExRegs
      BY DEF Init, ExRegs, ExRecords, NoEx
    <2>4. cs_stall_p \in Bits(1 .. 3)
      BY ThreeBits DEF Init
    <2>5. mul_pipe \in [1 .. MulStage -> [vld : BOOLEAN, res : BOOLEAN]]
      BY DEF Init
    <2>6. div \in [busy_r : BOOLEAN, busy_p : BOOLEAN, cnt : 0 .. DivCycles - 1, res : BOOLEAN]
      BY UnitAssumption DEF Init
    <2>7. rf \in Bits(Regs) /\ ref \in Bits(Regs) /\ ~ls.wb_vld
      BY DEF Init, Bits, NoLs
    <2>. QED
      BY <2>1, <2>2, <2>3, <2>4, <2>5, <2>6, <2>7 DEF Init, TypeOK
  <1>2. TypeOK /\ [Next]_vars => TypeOK'
    <2>1. TypeOK /\ UNCHANGED vars => TypeOK'
      BY DEF TypeOK, vars, invars, idvars, bufvars, stvars, mdvars, exvars, lsvars,
             IdRegs, FwRegs, ExRegs, ExRecords, LsRegs, Bits
    <2>. QED
      BY <2>1, TypeStep
  <1>. QED
    BY <1>1, <1>2, PTL DEF Spec

\* The EXU waits for the multiplier or the divider only while that unit is
\* going to answer, for every latency and also when requests overlap.
THEOREM StallsEndHolds == Spec => []StallsEnd
  <1>1. Init => StallsEnd
    BY DEF Init, StallsEnd
  <1>2. TypeOK /\ StallsEnd /\ Next => StallsEnd'
    <2>. SUFFICES ASSUME TypeOK, StallsEnd, Next
                  PROVE  StallsEnd'
      OBVIOUS
    <2>1. mul_req_r' => \E i \in 1 .. MulStage : mul_pipe'[i].vld
      <3>. SUFFICES ASSUME mul_req_r' PROVE \E i \in 1 .. MulStage : mul_pipe'[i].vld
        OBVIOUS
      <3>1. ~mul_rsp_vld /\ (mul_start \/ mul_req_r)
        BY DEF Next, Clock, UpdateRequests
      <3>2. CASE mul_req_r
        <4>1. PICK i \in 1 .. MulStage : mul_pipe[i].vld
          BY <3>2 DEF StallsEnd
        <4>2. i + 1 \in 1 .. MulStage
          BY <3>1, <4>1, UnitAssumption DEF mul_rsp_vld
        <4>3. mul_pipe'[i + 1] = mul_pipe[i]
          BY <4>2 DEF Next, Clock, UpdateUnits
        <4>. QED
          BY <4>1, <4>2, <4>3
      <3>3. CASE ~mul_req_r
        <4>1. mul_req_vld
          BY <3>1, <3>3 DEF mul_req_vld
        <4>2. mul_pipe'[1].vld /\ 1 \in 1 .. MulStage
          BY <4>1, UnitAssumption DEF Next, Clock, UpdateUnits
        <4>. QED
          BY <4>2
      <3>. QED
        BY <3>2, <3>3
    <2>2. div_req_r' => div'.busy_r \/ div'.busy_p
      BY DEF TypeOK, StallsEnd, Next, Clock, UpdateRequests, UpdateUnits, div_req_vld, div_rsp_vld
    <2>. QED
      BY <2>1, <2>2 DEF StallsEnd
  <1>3. StallsEnd /\ UNCHANGED vars => StallsEnd'
    BY DEF StallsEnd, vars, mdvars
  <1>. QED
    BY <1>1, <1>2, <1>3, TypeCorrect, PTL DEF Spec

-----------------------------------------------------------------------------
(* The invariants behind the bypass network.                               *)

\* The LSU waits for the memory with the copy of an instruction: nothing is
\* in the last stage, and what the last stage held is in the register file.
Waiting ==
    ~ex2ls_real /\ ~trap_flush =>
        /\ ex2ls_vld /\ ~bjp_mis_r /\ ~id2ex_fire_p
        /\ ls_pipe.kind \in {"load", "store"} /\ ~ls_pipe.wb_vld /\ ~ls_pipe.csr_vld
        /\ ls_pipe.kind = "store" => ~ls_pipe.wb_act
        /\ ~ls.vld /\ ~ls.wb_vld /\ ~mem_ld_req_r /\ ~ls.csr_vld
        /\ ~ex2ex_fw_r.vld
        /\ ls2ex_fw_r.vld => ls2ex_fw_r.idx \in Regs /\ rf[ls2ex_fw_r.idx] = ls2ex_fw_r.data

\* Meanwhile the EXU output registers hold that instruction or, when another
\* one is in the EXU, what that one would leave behind.
Early ==
    ~ex2ls_real /\ ~trap_flush =>
        IF id2ex_init_p
        THEN /\ ex.kind = ls_pipe.kind /\ ex.wb_act = ls_pipe.wb_act /\ ex.wb_idx = ls_pipe.wb_idx
             /\ ~ex.wb_vld /\ ~ex.csr_vld
        ELSE /\ id2ex_vld_r
             /\ ex.kind = "load" => inst.kind = "load"
             /\ ex.wb_vld => ex.wb_idx = inst.rd
             /\ ex.csr_vld => inst.kind = "csr"

\* Otherwise they hold the instruction the EXU handed over last, if it did.
Handed ==
    ex2ls_real /\ ~trap_flush =>
        /\ ~ex2ls_vld => ~ex.wb_vld /\ ~ex.csr_vld
        /\ ex2ls_vld => /\ ex.kind # "none"
                        /\ ex.kind \in {"load", "store"} => ~ex.wb_vld /\ ~ex.csr_vld
                        /\ ex.kind = "store" => ~ex.wb_act
                        /\ ex.kind = "other" => ex.wb_vld = ex.wb_act
        /\ ~ls_stall_vld_r /\ ~cs_stall_vld_r
        /\ bjp_mis_r => ex.kind = "other"

\* What the last stage writes, and a trap, belong to an instruction.
LastStage == /\ ls.wb_vld \/ mem_ld_req_r \/ ls.csr_vld => ls.vld
             /\ trap # "none" => ls.vld

\* An instruction that waits for a unit stays where it is, and what the unit
\* holds is its result, unless requests overlapped.
UnitsHeld ==
    /\ mul_req_r => ex_stall_p /\ id2ex_vld_r /\ ~id2ex_real /\ inst.kind = "mul"
    /\ div_req_r => ex_stall_p /\ id2ex_vld_r /\ ~id2ex_real /\ inst.kind \in {"div", "div0"}
    /\ mul_req_r /\ ~overlap => \A i \in 1 .. MulStage : mul_pipe[i].vld => mul_pipe[i].res = inst.v
    /\ div_req_r /\ ~overlap /\ (div.busy_r \/ div.busy_p) => div.res = inst.v

\* A remembered CSR stall is that of the CSR instruction in the EXU.
CsrHeld == cs_stall_vld_r => id2ex_vld_r /\ ~id2ex_real /\ csr_rd /\ ~ex2ls_real

\* What the instructions behind the EXU are going to leave in register r:
\* the program's value of it.
InFlight(r) == IF ex2ls_vld /\ ls_pipe.wb_act /\ ls_pipe.wb_idx = r
               THEN IF ls_pipe.kind = "load" THEN ls_pipe.ld_data ELSE ls_pipe.wb_data
               ELSE IF wb_vld /\ ls.wb_idx = r THEN wb_data ELSE rf[r]
Retiring    == ~trap_flush => \A r \in Regs : ref[r] = InFlight(r)
RetiringCsr == ~trap_flush => refc = IF ex2ls_vld /\ ls_pipe.csr_vld THEN ls_pipe.csr_data
                                     ELSE IF ls.csr_vld THEN ls.csr_data ELSE csr

\* A load of the operand is just ahead: then the EXU stalls.  Otherwise what
\* is bypassed is the program's value, and so is the operand.
LoadAhead    == ex2ls_vld /\ ls_pipe.kind = "load" /\ ls_pipe.wb_idx = inst.src
LoadStalls   == id2ex_vld /\ inst.src # 0 /\ LoadAhead => ls_stall_vld \/ ls_stall_vld_r
ForwardRight ==
    id2ex_vld /\ inst.src # 0 /\ ~LoadAhead =>
        /\ fw_rs_frm_exu => ex_fw.data = ref[inst.src]
        /\ ~fw_rs_frm_exu /\ fw_rs_frm_lsu => ls_fw.data = ref[inst.src]
        /\ ~fw_rs_frm_exu /\ ~fw_rs_frm_lsu => ref[inst.src] = rf[inst.src]
OperandRight == id2ex_vld /\ inst.src # 0 /\ ~LoadAhead => calc_op = ref[inst.src]

\* The base of a jump is not latched when the EXU waits: it is right in the
\* IDU's registers, or bypassed for as long as the jump has to wait.
JumpRight ==
    id2ex_vld /\ inst.src # 0 /\ ~LoadAhead /\ inst.kind = "jalr" =>
        \/ pipe.opd = ref[inst.src]
        \/ /\ fw_rs_frm_exu \/ fw_rs_frm_lsu
           /\ ~ls_stall_vld_r /\ (\A i \in 1 .. 3 : ~cs_stall_p[i])

\* What the last stage holds of the register a store stores is its data.
StoreRight ==
    ex2ls_vld /\ ls_pipe.kind = "store" /\ wb_vld /\ ex.rs2_idx = ls.wb_idx =>
        wb_data = ls_pipe.st_ref

Control == Waiting /\ Early /\ Handed /\ LastStage /\ UnitsHeld /\ CsrHeld

-----------------------------------------------------------------------------
(* How instructions move.                                                  *)

\* The instruction the LSU looks at.
LEMMA Shape ==
    ASSUME TypeOK, Control, ex2ls_vld
    PROVE  /\ ~trap_flush
           /\ ls_pipe.kind \in {"load", "store", "other"}
           /\ ls_pipe.kind \in {"load", "store"} => ~ls_pipe.wb_vld /\ ~ls_pipe.csr_vld
           /\ ls_pipe.kind = "load" => ls_pipe.wb_act
           /\ ls_pipe.kind = "store" => ~ls_pipe.wb_act
           /\ ls_pipe.kind = "other" => ls_pipe.wb_vld = ls_pipe.wb_act
           /\ ls_pipe.wb_act \in BOOLEAN
  <1>1. ~trap_flush
    BY DEF ex2ls_vld
  <1>2. ls_pipe \in ExRecords /\ (ls_pipe.kind = "load" => ls_pipe.wb_act)
    BY WiresTyped DEF ExRegs
  <1>3. ls_pipe.kind \in {"none", "other", "load", "store"} /\ ls_pipe.wb_act \in BOOLEAN
    BY <1>2 DEF ExRecords
  <1>4. CASE ex2ls_real
    <2>1. ls_pipe = ex
      BY <1>4 DEF ls_pipe
    <2>. QED
      BY <1>1, <1>2, <1>3, <1>4, <2>1 DEF Control, Handed
  <1>5. CASE ~ex2ls_real
    BY <1>1, <1>2, <1>3, <1>5 DEF Control, Waiting
  <1>. QED
    BY <1>4, <1>5

\* What the memory does not take is a load or a store, and nothing is flushed
\* and nothing stalls for another reason meanwhile.
LEMMA Refused ==
    ASSUME TypeOK, Control, ~ex2ls_rdy
    PROVE  /\ ex2ls_vld /\ ls_pipe.kind \in {"load", "store"}
           /\ ~pipe_flush /\ ~id2ex_fire /\ ~ex2ls_fire
           /\ ~ex_stall /\ ~ls_stall /\ ~cs_stalled /\ ~pipe_stall
           /\ \A i \in 1 .. 3 : ~cs_stall_p[i]
           /\ ~mul_req_r /\ ~div_req_r
  <1>1. ex2ls_vld /\ ls_pipe.kind \in {"load", "store"}
    BY DEF ex2ls_rdy, ls2mem_req_vld
  <1>2. ~trap_flush /\ ~ex_stall_p /\ (\A i \in DOMAIN cs_stall_p : ~cs_stall_p[i])
    BY <1>1 DEF ex2ls_vld
  <1>3. \A i \in 1 .. 3 : ~cs_stall_p[i]
    BY <1>2 DEF TypeOK, Bits
  <1>4. ~bjp_mis_r
    <2>1. CASE ex2ls_real
      <3>1. ls_pipe = ex
        BY <2>1 DEF ls_pipe
      <3>. QED
        BY <1>1, <1>2, <2>1, <3>1 DEF Control, Handed
    <2>2. CASE ~ex2ls_real
      BY <1>2, <2>2 DEF Control, Waiting
    <2>. QED
      BY <2>1, <2>2
  <1>5. ~mul_req_r /\ ~div_req_r
    BY <1>2 DEF Control, UnitsHeld
  <1>6. ~ls_stall /\ ~cs_stall
    BY DEF ls_stall, cs_stall
  <1>7. ~cs_stalled
    <2>1. cs_stall_nxt = <<cs_stall, cs_stall_p[1], cs_stall_p[2]>>
      BY DEF cs_stall_nxt
    <2>2. DOMAIN cs_stall_nxt = 1 .. 3
      BY <2>1
    <2>3. ~cs_stall_nxt[1] /\ ~cs_stall_nxt[2] /\ ~cs_stall_nxt[3]
      BY <1>3, <1>6, <2>1
    <2>. QED
      BY <2>2, <2>3 DEF cs_stalled
  <1>8. ~ex_stall
    <2>1. ~pipe_start
      BY DEF pipe_start
    <2>2. ~mul_req_vld /\ ~div_req_vld
      BY <2>1 DEF mul_req_vld, div_req_vld, mul_start, div_start
    <2>. QED
      BY <1>5, <2>2 DEF ex_stall
  <1>9. ~pipe_flush /\ ~id2ex_fire /\ ~ex2ls_fire
    BY <1>2, <1>4 DEF pipe_flush, id2ex_fire, id2ex_rdy, ex2ls_fire
  <1>. QED
    BY <1>1, <1>3, <1>5, <1>6, <1>7, <1>8, <1>9 DEF pipe_stall

\* The handshake registers.
LEMMA HandshakeStep ==
    ASSUME Next
    PROVE  /\ id2ex_fire_p' <=> id2ex_fire
           /\ id2ex_init_p' <=> ~id2ex_vld
           /\ ex2ls_fire_p' <=> ex2ls_fire
           /\ ex2ls_init_p' <=> ~ex2ls_vld
           /\ id2ex_real' <=> id2ex_fire \/ ~id2ex_vld
           /\ ex2ls_real' <=> ex2ls_rdy
           /\ trap_flush' <=> trap # "none"
  <1>1. /\ id2ex_fire_p' = id2ex_fire
        /\ id2ex_init_p' = ~id2ex_vld
        /\ ex2ls_fire_p' = ex2ls_fire
        /\ ex2ls_init_p' = ~ex2ls_vld
    BY DEF Next, Clock, UpdateHandshake
  <1>2. id2ex_real' <=> id2ex_fire_p' \/ id2ex_init_p'
    BY DEF id2ex_real
  <1>3. ex2ls_real' <=> ex2ls_fire_p' \/ ex2ls_init_p'
    BY DEF ex2ls_real
  <1>4. ex2ls_fire \/ ~ex2ls_vld <=> ex2ls_rdy
    BY DEF ex2ls_fire, ex2ls_rdy, ls2mem_req_vld
  <1>5. trap_flush' <=> trap # "none"
    BY DEF Next, Clock, UpdateState
  <1>. QED
    BY <1>1, <1>2, <1>3, <1>4, <1>5, Zenon

\* The stall registers.
LEMMA StallStep ==
    ASSUME TypeOK, Next
    PROVE  /\ ex_stall_p' <=> ex_stall /\ ~pipe_flush
           /\ ls_stall_p' <=> ls_stall /\ ~pipe_flush
           /\ (\E i \in 1 .. 3 : cs_stall_p'[i]) <=> cs_stalled /\ ~pipe_flush
           /\ DOMAIN cs_stall_p' = 1 .. 3
           /\ ls_stall_vld_r' <=> ~ex2ls_rdy /\ (ls_stall_vld \/ ls_stall_vld_r)
           /\ cs_stall_vld_r' <=> ~ex2ls_rdy /\ (cs_stall_vld \/ cs_stall_vld_r)
  <1>1. /\ ex_stall_p' = (ex_stall /\ ~pipe_flush)
        /\ ls_stall_p' = (ls_stall /\ ~pipe_flush)
        /\ ls_stall_vld_r' = IF ex2ls_rdy THEN FALSE ELSE ls_stall_vld \/ ls_stall_vld_r
        /\ cs_stall_p' = IF pipe_flush THEN <<FALSE, FALSE, FALSE>> ELSE cs_stall_nxt
        /\ cs_stall_vld_r' = IF ex2ls_rdy THEN FALSE ELSE cs_stall_vld \/ cs_stall_vld_r
    BY DEF Next, Clock, UpdateStalls
  <1>2. DOMAIN cs_stall_nxt = 1 .. 3
    BY DEF cs_stall_nxt
  <1>3. DOMAIN cs_stall_p' = 1 .. 3
    BY <1>1, <1>2
  <1>4. (\E i \in 1 .. 3 : cs_stall_p'[i]) <=> cs_stalled /\ ~pipe_flush
    <2>1. CASE pipe_flush
      BY <1>1, <2>1
    <2>2. CASE ~pipe_flush
      BY <1>1, <1>2, <2>2 DEF cs_stalled
    <2>. QED
      BY <2>1, <2>2
  <1>5. /\ ex_stall_p' <=> ex_stall /\ ~pipe_flush
        /\ ls_stall_p' <=> ls_stall /\ ~pipe_flush
    BY <1>1, Zenon
  <1>6. /\ ls_stall_vld_r' <=> ~ex2ls_rdy /\ (ls_stall_vld \/ ls_stall_vld_r)
        /\ cs_stall_vld_r' <=> ~ex2ls_rdy /\ (cs_stall_vld \/ cs_stall_vld_r)
    <2>1. CASE ex2ls_rdy
      BY <1>1, <2>1
    <2>2. CASE ~ex2ls_rdy
      BY <1>1, <2>2, Zenon
    <2>. QED
      BY <2>1, <2>2
  <1>. QED
    BY <1>3, <1>4, <1>5, <1>6

\* The LSU keeps the instruction the memory does not take, and otherwise gets
\* the one that leaves the EXU.
LEMMA LsuFlow ==
    ASSUME TypeOK, Control, Next
    PROVE  /\ ~ex2ls_rdy => /\ ~ex2ls_real' /\ ls_pipe' = ls_pipe
                            /\ ~trap_flush' => ex2ls_vld'
           /\ ex2ls_rdy => /\ ex2ls_real' /\ ls_pipe' = ex'
                           /\ ~trap_flush' => (ex2ls_vld' <=> id2ex_fire)
  <1>. USE HandshakeStep, StallStep
  <1>1. ex2ls_vld_r' = IF id2ex_vld THEN TRUE ELSE ex2ls_vld_r /\ ~(ex2ls_rdy \/ pipe_flush)
    BY DEF Next, Clock, UpdateEx
  <1>2. ex2ls_vld' <=> /\ ex2ls_vld_r' /\ ~trap_flush' /\ ~ex_stall_p' /\ ~ls_stall_p'
                       /\ \A i \in 1 .. 3 : ~cs_stall_p'[i]
    <2>1. ex2ls_vld' <=> /\ ex2ls_vld_r' /\ ~trap_flush' /\ ~ex_stall_p' /\ ~ls_stall_p'
                         /\ \A i \in DOMAIN cs_stall_p' : ~cs_stall_p'[i]
      BY DEF ex2ls_vld
    <2>. QED
      BY <2>1
  <1>3. ASSUME ~ex2ls_rdy
        PROVE  ~ex2ls_real' /\ ls_pipe' = ls_pipe /\ (~trap_flush' => ex2ls_vld')
    <2>1. ~ex2ls_real'
      BY <1>3
    <2>2. ls_pipe' = ex2ls_r' /\ ex2ls_r' = ls_pipe
      <3>1. ls_pipe' = ex2ls_r'
        BY <2>1 DEF ls_pipe
      <3>2. ex2ls_r' = IF ex2ls_real' THEN NoEx ELSE ls_pipe
        BY DEF Next, Clock, UpdateLsu
      <3>. QED
        BY <2>1, <3>1, <3>2
    <2>3. /\ ex2ls_vld /\ ~pipe_flush
          /\ ~ex_stall_p' /\ ~ls_stall_p' /\ (\A i \in 1 .. 3 : ~cs_stall_p'[i])
      BY <1>3, Refused
    <2>4. ex2ls_vld_r
      BY <2>3 DEF ex2ls_vld
    <2>5. ex2ls_vld_r'
      BY <1>1, <1>3, <2>3, <2>4
    <2>. QED
      BY <1>2, <2>1, <2>2, <2>3, <2>5
  <1>4. ASSUME ex2ls_rdy
        PROVE  ex2ls_real' /\ ls_pipe' = ex' /\ (~trap_flush' => (ex2ls_vld' <=> id2ex_fire))
    <2>1. ex2ls_real' /\ ls_pipe' = ex'
      BY <1>4 DEF ls_pipe
    <2>2. ex2ls_vld_r' <=> id2ex_vld
      BY <1>1, <1>4
    <2>3. id2ex_fire <=> id2ex_vld /\ ~ex_stall /\ ~ls_stall /\ ~cs_stalled
      BY <1>4 DEF id2ex_fire, id2ex_rdy, pipe_stall
    <2>4. id2ex_vld => ~pipe_flush
      BY DEF id2ex_vld
    <2>. QED
      BY <1>2, <2>1, <2>2, <2>3, <2>4
  <1>. QED
    BY <1>3, <1>4

\* The EXU keeps the instruction that does not leave, with its operand, and
\* otherwise gets the one the IDU was decoding, with the operand just read.
LEMMA ExuFlow ==
    ASSUME TypeOK, Next
    PROVE  /\ id2ex_vld /\ ~id2ex_fire => /\ ~id2ex_real' /\ id2ex_vld_r'
                                          /\ pipe' = pipe /\ inst' = inst /\ src_r' = calc_op
           /\ id2ex_fire \/ ~id2ex_vld =>
                  /\ id2ex_real' /\ pipe' = id'
                  /\ id2ex_vld_r' => /\ if2id # NoInst /\ ~pipe_flush /\ inst' = if2id
                                     /\ id'.opd = Rs_data(if2id.src)
  <1>. USE HandshakeStep
  <1>. DEFINE id_pre == if2id # NoInst /\ ~pipe_flush
  <1>1. /\ id2ex_vld_r' = IF id_pre THEN TRUE ELSE id2ex_vld_r /\ ~(id2ex_rdy \/ pipe_flush)
        /\ id' = IF id_pre THEN [inst |-> if2id, opd |-> Rs_data(if2id.src)] ELSE id
    BY DEF Next, Clock, UpdateIdu
  <1>2. /\ id2ex_r' = IF id2ex_real' THEN NoId ELSE pipe
        /\ src_r' = (~id2ex_real' /\ calc_op)
    BY DEF Next, Clock, UpdateBuffers
  <1>3. id2ex_vld <=> id2ex_vld_r /\ ~pipe_flush
    BY DEF id2ex_vld
  <1>4. id2ex_fire <=> id2ex_vld /\ id2ex_rdy
    BY DEF id2ex_fire
  <1>5. calc_op \in BOOLEAN
    BY DataTyped
  <1>6. ASSUME id2ex_vld, ~id2ex_fire
        PROVE  /\ ~id2ex_real' /\ id2ex_vld_r'
               /\ pipe' = pipe /\ inst' = inst /\ src_r' = calc_op
    <2>1. ~id2ex_real'
      BY <1>6
    <2>2. pipe' = pipe /\ inst' = inst
      BY <1>2, <2>1 DEF pipe, inst
    <2>3. src_r' = calc_op
      BY <1>2, <1>5, <2>1
    <2>4. id2ex_vld_r'
      BY <1>1, <1>3, <1>4, <1>6
    <2>. QED
      BY <2>1, <2>2, <2>3, <2>4
  <1>7. ASSUME id2ex_fire \/ ~id2ex_vld
        PROVE  /\ id2ex_real' /\ pipe' = id'
               /\ id2ex_vld_r' => /\ if2id # NoInst /\ ~pipe_flush /\ inst' = if2id
                                  /\ id'.opd = Rs_data(if2id.src)
    <2>1. id2ex_real' /\ pipe' = id'
      BY <1>7 DEF pipe
    <2>2. ASSUME id2ex_vld_r' PROVE id_pre
      BY <1>1, <1>3, <1>4, <1>7, <2>2
    <2>3. ASSUME id_pre PROVE inst' = if2id /\ id'.opd = Rs_data(if2id.src)
      <3>1. id' = [inst |-> if2id, opd |-> Rs_data(if2id.src)]
        BY <1>1, <2>3
      <3>. QED
        BY <2>1, <3>1 DEF inst
    <2>. QED
      BY <2>1, <2>2, <2>3
  <1>. QED
    BY <1>6, <1>7

\* What the last stage gets.
LEMMA LastFlow ==
    ASSUME TypeOK, Control, Next
    PROVE  /\ ls'.vld <=> ex2ls_fire
           /\ ls'.wb_vld <=> ex2ls_fire /\ ls_pipe.wb_act /\ ls_pipe.wb_vld
           /\ mem_ld_req_r' <=> ex2ls_fire /\ ls_pipe.kind = "load"
           /\ ls'.csr_vld <=> ex2ls_fire /\ ls_pipe.csr_vld
           /\ ex2ls_fire /\ ls_pipe.csr_vld => ls'.csr_data = ls_pipe.csr_data
           /\ ~trap_flush' => (wb_vld' <=> ex2ls_fire /\ ls_pipe.wb_act)
           /\ ex2ls_fire /\ ls_pipe.wb_act =>
                  /\ ls'.wb_idx = ls_pipe.wb_idx
                  /\ wb_data' = IF ls_pipe.kind = "load" THEN ls_pipe.ld_data ELSE ls_pipe.wb_data
  <1>1. /\ mem_ld_req_r' = (mem_req_fire /\ ls_pipe.kind = "load")
        /\ rsp_data' = (mem_req_fire /\ ls_pipe.ld_data)
        /\ ls' = [vld      |-> ex2ls_fire,
                  wb_vld   |-> ex2ls_fire /\ ls_pipe.wb_act /\ ls_pipe.wb_vld,
                  wb_data  |-> ex2ls_fire /\ ls_pipe.wb_vld /\ ls_pipe.wb_data,
                  wb_idx   |-> IF ex2ls_vld /\ ls_pipe.wb_act THEN ls_pipe.wb_idx ELSE ls.wb_idx,
                  csr_vld  |-> ex2ls_fire /\ ls_pipe.csr_vld,
                  csr_data |-> ex2ls_fire /\ ls_pipe.csr_vld /\ ls_pipe.csr_data]
    BY DEF Next, Clock, UpdateLsu
  <1>2. /\ ls_pipe.ld_data \in BOOLEAN /\ ls_pipe.wb_data \in BOOLEAN /\ ls_pipe.csr_data \in BOOLEAN
        /\ ls_pipe.wb_vld \in BOOLEAN /\ ls_pipe.csr_vld \in BOOLEAN /\ ls_pipe.wb_act \in BOOLEAN
    BY WiresTyped DEF ExRegs, ExRecords
  <1>3. ex2ls_fire \in BOOLEAN /\ (ex2ls_fire => ex2ls_vld)
    BY DEF ex2ls_fire, ex2ls_vld
  <1>4. /\ ls'.vld <=> ex2ls_fire
        /\ ls'.wb_vld <=> ex2ls_fire /\ ls_pipe.wb_act /\ ls_pipe.wb_vld
        /\ ls'.csr_vld <=> ex2ls_fire /\ ls_pipe.csr_vld
        /\ ex2ls_fire /\ ls_pipe.csr_vld => ls'.csr_data = ls_pipe.csr_data
        /\ ex2ls_fire /\ ls_pipe.wb_vld => ls'.wb_data = ls_pipe.wb_data
        /\ ex2ls_fire /\ ls_pipe.wb_act => ls'.wb_idx = ls_pipe.wb_idx
    <2>. HIDE DEF Control
    <2>1. ls'.csr_data = (ex2ls_fire /\ ls_pipe.csr_vld /\ ls_pipe.csr_data)
      BY <1>1
    <2>2. ls'.wb_data = (ex2ls_fire /\ ls_pipe.wb_vld /\ ls_pipe.wb_data)
      BY <1>1
    <2>3. ls'.vld = ex2ls_fire /\ ls'.wb_vld = (ex2ls_fire /\ ls_pipe.wb_act /\ ls_pipe.wb_vld)
          /\ ls'.csr_vld = (ex2ls_fire /\ ls_pipe.csr_vld)
      BY <1>1
    <2>4. ex2ls_fire /\ ls_pipe.wb_act => ls'.wb_idx = ls_pipe.wb_idx
      BY <1>1, <1>3
    <2>. QED
      BY <1>2, <1>3, <2>1, <2>2, <2>3, <2>4, Zenon
  <1>5. mem_req_fire /\ ls_pipe.kind = "load" <=> ex2ls_fire /\ ls_pipe.kind = "load"
    BY DEF mem_req_fire, ls2mem_req_vld, ex2ls_fire, ex2ls_rdy
  <1>6. mem_ld_req_r' <=> ex2ls_fire /\ ls_pipe.kind = "load"
    BY <1>1, <1>5, Zenon
  <1>7. ASSUME ~trap_flush' PROVE wb_vld' <=> ex2ls_fire /\ ls_pipe.wb_act
    <2>1. wb_vld' <=> ls'.wb_vld \/ mem_ld_req_r'
      BY <1>7 DEF wb_vld
    <2>2. ex2ls_fire => (ls_pipe.wb_act <=> (ls_pipe.wb_act /\ ls_pipe.wb_vld) \/ ls_pipe.kind = "load")
      BY <1>2, <1>3, Shape
    <2>. QED
      BY <1>4, <1>6, <2>1, <2>2
  <1>8. ASSUME ex2ls_fire, ls_pipe.wb_act
        PROVE  wb_data' = IF ls_pipe.kind = "load" THEN ls_pipe.ld_data ELSE ls_pipe.wb_data
    <2>1. wb_data' = IF ls'.wb_vld THEN ls'.wb_data ELSE IF mem_ld_req_r' THEN rsp_data' ELSE mem_ld_data_r'
      BY DEF wb_data
    <2>2. CASE ls_pipe.kind = "load"
      <3>1. ~ls_pipe.wb_vld
        BY <1>3, <1>8, <2>2, Shape
      <3>2. ~ls'.wb_vld /\ mem_ld_req_r'
        BY <1>4, <1>6, <1>8, <2>2, <3>1
      <3>3. mem_req_fire
        BY <1>5, <1>8, <2>2
      <3>4. rsp_data' = ls_pipe.ld_data
        BY <1>1, <1>2, <3>3
      <3>. QED
        BY <2>1, <2>2, <3>2, <3>4
    <2>3. CASE ls_pipe.kind # "load"
      <3>1. ls_pipe.wb_vld
        BY <1>2, <1>3, <1>8, <2>3, Shape
      <3>2. ls'.wb_vld /\ ls'.wb_data = ls_pipe.wb_data
        BY <1>4, <1>8, <3>1
      <3>. QED
        BY <2>1, <2>3, <3>2
    <2>. QED
      BY <2>2, <2>3
  <1>. QED
    BY <1>4, <1>6, <1>7, <1>8

\* What the EXU output registers get.
LEMMA ExStep ==
    ASSUME TypeOK, Next
    PROVE  /\ ~pipe_nxt => /\ ~ex'.wb_vld /\ ~ex'.csr_vld /\ ex'.kind = ex.kind
                           /\ ex'.wb_act = ex.wb_act /\ ex'.wb_idx = ex.wb_idx
           /\ pipe_nxt => /\ ex'.kind = IF op_ldst THEN inst.kind ELSE "other"
                          /\ ex'.rs2_idx = inst.src
                          /\ ex'.wb_act <=> inst.rd # 0
                          /\ inst.rd # 0 => ex'.wb_idx = inst.rd
                          /\ ex'.wb_vld <=> inst.rd # 0 /\ ~op_ldst
                          /\ inst.rd # 0 /\ ~op_ldst => ex'.wb_data = ex_wb_data
                          /\ inst.kind = "load" => ex'.ld_data = inst.v
                          /\ inst.kind = "store" /\ inst.src # 0 => ex'.st_ref = ref[inst.src]
                          /\ ex'.csr_vld <=> inst.kind = "csr"
                          /\ ex'.csr_data = csr_rs_data
  <1>1. CASE ~pipe_nxt
    <2>1. ex' = [ex EXCEPT !.wb_vld = FALSE, !.csr_vld = FALSE]
      BY <1>1 DEF Next, Clock, UpdateEx
    <2>2. ex \in ExRecords
      BY DEF TypeOK, ExRegs
    <2>. QED
      BY <1>1, <2>1, <2>2 DEF ExRecords
  <1>2. CASE pipe_nxt
    <2>. DEFINE K == IF op_ldst THEN inst.kind ELSE "other"
                I == IF inst.rd # 0 THEN inst.rd ELSE ex.wb_idx
                D == IF inst.rd # 0 /\ ~op_ldst THEN ex_wb_data ELSE ex.wb_data
                S == IF inst.kind = "store" THEN st_data ELSE ex.st_data
                F == inst.kind = "store" /\ inst.src # 0 /\ ref[inst.src]
                L == inst.kind = "load" /\ inst.v
                A == inst.rd # 0
                V == inst.rd # 0 /\ ~op_ldst
                C == inst.kind = "csr"
    <2>1. ex' = [kind |-> K, rs2_idx |-> inst.src, wb_act |-> A, wb_idx |-> I, wb_vld |-> V,
                 wb_data |-> D, ld_data |-> L, st_data |-> S, st_ref |-> F, csr_vld |-> C,
                 csr_data |-> csr_rs_data]
      BY <1>2 DEF Next, Clock, UpdateEx
    <2>2. inst.v \in BOOLEAN /\ (inst.src # 0 => ref[inst.src] \in BOOLEAN)
      BY WiresTyped DEF TypeOK, Bits
    <2>3. (inst.kind = "load" => L = inst.v)
          /\ (inst.kind = "store" /\ inst.src # 0 => F = ref[inst.src])
      BY <2>2
    <2>4. (inst.rd # 0 => I = inst.rd) /\ (inst.rd # 0 /\ ~op_ldst => D = ex_wb_data)
      OBVIOUS
    <2>5. (A <=> inst.rd # 0) /\ (V <=> inst.rd # 0 /\ ~op_ldst) /\ (C <=> inst.kind = "csr")
          /\ K = IF op_ldst THEN inst.kind ELSE "other"
      OBVIOUS
    <2>. HIDE DEF K, I, D, S, F, L, A, V, C
    <2>6. /\ ex'.kind = K /\ ex'.rs2_idx = inst.src /\ ex'.wb_act = A /\ ex'.wb_idx = I
          /\ ex'.wb_vld = V /\ ex'.wb_data = D /\ ex'.ld_data = L /\ ex'.st_ref = F
          /\ ex'.csr_vld = C /\ ex'.csr_data = csr_rs_data
      BY <2>1
    <2>. QED
      BY <1>2, <2>3, <2>4, <2>5, <2>6
  <1>. QED
    BY <1>1, <1>2

\* What a flush leaves: nothing behind the EXU.
LEMMA Flushed ==
    ASSUME TypeOK, Next, trap_flush
    PROVE  /\ ~id2ex_vld /\ ~ex2ls_vld /\ ex2ls_rdy /\ ~wb_vld
           /\ ex2ls_real' /\ ~ex2ls_vld'
           /\ ~ls'.wb_vld /\ ~mem_ld_req_r' /\ ~ls'.csr_vld /\ ~wb_vld'
           /\ rf' = rf /\ ref' = rf /\ refc' = csr'
  <1>1. ~id2ex_vld /\ ~ex2ls_vld /\ ~wb_vld /\ pipe_flush
    BY DEF id2ex_vld, ex2ls_vld, wb_vld, pipe_flush
  <1>2. ex2ls_rdy /\ ~ex2ls_fire /\ ~mem_req_fire
    BY <1>1 DEF ex2ls_rdy, ex2ls_fire, mem_req_fire, ls2mem_req_vld
  <1>3. ex2ls_real'
    BY <1>2, HandshakeStep
  <1>4. ~ex2ls_vld_r'
    BY <1>1, <1>2 DEF Next, Clock, UpdateEx
  <1>5. ~ls'.wb_vld /\ ~mem_ld_req_r' /\ ~ls'.csr_vld
    <2>1. mem_ld_req_r' = (mem_req_fire /\ ls_pipe.kind = "load")
          /\ ls'.wb_vld = (ex2ls_fire /\ ls_pipe.wb_act /\ ls_pipe.wb_vld)
          /\ ls'.csr_vld = (ex2ls_fire /\ ls_pipe.csr_vld)
      BY DEF Next, Clock, UpdateLsu
    <2>. QED
      BY <1>2, <2>1, Zenon
  <1>6. rf' = rf /\ ref' = rf /\ refc' = csr'
    BY <1>1 DEF Next, Clock, UpdateState, UpdateRef, cm2rf_wb_vld
  <1>. QED
    BY <1>1, <1>2, <1>3, <1>4, <1>5, <1>6 DEF ex2ls_vld, wb_vld

-----------------------------------------------------------------------------
(* The control invariants are inductive.                                   *)

\* What instructions there are.
LEMMA ProgramFacts ==
    ASSUME TypeOK
    PROVE  /\ inst.kind = "store" => inst.rd = 0
           /\ inst.mis => inst.kind \in {"br", "jalr"}
           /\ inst.kind = "jalr" => inst.src2 = 0
  <1>1. inst \in program \cup {NoInst}
    BY WiresTyped
  <1>2. program \subseteq UNION Programs
    BY DEF TypeOK
  <1>3. CASE inst = NoInst
    BY <1>3 DEF NoInst
  <1>4. CASE inst \in UNION Programs
    BY <1>4, ProgramAssumption
  <1>. QED
    BY <1>1, <1>2, <1>3, <1>4

\* The register file after the clock edge, when no trap is taken.
LEMMA RegfileStep ==
    ASSUME TypeOK, Next, ~trap_flush'
    PROVE  /\ \A r \in Regs : rf'[r] = IF wb_vld /\ ls.wb_idx = r THEN wb_data ELSE rf[r]
           /\ csr' = IF ls.csr_vld THEN ls.csr_data ELSE csr
           /\ wb_vld => ls.wb_idx \in Regs
  <1>1. trap = "none"
    BY HandshakeStep
  <1>2. rf' = IF wb_vld THEN [rf EXCEPT ![ls.wb_idx] = wb_data] ELSE rf
    BY <1>1 DEF Next, Clock, UpdateState, cm2rf_wb_vld
  <1>3. csr' = IF ls.csr_vld THEN ls.csr_data ELSE csr
    BY <1>1 DEF Next, Clock, UpdateState, cm2cs_csr_vld
  <1>4. wb_vld => ls.wb_idx \in Regs
    BY DEF TypeOK, LsRegs, wb_vld
  <1>5. rf \in [Regs -> BOOLEAN]
    BY DEF TypeOK, Bits
  <1>. QED
    BY <1>2, <1>3, <1>4, <1>5

\* A refused instruction is copied, and the last stage empties into the register file.
LEMMA WaitingStep == ASSUME TypeOK, Control, Next PROVE Waiting'
  <1>. SUFFICES ASSUME ~ex2ls_real', ~trap_flush'
                PROVE  /\ ex2ls_vld' /\ ~bjp_mis_r' /\ ~id2ex_fire_p'
                       /\ ls_pipe'.kind \in {"load", "store"} /\ ~ls_pipe'.wb_vld /\ ~ls_pipe'.csr_vld
                       /\ ls_pipe'.kind = "store" => ~ls_pipe'.wb_act
                       /\ ~ls'.vld /\ ~ls'.wb_vld /\ ~mem_ld_req_r' /\ ~ls'.csr_vld
                       /\ ~ex2ex_fw_r'.vld
                       /\ ls2ex_fw_r'.vld => /\ ls2ex_fw_r'.idx \in Regs
                                             /\ rf'[ls2ex_fw_r'.idx] = ls2ex_fw_r'.data
    BY DEF Waiting
  <1>1. ~ex2ls_rdy
    BY HandshakeStep
  <1>2. /\ ex2ls_vld /\ ls_pipe.kind \in {"load", "store"}
        /\ ~pipe_flush /\ ~id2ex_fire /\ ~ex2ls_fire
    BY <1>1, Refused
  <1>3. ls_pipe' = ls_pipe /\ ex2ls_vld'
    BY <1>1, LsuFlow
  <1>4. ~ls_pipe.wb_vld /\ ~ls_pipe.csr_vld /\ (ls_pipe.kind = "store" => ~ls_pipe.wb_act) /\ ~trap_flush
    BY <1>2, Shape
  <1>5. ~bjp_mis_r' /\ ~id2ex_fire_p'
    <2>1. bjp_mis_r' = bjp_mis
      BY DEF Next, Clock, UpdateEx
    <2>2. ~bjp_mis
      BY <1>2 DEF bjp_mis
    <2>. QED
      BY <1>2, <2>1, <2>2, HandshakeStep
  <1>6. ~ls'.vld /\ ~ls'.wb_vld /\ ~mem_ld_req_r' /\ ~ls'.csr_vld
    BY <1>2, LastFlow
  <1>7. ex2ex_fw_r' = ex_fw /\ ls2ex_fw_r' = ls_fw
    BY DEF Next, Clock, UpdateBuffers
  <1>8. ~ex_fw.vld
    <2>1. CASE ex2ls_real
      BY <1>4, <2>1 DEF ex_fw, ls_pipe
    <2>2. CASE ~ex2ls_real
      BY <1>4, <2>2 DEF ex_fw, Control, Waiting
    <2>. QED
      BY <2>1, <2>2
  <1>9. ls_fw.vld => ls_fw.idx \in Regs /\ rf'[ls_fw.idx] = ls_fw.data
    <2>1. CASE ex2ls_real
      <3>1. ls_fw.vld = wb_vld /\ ls_fw.idx = ls.wb_idx /\ ls_fw.data = wb_data
        BY <2>1 DEF ls_fw
      <3>. QED
        BY <3>1, RegfileStep
    <2>2. CASE ~ex2ls_real
      <3>1. ls_fw = ls2ex_fw_r
        BY <2>2 DEF ls_fw
      <3>2. ~wb_vld /\ (ls2ex_fw_r.vld => ls2ex_fw_r.idx \in Regs
                                           /\ rf[ls2ex_fw_r.idx] = ls2ex_fw_r.data)
        BY <1>4, <2>2 DEF Control, Waiting, wb_vld
      <3>. QED
        BY <3>1, <3>2, RegfileStep
    <2>. QED
      BY <2>1, <2>2
  <1>. QED
    BY <1>2, <1>3, <1>4, <1>5, <1>6, <1>7, <1>8, <1>9

\* While it is refused, the EXU runs its instruction over and over.
LEMMA EarlyStep == ASSUME TypeOK, Control, Next PROVE Early'
  <1>. SUFFICES ASSUME ~ex2ls_real', ~trap_flush'
                PROVE  IF id2ex_init_p'
                       THEN /\ ex'.kind = ls_pipe'.kind /\ ex'.wb_act = ls_pipe'.wb_act
                            /\ ex'.wb_idx = ls_pipe'.wb_idx /\ ~ex'.wb_vld /\ ~ex'.csr_vld
                       ELSE /\ id2ex_vld_r'
                            /\ ex'.kind = "load" => inst'.kind = "load"
                            /\ ex'.wb_vld => ex'.wb_idx = inst'.rd
                            /\ ex'.csr_vld => inst'.kind = "csr"
    BY DEF Early
  <1>1. ~ex2ls_rdy /\ (id2ex_init_p' <=> ~id2ex_vld)
    BY HandshakeStep
  <1>2. ex2ls_vld /\ ~pipe_flush /\ ~id2ex_fire /\ ~pipe_stall
    BY <1>1, Refused
  <1>3. ls_pipe' = ls_pipe /\ ~trap_flush
    BY <1>1, <1>2, LsuFlow DEF pipe_flush
  <1>4. CASE ~id2ex_vld
    <2>1. /\ ~ex'.wb_vld /\ ~ex'.csr_vld /\ ex'.kind = ex.kind
          /\ ex'.wb_act = ex.wb_act /\ ex'.wb_idx = ex.wb_idx
      BY <1>4, ExStep DEF pipe_nxt
    <2>2. ex.kind = ls_pipe.kind /\ ex.wb_act = ls_pipe.wb_act /\ ex.wb_idx = ls_pipe.wb_idx
      <3>1. CASE ex2ls_real
        BY <3>1 DEF ls_pipe
      <3>2. CASE ~ex2ls_real
        <4>1. ~id2ex_vld_r
          BY <1>2, <1>4 DEF id2ex_vld
        <4>. QED
          BY <1>3, <3>2, <4>1 DEF Control, Early
      <3>. QED
        BY <3>1, <3>2
    <2>. QED
      BY <1>1, <1>3, <1>4, <2>1, <2>2
  <1>5. CASE id2ex_vld
    <2>1. pipe_nxt
      BY <1>2, <1>5 DEF pipe_nxt
    <2>2. id2ex_vld_r' /\ inst' = inst
      BY <1>2, <1>5, ExuFlow
    <2>. QED
      BY <1>1, <1>5, <2>1, <2>2, ExStep DEF op_ldst
  <1>. QED
    BY <1>4, <1>5

\* The instruction that leaves the EXU is what its output registers get.
LEMMA Leaves ==
    ASSUME TypeOK, ex2ls_rdy
    PROVE  id2ex_fire <=> pipe_nxt
  BY DEF id2ex_fire, id2ex_rdy, pipe_nxt

\* What the EXU hands over has the shape of an instruction.
LEMMA HandedStep == ASSUME TypeOK, Control, Next PROVE Handed'
  <1>. SUFFICES ASSUME ex2ls_real', ~trap_flush'
                PROVE  /\ ~ex2ls_vld' => ~ex'.wb_vld /\ ~ex'.csr_vld
                       /\ ex2ls_vld' => /\ ex'.kind # "none"
                                        /\ ex'.kind \in {"load", "store"} => ~ex'.wb_vld /\ ~ex'.csr_vld
                                        /\ ex'.kind = "store" => ~ex'.wb_act
                                        /\ ex'.kind = "other" => ex'.wb_vld = ex'.wb_act
                       /\ ~ls_stall_vld_r' /\ ~cs_stall_vld_r'
                       /\ bjp_mis_r' => ex'.kind = "other"
    BY DEF Handed
  <1>1. ex2ls_rdy
    BY HandshakeStep
  <1>2. (ex2ls_vld' <=> id2ex_fire) /\ (id2ex_fire <=> pipe_nxt)
    BY <1>1, LsuFlow, Leaves
  <1>3. ~ls_stall_vld_r' /\ ~cs_stall_vld_r'
    BY <1>1, StallStep
  <1>4. bjp_mis_r' => id2ex_fire /\ inst.mis
    <2>1. bjp_mis_r' = bjp_mis
      BY DEF Next, Clock, UpdateEx
    <2>. QED
      BY <2>1 DEF bjp_mis
  <1>5. CASE ~pipe_nxt
    BY <1>2, <1>3, <1>4, <1>5, ExStep
  <1>6. CASE pipe_nxt
    <2>1. /\ ex'.kind = IF op_ldst THEN inst.kind ELSE "other"
          /\ ex'.wb_act <=> inst.rd # 0
          /\ ex'.wb_vld <=> inst.rd # 0 /\ ~op_ldst
          /\ ex'.csr_vld <=> inst.kind = "csr"
      BY <1>6, ExStep
    <2>2. op_ldst <=> inst.kind \in {"load", "store"}
      BY DEF op_ldst
    <2>3. ex'.wb_vld \in BOOLEAN /\ ex'.wb_act \in BOOLEAN
      BY TypeStep DEF TypeOK, ExRegs, ExRecords
    <2>4. ex'.kind = "other" => ex'.wb_vld = ex'.wb_act
      BY <2>1, <2>2, <2>3
    <2>5. /\ ex'.kind # "none"
          /\ ex'.kind \in {"load", "store"} => ~ex'.wb_vld /\ ~ex'.csr_vld
          /\ ex'.kind = "store" => ~ex'.wb_act
      BY <2>1, <2>2, ProgramFacts
    <2>6. bjp_mis_r' => ex'.kind = "other"
      BY <1>4, <2>1, <2>2, ProgramFacts
    <2>. QED
      BY <1>2, <1>3, <1>6, <2>4, <2>5, <2>6
  <1>. QED
    BY <1>5, <1>6

\* Nothing but an instruction the LSU took gets to the last stage.
LEMMA LastStageStep == ASSUME TypeOK, Control, Next PROVE LastStage'
  <1>1. ls'.wb_vld \/ mem_ld_req_r' \/ ls'.csr_vld => ls'.vld
    BY LastFlow
  <1>2. trap' # "none" => ls'.vld
    BY DEF Next, Drive, ls2cm_vld
  <1>. QED
    BY <1>1, <1>2 DEF LastStage

\* A CSR stall is remembered only for an instruction that stays in the EXU.
LEMMA CsrHeldStep == ASSUME TypeOK, Control, Next PROVE CsrHeld'
  <1>. SUFFICES ASSUME cs_stall_vld_r'
                PROVE  id2ex_vld_r' /\ ~id2ex_real' /\ csr_rd' /\ ~ex2ls_real'
    BY DEF CsrHeld
  <1>1. ~ex2ls_rdy /\ (cs_stall_vld \/ cs_stall_vld_r)
    BY StallStep
  <1>2. ex2ls_vld /\ ~pipe_flush /\ ~id2ex_fire /\ ls_pipe.kind \in {"load", "store"} /\ ~trap_flush
    BY <1>1, Refused DEF pipe_flush
  <1>3. id2ex_vld_r /\ csr_rd
    <2>1. CASE cs_stall_vld_r
      BY <2>1 DEF Control, CsrHeld
    <2>2. CASE cs_stall_vld
      <3>1. ex.csr_vld /\ csr_rd
        BY <2>2 DEF cs_stall_vld
      <3>2. ~ex2ls_real
        BY <1>2, <3>1, Shape DEF ls_pipe
      <3>. QED
        BY <1>2, <3>1, <3>2 DEF Control, Early
    <2>. QED
      BY <1>1, <2>1, <2>2
  <1>4. id2ex_vld
    BY <1>2, <1>3 DEF id2ex_vld
  <1>5. id2ex_vld_r' /\ ~id2ex_real' /\ inst' = inst
    BY <1>2, <1>4, ExuFlow
  <1>6. csr_rd'
    BY <1>3, <1>5 DEF csr_rd
  <1>. QED
    BY <1>1, <1>5, <1>6, HandshakeStep

\* A unit at work for the instruction in the EXU holds that one's result.
LEMMA UnitsHeldStep == ASSUME TypeOK, Control, Next PROVE UnitsHeld'
  <1>1. /\ mul_req_r' <=> ~pipe_flush /\ ~mul_rsp_vld /\ (mul_start \/ mul_req_r)
        /\ div_req_r' <=> ~pipe_flush /\ ~div_rsp_vld /\ (div_start \/ div_req_r)
    <2>1. /\ mul_req_r' = (~pipe_flush /\ ~mul_rsp_vld /\ (mul_start \/ mul_req_r))
          /\ div_req_r' = (~pipe_flush /\ ~div_rsp_vld /\ (div_start \/ div_req_r))
      BY DEF Next, Clock, UpdateRequests
    <2>. QED
      BY <2>1, Zenon
  <1>2. overlap' = Overlap
    BY DEF Next, Clock, UpdateRef
  <1>3. \A i \in 1 .. MulStage : mul_pipe'[i] =
            IF i = 1 THEN [vld |-> mul_req_vld, res |-> mul_req_vld /\ inst.v] ELSE mul_pipe[i - 1]
    BY DEF Next, Clock, UpdateUnits
  <1>4. ASSUME ex_stall, ~pipe_flush, id2ex_vld_r
        PROVE  id2ex_vld /\ ex_stall_p' /\ id2ex_vld_r' /\ ~id2ex_real' /\ inst' = inst
    <2>1. id2ex_vld /\ ~id2ex_fire
      BY <1>4 DEF id2ex_vld, id2ex_fire, id2ex_rdy, pipe_stall
    <2>. QED
      BY <1>4, <2>1, ExuFlow, StallStep
  <1>5. ASSUME mul_req_r'
        PROVE  /\ ex_stall_p' /\ id2ex_vld_r' /\ ~id2ex_real' /\ inst'.kind = "mul"
               /\ ~overlap' => \A i \in 1 .. MulStage : mul_pipe'[i].vld => mul_pipe'[i].res = inst'.v
    <2>1. ~pipe_flush /\ ~mul_rsp_vld /\ (mul_start \/ mul_req_r)
      BY <1>1, <1>5
    <2>2. id2ex_vld_r /\ inst.kind = "mul"
      BY <2>1 DEF mul_start, pipe_start, id2ex_vld, Control, UnitsHeld
    <2>3. ex_stall
      BY <2>1 DEF ex_stall, mul_req_vld
    <2>4. ex_stall_p' /\ id2ex_vld_r' /\ ~id2ex_real' /\ inst' = inst
      BY <1>4, <2>1, <2>2, <2>3
    <2>5. ASSUME ~overlap', NEW i \in 1 .. MulStage, mul_pipe'[i].vld
          PROVE  mul_pipe'[i].res = inst.v
      <3>1. inst.v \in BOOLEAN /\ ~Overlap
        BY <1>2, <2>5, WiresTyped
      <3>2. CASE mul_req_r
        <4>1. ~mul_req_vld /\ ~div_req_vld
          BY <2>2, <3>2 DEF mul_req_vld, div_req_vld, div_start
        <4>2. ~overlap
          BY <3>1, <4>1 DEF Overlap
        <4>3. i # 1
          BY <1>3, <2>5, <4>1
        <4>4. i - 1 \in 1 .. MulStage /\ mul_pipe'[i] = mul_pipe[i - 1]
          BY <1>3, <4>3, UnitAssumption
        <4>. QED
          BY <2>5, <3>2, <4>2, <4>4 DEF Control, UnitsHeld
      <3>3. CASE ~mul_req_r
        <4>1. mul_req_vld
          BY <2>1, <3>3 DEF mul_req_vld
        <4>2. \A j \in 1 .. MulStage : ~mul_pipe[j].vld
          BY <3>1, <4>1 DEF Overlap
        <4>3. CASE i = 1
          BY <1>3, <3>1, <4>1, <4>3
        <4>4. CASE i # 1
          <5>1. i - 1 \in 1 .. MulStage /\ mul_pipe'[i] = mul_pipe[i - 1]
            BY <1>3, <4>4, UnitAssumption
          <5>. QED
            BY <2>5, <4>2, <5>1
        <4>. QED
          BY <4>3, <4>4
      <3>. QED
        BY <3>2, <3>3
    <2>. QED
      BY <2>2, <2>4, <2>5
  <1>6. ASSUME div_req_r'
        PROVE  /\ ex_stall_p' /\ id2ex_vld_r' /\ ~id2ex_real' /\ inst'.kind \in {"div", "div0"}
               /\ ~overlap' /\ (div'.busy_r \/ div'.busy_p) => div'.res = inst'.v
    <2>1. ~pipe_flush /\ ~div_rsp_vld /\ (div_start \/ div_req_r)
      BY <1>1, <1>6
    <2>2. id2ex_vld_r /\ inst.kind \in {"div", "div0"}
      BY <2>1 DEF div_start, pipe_start, id2ex_vld, Control, UnitsHeld
    <2>3. ex_stall
      BY <2>1 DEF ex_stall, div_req_vld
    <2>4. ex_stall_p' /\ id2ex_vld_r' /\ ~id2ex_real' /\ inst' = inst
      BY <1>4, <2>1, <2>2, <2>3
    <2>5. ASSUME ~overlap', div'.busy_r \/ div'.busy_p PROVE div'.res = inst.v
      <3>. DEFINE start == div_req_vld /\ ~dvs_zero
      <3>1. inst.v \in BOOLEAN /\ ~Overlap /\ div.busy_r \in BOOLEAN /\ div.res \in BOOLEAN
        BY <1>2, <2>5, WiresTyped DEF TypeOK
      <3>2. ~dvs_zero /\ ~mul_req_vld
        BY <2>1, <2>2 DEF div_rsp_vld, mul_req_vld, mul_start
      <3>3. PICK any \in BOOLEAN :
              div' = [busy_r |-> IF div.busy_r /\ div_end THEN FALSE ELSE div.busy_r \/ start,
                      busy_p |-> div.busy_r,
                      cnt    |-> IF div.busy_r /\ ~div_end THEN div.cnt + 1 ELSE 0,
                      res    |-> IF div.busy_r /\ start THEN any
                                 ELSE IF start THEN inst.v ELSE div.busy_r /\ div.res]
        BY DEF Next, Clock, UpdateUnits
      <3>4. CASE div_req_r
        <4>1. ~div_req_vld
          BY <3>4 DEF div_req_vld
        <4>2. ~overlap
          BY <3>1, <3>2, <4>1 DEF Overlap
        <4>3. ~start
          BY <4>1
        <4>. HIDE DEF start
        <4>4. div'.res = (div.busy_r /\ div.res) /\ (div'.busy_r => div.busy_r)
              /\ div'.busy_p = div.busy_r
          BY <3>1, <3>3, <4>3
        <4>5. div.busy_r
          BY <2>5, <4>4
        <4>6. div.res = inst.v
          BY <3>4, <4>2, <4>5 DEF Control, UnitsHeld
        <4>. QED
          BY <3>1, <4>4, <4>5, <4>6
      <3>5. CASE ~div_req_r
        <4>1. div_req_vld
          BY <2>1, <3>5 DEF div_req_vld
        <4>2. ~div.busy_r
          BY <3>1, <3>2, <4>1 DEF Overlap
        <4>3. start
          BY <3>2, <4>1
        <4>. HIDE DEF start
        <4>. QED
          BY <3>3, <4>2, <4>3
      <3>. QED
        BY <3>4, <3>5
    <2>. QED
      BY <2>2, <2>4, <2>5
  <1>. QED
    BY <1>5, <1>6 DEF UnitsHeld

\* The control invariants hold in every cycle.
THEOREM ControlInvariance == Spec => []Control
  <1>1. Init => Control
    <2>. SUFFICES ASSUME Init PROVE Control
      OBVIOUS
    <2>1. /\ ex2ls_init_p /\ ~ex2ls_vld_r /\ ex = NoEx /\ ls = NoLs /\ trap = "none"
          /\ ~ls_stall_vld_r /\ ~cs_stall_vld_r /\ ~bjp_mis_r /\ ~mem_ld_req_r
          /\ ~mul_req_r /\ ~div_req_r
      BY DEF Init
    <2>2. ex2ls_real /\ ~ex2ls_vld
      BY <2>1 DEF ex2ls_real, ex2ls_vld
    <2>3. ~ex.wb_vld /\ ~ex.csr_vld /\ ~ls.wb_vld /\ ~ls.csr_vld
      BY <2>1 DEF NoEx, NoLs
    <2>. QED
      BY <2>1, <2>2, <2>3 DEF Control, Waiting, Early, Handed, LastStage, UnitsHeld, CsrHeld
  <1>2. TypeOK /\ Control /\ Next => Control'
    BY WaitingStep, EarlyStep, HandedStep, LastStageStep, UnitsHeldStep, CsrHeldStep DEF Control
  <1>3. Control /\ UNCHANGED vars => Control'
    BY DEF Control, Waiting, Early, Handed, LastStage, UnitsHeld, CsrHeld, vars, invars, idvars,
           bufvars, stvars, mdvars, exvars, lsvars, ex2ls_real, ex2ls_vld, ls_pipe, id2ex_real,
           inst, pipe, csr_rd
  <1>. QED
    BY <1>1, <1>2, <1>3, TypeCorrect, PTL DEF Spec

\* An instruction that waits for the multiplier or the divider gets its own
\* result, for every latency.
THEOREM MulDivOwnHolds == Spec => []MulDivOwn
  <1>1. TypeOK /\ Control => MulDivOwn
    <2>. SUFFICES ASSUME TypeOK, Control, id2ex_fire, ~Overlap
                  PROVE  /\ inst.kind = "mul" => mul_rsp_res = inst.v
                         /\ inst.kind \in {"div", "div0"} => div_rsp_res = inst.v
      BY DEF MulDivOwn
    <2>1. pipe_start /\ ~ex_stall
      BY DEF id2ex_fire, id2ex_rdy, pipe_stall, pipe_start
    <2>2. ASSUME inst.kind = "mul" PROVE mul_rsp_res = inst.v
      <3>1. mul_start /\ mul_rsp_vld /\ MulStage \in 1 .. MulStage
        BY <2>1, <2>2, UnitAssumption DEF mul_start, ex_stall, mul_req_vld
      <3>2. mul_req_r
        <4>1. mul_req_vld => Overlap
          BY <3>1 DEF Overlap, mul_rsp_vld
        <4>. QED
          BY <3>1, <4>1 DEF mul_req_vld
      <3>3. ~overlap
        BY <2>2, <3>2 DEF Overlap, mul_req_vld, div_req_vld, div_start
      <3>. QED
        BY <3>1, <3>2, <3>3 DEF Control, UnitsHeld, mul_rsp_vld, mul_rsp_res
    <2>3. ASSUME inst.kind \in {"div", "div0"} PROVE div_rsp_res = inst.v
      <3>1. div_start /\ div_rsp_vld /\ ~mul_req_vld
        BY <2>1, <2>3 DEF div_start, ex_stall, div_req_vld, mul_req_vld, mul_start
      <3>2. CASE dvs_zero
        BY <3>2 DEF div_rsp_res
      <3>3. CASE ~dvs_zero
        <4>1. div.busy_p
          BY <3>1, <3>3 DEF div_rsp_vld
        <4>2. div_req_vld => Overlap
          BY <3>1, <4>1 DEF Overlap
        <4>3. div_req_r /\ ~div_req_vld
          BY <3>1, <4>2 DEF div_req_vld
        <4>4. ~overlap
          BY <3>1, <4>3 DEF Overlap
        <4>. QED
          BY <3>3, <4>1, <4>3, <4>4 DEF Control, UnitsHeld, div_rsp_res
      <3>. QED
        BY <3>2, <3>3
    <2>. QED
      BY <2>2, <2>3
  <1>. QED
    BY <1>1, TypeCorrect, ControlInvariance, PTL

-----------------------------------------------------------------------------
(* Results: what is in flight is what the program has computed.            *)

\* The registers' program values over a clock edge without a flush.
LEMMA RefStep ==
    ASSUME TypeOK, Next, ~trap_flush
    PROVE  /\ \A r \in Regs : ref'[r] = IF id2ex_fire /\ inst.rd = r
                                        THEN IF inst.kind = "load" THEN inst.v ELSE ex_wb_data
                                        ELSE ref[r]
           /\ refc' = IF id2ex_fire /\ inst.kind = "csr" THEN csr_rs_data ELSE refc
  <1>1. ref' = IF id2ex_fire /\ inst.rd # 0
               THEN [ref EXCEPT ![inst.rd] = IF inst.kind = "load" THEN inst.v ELSE ex_wb_data]
               ELSE ref
    BY DEF Next, Clock, UpdateRef
  <1>2. refc' = IF id2ex_fire /\ inst.kind = "csr" THEN csr_rs_data ELSE refc
    BY DEF Next, Clock, UpdateRef
  <1>3. ref \in [Regs -> BOOLEAN] /\ 0 \notin Regs
    BY DEF TypeOK, Bits, Regs
  <1>. QED
    BY <1>1, <1>2, <1>3

\* What is in flight stays what the program has computed: an instruction that
\* moves a stage takes its result along.
LEMMA RetiringStep == ASSUME TypeOK, Control, Retiring, Next PROVE Retiring'
  <1>. SUFFICES ASSUME ~trap_flush', NEW r \in Regs
                PROVE  ref'[r] = InFlight(r)'
    BY DEF Retiring
  <1>1. InFlight(r)' = IF ex2ls_vld' /\ ls_pipe'.wb_act /\ ls_pipe'.wb_idx = r
                       THEN IF ls_pipe'.kind = "load" THEN ls_pipe'.ld_data ELSE ls_pipe'.wb_data
                       ELSE IF wb_vld' /\ ls'.wb_idx = r THEN wb_data' ELSE rf'[r]
    BY DEF InFlight
  <1>2. CASE trap_flush
    BY <1>1, <1>2, Flushed
  <1>3. CASE ~trap_flush
    <2>1. ref[r] = IF ex2ls_vld /\ ls_pipe.wb_act /\ ls_pipe.wb_idx = r
                   THEN IF ls_pipe.kind = "load" THEN ls_pipe.ld_data ELSE ls_pipe.wb_data
                   ELSE IF wb_vld /\ ls.wb_idx = r THEN wb_data ELSE rf[r]
      BY <1>3 DEF Retiring, InFlight
    <2>2. rf'[r] = IF wb_vld /\ ls.wb_idx = r THEN wb_data ELSE rf[r]
      BY RegfileStep
    <2>3. CASE ~ex2ls_rdy
      <3>1. ex2ls_vld /\ ~id2ex_fire /\ ~ex2ls_fire
        BY <2>3, Refused
      <3>2. ls_pipe' = ls_pipe /\ ex2ls_vld'
        BY <2>3, LsuFlow
      <3>3. ~wb_vld'
        BY <3>1, LastFlow
      <3>4. ref'[r] = ref[r]
        BY <1>3, <3>1, RefStep
      <3>. QED
        BY <1>1, <2>1, <2>2, <3>1, <3>2, <3>3, <3>4
    <2>4. CASE ex2ls_rdy
      <3>1. ls_pipe' = ex' /\ (ex2ls_vld' <=> id2ex_fire) /\ (id2ex_fire <=> pipe_nxt)
        BY <2>4, LsuFlow, Leaves
      <3>2. ex2ls_fire <=> ex2ls_vld
        BY <2>4 DEF ex2ls_fire
      <3>3. /\ wb_vld' <=> ex2ls_vld /\ ls_pipe.wb_act
            /\ ex2ls_vld /\ ls_pipe.wb_act =>
                  /\ ls'.wb_idx = ls_pipe.wb_idx
                  /\ wb_data' = IF ls_pipe.kind = "load" THEN ls_pipe.ld_data ELSE ls_pipe.wb_data
        BY <3>2, LastFlow
      <3>4. (IF wb_vld' /\ ls'.wb_idx = r THEN wb_data' ELSE rf'[r]) = ref[r]
        BY <2>1, <2>2, <3>3
      <3>5. CASE id2ex_fire /\ inst.rd = r
        <4>1. inst.rd # 0
          BY <3>5 DEF Regs
        <4>2. inst.kind # "store"
          BY <4>1, ProgramFacts
        <4>3. op_ldst <=> inst.kind = "load"
          BY <4>2 DEF op_ldst
        <4>4. /\ ex'.wb_act /\ ex'.wb_idx = r
              /\ ex'.kind = "load" <=> inst.kind = "load"
              /\ inst.kind = "load" => ex'.ld_data = inst.v
              /\ inst.kind # "load" => ex'.wb_data = ex_wb_data
          BY <3>1, <3>5, <4>1, <4>3, ExStep
        <4>5. ref'[r] = IF inst.kind = "load" THEN inst.v ELSE ex_wb_data
          BY <1>3, <3>5, RefStep
        <4>. QED
          BY <1>1, <3>1, <3>5, <4>4, <4>5
      <3>6. CASE ~(id2ex_fire /\ inst.rd = r)
        <4>1. ref'[r] = ref[r]
          BY <1>3, <3>6, RefStep
        <4>2. ~(ex2ls_vld' /\ ls_pipe'.wb_act /\ ls_pipe'.wb_idx = r)
          BY <3>1, <3>6, ExStep
        <4>. QED
          BY <1>1, <3>4, <4>1, <4>2
      <3>. QED
        BY <3>5, <3>6
    <2>. QED
      BY <2>3, <2>4
  <1>. QED
    BY <1>2, <1>3

\* The same for the CSR.
LEMMA RetiringCsrStep == ASSUME TypeOK, Control, RetiringCsr, Next PROVE RetiringCsr'
  <1>. SUFFICES ASSUME ~trap_flush'
                PROVE  refc' = IF ex2ls_vld' /\ ls_pipe'.csr_vld THEN ls_pipe'.csr_data
                               ELSE IF ls'.csr_vld THEN ls'.csr_data ELSE csr'
    BY DEF RetiringCsr
  <1>1. CASE trap_flush
    BY <1>1, Flushed
  <1>2. CASE ~trap_flush
    <2>1. refc = IF ex2ls_vld /\ ls_pipe.csr_vld THEN ls_pipe.csr_data
                 ELSE IF ls.csr_vld THEN ls.csr_data ELSE csr
      BY <1>2 DEF RetiringCsr
    <2>2. csr' = IF ls.csr_vld THEN ls.csr_data ELSE csr
      BY RegfileStep
    <2>3. CASE ~ex2ls_rdy
      <3>1. ex2ls_vld /\ ~id2ex_fire /\ ~ex2ls_fire
        BY <2>3, Refused
      <3>2. ls_pipe' = ls_pipe /\ ex2ls_vld'
        BY <2>3, LsuFlow
      <3>3. ~ls'.csr_vld
        BY <3>1, LastFlow
      <3>4. refc' = refc
        BY <1>2, <3>1, RefStep
      <3>. QED
        BY <2>1, <2>2, <3>1, <3>2, <3>3, <3>4
    <2>4. CASE ex2ls_rdy
      <3>1. ls_pipe' = ex' /\ (ex2ls_vld' <=> id2ex_fire) /\ (id2ex_fire <=> pipe_nxt)
        BY <2>4, LsuFlow, Leaves
      <3>2. ex2ls_fire <=> ex2ls_vld
        BY <2>4 DEF ex2ls_fire
      <3>3. /\ ls'.csr_vld <=> ex2ls_vld /\ ls_pipe.csr_vld
            /\ ex2ls_vld /\ ls_pipe.csr_vld => ls'.csr_data = ls_pipe.csr_data
        BY <3>2, LastFlow
      <3>4. (IF ls'.csr_vld THEN ls'.csr_data ELSE csr') = refc
        BY <2>1, <2>2, <3>3
      <3>5. id2ex_fire => (ex'.csr_vld <=> inst.kind = "csr") /\ ex'.csr_data = csr_rs_data
        BY <3>1, ExStep
      <3>6. refc' = IF id2ex_fire /\ inst.kind = "csr" THEN csr_rs_data ELSE refc
        BY <1>2, RefStep
      <3>. QED
        BY <3>1, <3>4, <3>5, <3>6
    <2>. QED
      BY <2>3, <2>4
  <1>. QED
    BY <1>1, <1>2

\* The program's values are those in flight, in every cycle.
THEOREM RetiringInvariance == Spec => [](Retiring /\ RetiringCsr)
  <1>1. Init => Retiring /\ RetiringCsr
    <2>. SUFFICES ASSUME Init PROVE Retiring /\ RetiringCsr
      OBVIOUS
    <2>1. ~ex2ls_vld /\ ~wb_vld /\ ~ls.csr_vld
      BY DEF Init, ex2ls_vld, wb_vld, NoLs
    <2>2. rf = ref /\ csr = refc
      BY DEF Init
    <2>. QED
      BY <2>1, <2>2 DEF Retiring, RetiringCsr, InFlight
  <1>2. TypeOK /\ Control /\ Retiring /\ RetiringCsr /\ Next => Retiring' /\ RetiringCsr'
    BY RetiringStep, RetiringCsrStep
  <1>3. Retiring /\ RetiringCsr /\ UNCHANGED vars => Retiring' /\ RetiringCsr'
    BY DEF Retiring, RetiringCsr, InFlight, vars, invars, idvars, bufvars, stvars, mdvars, exvars,
           lsvars, ex2ls_real, ex2ls_vld, ls_pipe, wb_vld, wb_data
  <1>. QED
    BY <1>1, <1>2, <1>3, TypeCorrect, ControlInvariance, PTL DEF Spec

\* Once the stages behind the EXU are empty, the register file and the CSR
\* hold what the program has computed.
THEOREM ResultsRetiredHolds == Spec => []ResultsRetired
  <1>1. TypeOK /\ Control /\ Retiring /\ RetiringCsr => ResultsRetired
    <2>. SUFFICES ASSUME TypeOK, Control, Retiring, RetiringCsr,
                         ~ex2ls_vld_r, ~ls.vld, ~trap_flush
                  PROVE  rf = ref /\ csr = refc
      BY DEF ResultsRetired
    <2>1. ~ex2ls_vld /\ ~wb_vld /\ ~ls.csr_vld
      BY DEF ex2ls_vld, wb_vld, Control, LastStage
    <2>2. rf \in [Regs -> BOOLEAN] /\ ref \in [Regs -> BOOLEAN]
      BY DEF TypeOK, Bits
    <2>3. \A r \in Regs : ref[r] = rf[r]
      BY <2>1 DEF Retiring, InFlight
    <2>4. csr = refc
      BY <2>1 DEF RetiringCsr
    <2>. QED
      BY <2>2, <2>3, <2>4
  <1>. QED
    BY <1>1, TypeCorrect, ControlInvariance, RetiringInvariance, PTL

\* A CSR instruction reads the newest value of the CSR.
THEOREM CsrReadNewestHolds == Spec => []CsrReadNewest
  <1>1. TypeOK /\ Control /\ RetiringCsr => CsrReadNewest
    <2>. SUFFICES ASSUME TypeOK, Control, RetiringCsr, id2ex_fire, csr_rd
                  PROVE  csr_rd_data = refc
      BY DEF CsrReadNewest
    <2>1. ~trap_flush /\ ~cs_stalled /\ ex2ls_rdy
      BY DEF id2ex_fire, id2ex_rdy, id2ex_vld, pipe_flush, pipe_stall
    <2>2. ~cs_stall
      BY <2>1 DEF cs_stalled, cs_stall_nxt
    <2>3. ~(ex2ls_vld /\ ex.csr_vld)
      BY <2>1, <2>2 DEF cs_stall, cs_stall_vld
    <2>4. CASE ex2ls_real
      <3>1. ls_pipe = ex /\ ~ex.csr_vld
        BY <2>1, <2>3, <2>4 DEF ls_pipe, Control, Handed
      <3>. QED
        BY <2>1, <3>1 DEF RetiringCsr, csr_rd_data
    <2>5. CASE ~ex2ls_real
      <3>1. ex2ls_vld /\ ~ls_pipe.csr_vld
        BY <2>1, <2>5 DEF Control, Waiting
      <3>2. ~ex.csr_vld
        BY <2>3, <3>1
      <3>. QED
        BY <2>1, <3>1, <3>2 DEF RetiringCsr, csr_rd_data
    <2>. QED
      BY <2>4, <2>5
  <1>. QED
    BY <1>1, TypeCorrect, ControlInvariance, RetiringInvariance, PTL

-----------------------------------------------------------------------------
(* Operands.                                                               *)

\* The register the instruction in the EXU reads.
LEMMA SourceTyped ==
    ASSUME TypeOK, inst.src # 0
    PROVE  inst.src \in Regs
  BY WiresTyped

\* What the EXU bypasses is the program's value.
LEMMA Forwarded == TypeOK /\ Control /\ Retiring => ForwardRight
  <1>. SUFFICES ASSUME TypeOK, Control, Retiring, id2ex_vld, inst.src # 0, ~LoadAhead
                PROVE  /\ fw_rs_frm_exu => ex_fw.data = ref[inst.src]
                       /\ ~fw_rs_frm_exu /\ fw_rs_frm_lsu => ls_fw.data = ref[inst.src]
                       /\ ~fw_rs_frm_exu /\ ~fw_rs_frm_lsu => ref[inst.src] = rf[inst.src]
    BY DEF ForwardRight
  <1>. DEFINE r == inst.src
  <1>1. r \in Regs /\ ~trap_flush
    BY SourceTyped DEF id2ex_vld, pipe_flush
  <1>2. ref[r] = IF ex2ls_vld /\ ls_pipe.wb_act /\ ls_pipe.wb_idx = r
                 THEN IF ls_pipe.kind = "load" THEN ls_pipe.ld_data ELSE ls_pipe.wb_data
                 ELSE IF wb_vld /\ ls.wb_idx = r THEN wb_data ELSE rf[r]
    BY <1>1 DEF Retiring, InFlight
  <1>3. ~(ex2ls_vld /\ ls_pipe.kind = "load" /\ ls_pipe.wb_idx = r)
    BY DEF LoadAhead
  <1>4. /\ fw_rs_frm_exu <=> ex_fw.vld /\ ex_fw.idx = r
        /\ fw_rs_frm_lsu <=> ls_fw.vld /\ ls_fw.idx = r
    BY DEF fw_rs_frm_exu, fw_rs_frm_lsu
  <1>5. ex2ls_vld => /\ ls_pipe.kind \in {"load", "store", "other"}
                     /\ ls_pipe.kind \in {"load", "store"} => ~ls_pipe.wb_vld
                     /\ ls_pipe.kind = "store" => ~ls_pipe.wb_act
                     /\ ls_pipe.kind = "other" => ls_pipe.wb_vld = ls_pipe.wb_act
    BY Shape
  <1>. HIDE DEF r
  <1>6. CASE ex2ls_real
    <2>1. /\ ls_pipe = ex /\ ex_fw.vld = ex.wb_vld /\ ex_fw.idx = ex.wb_idx /\ ex_fw.data = ex.wb_data
          /\ ls_fw.vld = wb_vld /\ ls_fw.idx = ls.wb_idx /\ ls_fw.data = wb_data
      BY <1>6 DEF ls_pipe, ex_fw, ls_fw
    <2>2. ~ex2ls_vld => ~ex.wb_vld
      BY <1>1, <1>6 DEF Control, Handed
    <2>3. fw_rs_frm_exu <=> ex2ls_vld /\ ls_pipe.wb_act /\ ls_pipe.wb_idx = r
      BY <1>3, <1>4, <1>5, <2>1, <2>2
    <2>. QED
      BY <1>2, <1>3, <1>4, <2>1, <2>3 DEF r
  <1>7. CASE ~ex2ls_real
    <2>1. ex_fw = ex2ex_fw_r /\ ls_fw = ls2ex_fw_r
      BY <1>7 DEF ex_fw, ls_fw
    <2>2. /\ ~ex2ex_fw_r.vld /\ ~wb_vld
          /\ ls_pipe.kind \in {"load", "store"} /\ (ls_pipe.kind = "store" => ~ls_pipe.wb_act)
          /\ ls2ex_fw_r.vld => rf[ls2ex_fw_r.idx] = ls2ex_fw_r.data
      BY <1>1, <1>7 DEF Control, Waiting, wb_vld
    <2>3. ref[r] = rf[r]
      BY <1>2, <1>3, <2>2
    <2>. QED
      BY <1>4, <2>1, <2>2, <2>3 DEF r
  <1>. QED
    BY <1>6, <1>7

\* What the network selects.
LEMMA Selected ==
    /\ fw_rs_frm_exu => calc_op = ex_fw.data /\ bjp_base = ex_fw.data
    /\ ~fw_rs_frm_exu /\ fw_rs_frm_lsu => calc_op = ls_fw.data /\ bjp_base = ls_fw.data
    /\ ~fw_rs_frm_exu /\ ~fw_rs_frm_lsu =>
           calc_op = (IF id2ex_real THEN id.opd ELSE src_r) /\ bjp_base = pipe.opd
  BY DEF calc_op, bjp_base, Bypassed

\* Unless a load of the register is being handed over, what the IDU reads is
\* the program's value.
LEMMA Read ==
    ASSUME TypeOK, Control, Retiring, ~trap_flush, ex2ls_real, NEW r \in Regs,
           ~(ex2ls_vld /\ ex.kind = "load" /\ ex.wb_idx = r)
    PROVE  Rs_data(r) = ref[r]
  <1>1. r # 0
    BY DEF Regs
  <1>2. Rs_data(r) = IF ex.wb_vld /\ ex.wb_idx = r THEN ex.wb_data
                     ELSE IF wb_vld /\ ls.wb_idx = r THEN wb_data ELSE rf[r]
    BY <1>1 DEF Rs_data
  <1>3. ls_pipe = ex /\ (~ex2ls_vld => ~ex.wb_vld)
    BY DEF ls_pipe, Control, Handed
  <1>4. ref[r] = IF ex2ls_vld /\ ex.wb_act /\ ex.wb_idx = r
                 THEN IF ex.kind = "load" THEN ex.ld_data ELSE ex.wb_data
                 ELSE IF wb_vld /\ ls.wb_idx = r THEN wb_data ELSE rf[r]
    BY <1>3 DEF Retiring, InFlight
  <1>5. ex2ls_vld => /\ ex.kind \in {"load", "store", "other"}
                     /\ ex.kind \in {"load", "store"} => ~ex.wb_vld
                     /\ ex.kind = "store" => ~ex.wb_act
                     /\ ex.kind = "other" => ex.wb_vld = ex.wb_act
    BY <1>3, Shape
  <1>. QED
    BY <1>2, <1>3, <1>4, <1>5

\* What the LSU has just taken is bypassed from the last stage.
LEMMA Taken ==
    ASSUME TypeOK, Control, Next, ~trap_flush', ex2ls_fire, ls_pipe.wb_act,
           inst'.src # 0, ls_pipe.wb_idx = inst'.src
    PROVE  fw_rs_frm_lsu'
  <1>1. ex2ls_real'
    BY HandshakeStep DEF ex2ls_fire
  <1>2. wb_vld' /\ ls'.wb_idx = inst'.src
    BY LastFlow
  <1>3. ls_fw' = [vld |-> wb_vld', idx |-> ls'.wb_idx, data |-> wb_data']
    BY <1>1 DEF ls_fw
  <1>4. ls_fw'.vld = wb_vld' /\ ls_fw'.idx = ls'.wb_idx
    BY <1>3
  <1>. QED
    BY <1>2, <1>4 DEF fw_rs_frm_lsu

\* A load just ahead of an instruction that reads its register is noticed.
LEMMA LoadStallsStep ==
    ASSUME TypeOK, Control, LoadStalls, Next, TypeOK', Control'
    PROVE  LoadStalls'
  <1>. SUFFICES ASSUME id2ex_vld', inst'.src # 0, LoadAhead'
                PROVE  ls_stall_vld' \/ ls_stall_vld_r'
    BY DEF LoadStalls
  <1>1. ex2ls_vld' /\ ls_pipe'.kind = "load" /\ ls_pipe'.wb_idx = inst'.src
    BY DEF LoadAhead
  <1>2. ~trap_flush'
    BY <1>1 DEF ex2ls_vld
  <1>3. ASSUME ex'.kind = "load", ex'.wb_idx = inst'.src, ex'.wb_act PROVE ls_stall_vld'
    BY <1>1, <1>3 DEF ls_stall_vld
  <1>4. CASE ex2ls_rdy
    <2>1. ls_pipe' = ex'
      BY <1>4, LsuFlow
    <2>2. ex'.kind = "load" => ex'.wb_act
      BY DEF TypeOK, ExRegs
    <2>. QED
      BY <1>1, <1>3, <2>1, <2>2
  <1>5. CASE ~ex2ls_rdy
    <2>1. ls_pipe' = ls_pipe /\ ~ex2ls_real' /\ ex2ls_vld /\ ~id2ex_fire
      BY <1>5, LsuFlow, Refused
    <2>2. CASE id2ex_vld
      <3>1. inst' = inst
        BY <2>1, <2>2, ExuFlow
      <3>2. ls_stall_vld \/ ls_stall_vld_r
        BY <1>1, <2>1, <2>2, <3>1 DEF LoadStalls, LoadAhead
      <3>. QED
        BY <1>5, <3>2, StallStep
    <2>3. CASE ~id2ex_vld
      <3>1. id2ex_init_p'
        BY <2>3, HandshakeStep
      <3>2. ex'.kind = ls_pipe'.kind /\ ex'.wb_act = ls_pipe'.wb_act /\ ex'.wb_idx = ls_pipe'.wb_idx
        BY <1>2, <2>1, <3>1 DEF Control, Early
      <3>3. ex'.kind = "load" => ex'.wb_act
        BY DEF TypeOK, ExRegs
      <3>. QED
        BY <1>1, <1>3, <3>2, <3>3
    <2>. QED
      BY <2>2, <2>3
  <1>. QED
    BY <1>4, <1>5

\* An instruction that waits keeps its operand, and one that enters the EXU
\* has read it, or it is bypassed.
LEMMA OperandRightStep ==
    ASSUME TypeOK, Control, OperandRight, Next, TypeOK', ForwardRight'
    PROVE  OperandRight'
  <1>. SUFFICES ASSUME id2ex_vld', inst'.src # 0, ~LoadAhead'
                PROVE  calc_op' = ref'[inst'.src]
    BY DEF OperandRight
  <1>. DEFINE r == inst'.src
  <1>1. ~trap_flush' /\ id2ex_vld_r'
    BY DEF id2ex_vld, pipe_flush
  <1>2. r \in Regs /\ r # 0
    <2>1. TypeOK' => (inst.src # 0 => inst.src \in Regs)'
      BY SourceTyped, PTL
    <2>. QED
      BY <2>1
  <1>3. /\ fw_rs_frm_exu' => ex_fw'.data = ref'[r]
        /\ ~fw_rs_frm_exu' /\ fw_rs_frm_lsu' => ls_fw'.data = ref'[r]
        /\ ~fw_rs_frm_exu' /\ ~fw_rs_frm_lsu' => ref'[r] = rf'[r]
    BY DEF ForwardRight
  <1>4. calc_op' = IF fw_rs_frm_exu' THEN ex_fw'.data ELSE IF fw_rs_frm_lsu' THEN ls_fw'.data
                   ELSE IF id2ex_real' THEN id'.opd ELSE src_r'
    BY DEF calc_op, Bypassed
  <1>5. ~(ex2ls_vld' /\ ls_pipe'.kind = "load" /\ ls_pipe'.wb_idx = r)
    BY DEF LoadAhead
  <1>6. ex2ls_fire /\ ls_pipe.wb_act => ls_pipe.wb_idx # r \/ fw_rs_frm_lsu'
    BY <1>1, <1>2, Taken
  <1>. SUFFICES ASSUME ~fw_rs_frm_exu', ~fw_rs_frm_lsu'
                PROVE  (IF id2ex_real' THEN id'.opd ELSE src_r') = ref'[r]
    BY <1>3, <1>4
  <1>7. CASE id2ex_vld /\ ~id2ex_fire
    <2>1. ~id2ex_real' /\ inst' = inst /\ src_r' = calc_op /\ ~trap_flush
      BY <1>7, ExuFlow DEF id2ex_vld, pipe_flush
    <2>2. ref'[r] = ref[r]
      BY <1>2, <1>7, <2>1, RefStep
    <2>3. ~LoadAhead
      <3>. SUFFICES ASSUME LoadAhead PROVE FALSE
        OBVIOUS
      <3>1. ex2ls_vld /\ ls_pipe.kind = "load" /\ ls_pipe.wb_idx = r
        BY <2>1 DEF LoadAhead
      <3>2. ~ex2ls_rdy => ls_pipe' = ls_pipe /\ ex2ls_vld'
        BY <1>1, LsuFlow
      <3>3. ex2ls_rdy => ex2ls_fire /\ ls_pipe.wb_act
        BY <3>1, Shape DEF ex2ls_fire
      <3>. QED
        BY <1>5, <1>6, <3>1, <3>2, <3>3
    <2>. QED
      BY <1>2, <1>7, <2>1, <2>2, <2>3 DEF OperandRight
  <1>8. CASE id2ex_fire \/ ~id2ex_vld
    <2>1. id2ex_real' /\ ~pipe_flush /\ id'.opd = Rs_data(r)
      BY <1>1, <1>8, ExuFlow
    <2>2. Rs_data(r) = IF ex.wb_vld /\ ex.wb_idx = r THEN ex.wb_data
                       ELSE IF wb_vld /\ ls.wb_idx = r THEN wb_data ELSE rf[r]
      BY <1>2 DEF Rs_data
    <2>3. rf'[r] = IF wb_vld /\ ls.wb_idx = r THEN wb_data ELSE rf[r]
      BY <1>1, <1>2, RegfileStep
    <2>4. ~trap_flush
      BY <2>1 DEF pipe_flush
    <2>5. ~(ex.wb_vld /\ ex.wb_idx = r)
      <3>. SUFFICES ASSUME ex.wb_vld, ex.wb_idx = r PROVE FALSE
        OBVIOUS
      <3>1. CASE ex2ls_real
        <4>1. ls_pipe = ex /\ ex2ls_vld
          BY <2>4, <3>1 DEF ls_pipe, Control, Handed
        <4>2. ls_pipe.kind = "other" /\ ls_pipe.wb_act
          BY <4>1, Shape
        <4>3. ex2ls_fire
          BY <4>1, <4>2 DEF ex2ls_fire, ex2ls_rdy, ls2mem_req_vld
        <4>. QED
          BY <1>6, <4>1, <4>2, <4>3
      <3>2. CASE ~ex2ls_real
        <4>1. id2ex_vld_r /\ inst.rd = r
          BY <2>4, <3>2 DEF Control, Early
        <4>2. id2ex_fire
          BY <1>8, <2>1, <4>1 DEF id2ex_vld
        <4>3. ex2ls_rdy
          BY <4>2 DEF id2ex_fire, id2ex_rdy
        <4>4. pipe_nxt /\ ex2ls_real' /\ ls_pipe' = ex' /\ ex2ls_vld'
          BY <1>1, <4>2, <4>3, LsuFlow, Leaves
        <4>5. /\ ex'.wb_idx = r /\ (ex'.wb_vld <=> ~op_ldst)
              /\ ex'.kind = IF op_ldst THEN inst.kind ELSE "other"
          BY <1>2, <4>1, <4>4, ExStep
        <4>6. op_ldst => inst.kind = "load"
          BY <1>2, <4>1, ProgramFacts DEF op_ldst
        <4>7. ~ex'.wb_vld
          <5>1. ex_fw' = [vld |-> ex'.wb_vld, idx |-> ex'.wb_idx, data |-> ex'.wb_data]
            BY <4>4 DEF ex_fw
          <5>2. ex_fw'.vld = ex'.wb_vld /\ ex_fw'.idx = ex'.wb_idx
            BY <5>1
          <5>. QED
            BY <1>2, <4>5, <5>2 DEF fw_rs_frm_exu
        <4>. QED
          BY <1>5, <4>4, <4>5, <4>6, <4>7
      <3>. QED
        BY <3>1, <3>2
    <2>. QED
      BY <1>3, <2>1, <2>2, <2>3, <2>5
  <1>. QED
    BY <1>7, <1>8

\* A jump that waits is not a CSR instruction, so it is not stalled as one.
LEMMA JumpNotCsr ==
    ASSUME TypeOK, Control, inst.kind = "jalr", \A i \in 1 .. 3 : ~cs_stall_p[i]
    PROVE  ~cs_stalled
  <1>1. ~csr_rd
    BY DEF csr_rd
  <1>2. ~cs_stall
    BY <1>1 DEF cs_stall, cs_stall_vld, Control, CsrHeld
  <1>3. cs_stall_nxt = <<cs_stall, cs_stall_p[1], cs_stall_p[2]>>
    BY DEF cs_stall_nxt
  <1>4. DOMAIN cs_stall_nxt = 1 .. 3 /\ ~cs_stall_nxt[1] /\ ~cs_stall_nxt[2] /\ ~cs_stall_nxt[3]
    BY <1>2, <1>3
  <1>. QED
    BY <1>4 DEF cs_stalled

\* A jump without a load just ahead of it waits for the memory only.
LEMMA JumpWaits ==
    ASSUME TypeOK, Control, id2ex_vld, ~id2ex_fire, inst.kind = "jalr", ~LoadAhead,
           ~ls_stall_vld_r, \A i \in 1 .. 3 : ~cs_stall_p[i]
    PROVE  ~ex2ls_rdy /\ ~ls_stall_vld
  <1>1. ~trap_flush
    BY DEF id2ex_vld, pipe_flush
  <1>2. ~ls_stall_vld
    <2>. SUFFICES ASSUME ls_stall_vld PROVE FALSE
      OBVIOUS
    <2>1. ex2ls_vld /\ ex.kind = "load" /\ ex.wb_idx \in {inst.src, inst.src2}
      BY DEF ls_stall_vld
    <2>2. ex.wb_idx # 0
      BY <2>1 DEF TypeOK, ExRegs
    <2>3. ex.wb_idx = inst.src
      BY <2>1, <2>2, ProgramFacts
    <2>4. ls_pipe.kind = "load" /\ ls_pipe.wb_idx = inst.src
      <3>1. CASE ex2ls_real
        BY <2>1, <2>3, <3>1 DEF ls_pipe
      <3>2. CASE ~ex2ls_real
        BY <1>1, <2>1, <2>3, <3>2 DEF Control, Early
      <3>. QED
        BY <3>1, <3>2
    <2>. QED
      BY <2>1, <2>4 DEF LoadAhead
  <1>3. ~ls_stall /\ ~cs_stalled
    BY <1>2, JumpNotCsr DEF ls_stall
  <1>4. ~ex_stall
    BY DEF ex_stall, mul_req_vld, div_req_vld, mul_start, div_start, Control, UnitsHeld
  <1>. QED
    BY <1>2, <1>3, <1>4 DEF id2ex_fire, id2ex_rdy, pipe_stall

\* What the LSU keeps is bypassed for as long as it does.
LEMMA FwKept ==
    ASSUME Next, ~ex2ls_real'
    PROVE  ls_fw' = ls_fw /\ ex_fw' = ex_fw
  <1>1. ls_fw' = ls2ex_fw_r' /\ ex_fw' = ex2ex_fw_r'
    BY DEF ls_fw, ex_fw
  <1>2. ls2ex_fw_r' = ls_fw /\ ex2ex_fw_r' = ex_fw
    BY DEF Next, Clock, UpdateBuffers
  <1>. QED
    BY <1>1, <1>2

\* The base a jump brings along is right, or it is bypassed until it leaves.
LEMMA JumpRightStep ==
    ASSUME TypeOK, Control, Retiring, JumpRight, Next, TypeOK', OperandRight'
    PROVE  JumpRight'
  <1>. SUFFICES ASSUME id2ex_vld', inst'.src # 0, ~LoadAhead', inst'.kind = "jalr",
                       pipe'.opd # ref'[inst'.src]
                PROVE  /\ fw_rs_frm_exu' \/ fw_rs_frm_lsu'
                       /\ ~ls_stall_vld_r' /\ (\A i \in 1 .. 3 : ~cs_stall_p'[i])
    BY DEF JumpRight
  <1>. DEFINE r == inst'.src
  <1>1. ~trap_flush' /\ id2ex_vld_r'
    BY DEF id2ex_vld, pipe_flush
  <1>2. r \in Regs /\ r # 0
    <2>1. TypeOK' => (inst.src # 0 => inst.src \in Regs)'
      BY SourceTyped, PTL
    <2>. QED
      BY <2>1
  <1>3. ~(ex2ls_vld' /\ ls_pipe'.kind = "load" /\ ls_pipe'.wb_idx = r)
    BY DEF LoadAhead
  <1>4. /\ (\E i \in 1 .. 3 : cs_stall_p'[i]) => cs_stalled
        /\ ls_stall_vld_r' <=> ~ex2ls_rdy /\ (ls_stall_vld \/ ls_stall_vld_r)
    BY StallStep
  <1>5. CASE id2ex_vld /\ ~id2ex_fire
    <2>1. inst' = inst /\ pipe' = pipe /\ ~trap_flush
      BY <1>5, ExuFlow DEF id2ex_vld, pipe_flush
    <2>2. ref'[r] = ref[r]
      BY <1>2, <1>5, <2>1, RefStep
    <2>3. CASE LoadAhead
      <3>1. ex2ls_vld /\ ls_pipe.kind = "load" /\ ls_pipe.wb_idx = r
        BY <2>1, <2>3 DEF LoadAhead
      <3>2. ex2ls_rdy
        BY <1>1, <1>3, <3>1, LsuFlow
      <3>3. ex2ls_fire /\ ls_pipe.wb_act
        BY <3>1, <3>2, Shape DEF ex2ls_fire
      <3>4. fw_rs_frm_lsu'
        BY <1>1, <1>2, <3>1, <3>3, Taken
      <3>5. \A i \in 1 .. 3 : ~cs_stall_p[i]
        BY <3>1 DEF ex2ls_vld, TypeOK, Bits
      <3>6. ~cs_stalled
        BY <2>1, <3>5, JumpNotCsr
      <3>. QED
        BY <1>4, <3>2, <3>4, <3>6
    <2>4. CASE ~LoadAhead
      <3>1. /\ fw_rs_frm_exu \/ fw_rs_frm_lsu
            /\ ~ls_stall_vld_r /\ (\A i \in 1 .. 3 : ~cs_stall_p[i])
        BY <1>2, <1>5, <2>1, <2>2, <2>4 DEF JumpRight
      <3>2. ~ex2ls_rdy /\ ~ls_stall_vld /\ ~cs_stalled
        BY <1>5, <2>1, <2>4, <3>1, JumpWaits, JumpNotCsr
      <3>3. ls_fw' = ls_fw /\ ex_fw' = ex_fw
        BY <3>2, HandshakeStep, FwKept
      <3>4. fw_rs_frm_exu' \/ fw_rs_frm_lsu'
        BY <2>1, <3>1, <3>3 DEF fw_rs_frm_exu, fw_rs_frm_lsu
      <3>. QED
        BY <1>4, <3>1, <3>2, <3>4
    <2>. QED
      BY <2>3, <2>4
  <1>6. CASE id2ex_fire \/ ~id2ex_vld
    <2>1. id2ex_real' /\ ~pipe_flush /\ pipe' = id' /\ id'.opd = Rs_data(r)
      BY <1>1, <1>6, ExuFlow
    <2>2. fw_rs_frm_exu' \/ fw_rs_frm_lsu'
      <3>1. calc_op' = ref'[r]
        BY DEF OperandRight
      <3>2. calc_op' = IF fw_rs_frm_exu' THEN ex_fw'.data ELSE IF fw_rs_frm_lsu' THEN ls_fw'.data
                       ELSE IF id2ex_real' THEN id'.opd ELSE src_r'
        BY DEF calc_op, Bypassed
      <3>. QED
        BY <2>1, <3>1, <3>2
    <2>3. ~trap_flush
      BY <2>1 DEF pipe_flush
    <2>4. ~id2ex_fire => ~id2ex_vld_r /\ ref'[r] = ref[r]
      BY <1>2, <1>6, <2>1, <2>3, RefStep DEF id2ex_vld
    <2>5. ~id2ex_fire => Rs_data(r) # ref[r]
      BY <2>1, <2>4
    <2>6. ~ls_stall_vld_r'
      <3>. SUFFICES ASSUME ls_stall_vld_r' PROVE FALSE
        OBVIOUS
      <3>1. ~ex2ls_rdy
        BY <1>4
      <3>2. ex2ls_vld /\ ~id2ex_fire /\ ls_pipe.kind \in {"load", "store"}
        BY <3>1, Refused
      <3>3. ~(ls_pipe.kind = "load" /\ ls_pipe.wb_idx = r)
        BY <1>1, <1>3, <3>1, LsuFlow
      <3>4. CASE ex2ls_real
        <4>1. ls_pipe = ex
          BY <3>4 DEF ls_pipe
        <4>. QED
          BY <1>2, <2>3, <2>5, <3>2, <3>3, <3>4, <4>1, Read
      <3>5. CASE ~ex2ls_real
        <4>1. ~wb_vld /\ (ls_pipe.kind = "store" => ~ls_pipe.wb_act)
          BY <2>3, <3>5 DEF Control, Waiting, wb_vld
        <4>2. ~ex.wb_vld
          BY <2>3, <2>4, <3>2, <3>5 DEF Control, Early
        <4>3. Rs_data(r) = rf[r]
          BY <1>2, <4>1, <4>2 DEF Rs_data
        <4>4. ref[r] = rf[r]
          BY <1>2, <2>3, <3>2, <3>3, <4>1 DEF Retiring, InFlight
        <4>. QED
          BY <2>5, <3>2, <4>3, <4>4
      <3>. QED
        BY <3>4, <3>5
    <2>7. ASSUME cs_stalled PROVE FALSE
      <3>1. ~id2ex_fire
        BY <2>7 DEF id2ex_fire, id2ex_rdy, pipe_stall
      <3>2. ~cs_stall_vld_r
        BY <2>4, <3>1 DEF Control, CsrHeld
      <3>3. cs_stall_vld \/ cs_stall_p[1] \/ cs_stall_p[2]
        <4>1. cs_stall_nxt = <<cs_stall, cs_stall_p[1], cs_stall_p[2]>>
          BY DEF cs_stall_nxt
        <4>2. DOMAIN cs_stall_nxt = 1 .. 3
          BY <4>1
        <4>3. cs_stall_nxt[1] \/ cs_stall_nxt[2] \/ cs_stall_nxt[3]
          BY <2>7, <4>2 DEF cs_stalled
        <4>. QED
          BY <3>2, <4>1, <4>3 DEF cs_stall
      <3>4. ex2ls_vld => cs_stall_vld
        <4>1. ex2ls_vld => \A i \in DOMAIN cs_stall_p : ~cs_stall_p[i]
          BY DEF ex2ls_vld
        <4>2. DOMAIN cs_stall_p = 1 .. 3
          BY DEF TypeOK, Bits
        <4>. QED
          BY <3>3, <4>1, <4>2
      <3>5. ex2ls_vld => ex.csr_vld
        BY <3>4 DEF cs_stall_vld
      <3>6. ex2ls_real
        <4>1. ~ex2ls_real => ex2ls_vld /\ ~ex.csr_vld
          BY <2>3, <2>4, <3>1 DEF Control, Waiting, Early
        <4>. QED
          BY <3>5, <4>1
      <3>7. ex2ls_vld => ex.kind # "load"
        BY <2>3, <3>5, <3>6 DEF Control, Handed
      <3>. QED
        BY <1>2, <2>3, <2>5, <3>1, <3>6, <3>7, Read
    <2>. QED
      BY <1>4, <2>2, <2>6, <2>7
  <1>. QED
    BY <1>5, <1>6

\* What is in the last stage while a store is behind it is the newest value
\* of its register, so the LSU may take the data from there.
LEMMA StoreRightStep ==
    ASSUME TypeOK, Control, Retiring, Next
    PROVE  StoreRight'
  <1>. SUFFICES ASSUME ex2ls_vld', ls_pipe'.kind = "store", wb_vld', ex'.rs2_idx = ls'.wb_idx
                PROVE  wb_data' = ls_pipe'.st_ref
    BY DEF StoreRight
  <1>1. ~trap_flush'
    BY DEF ex2ls_vld
  <1>2. ex2ls_fire /\ ls_pipe.wb_act
    BY <1>1, LastFlow
  <1>3. ex2ls_vld /\ ex2ls_rdy
    BY <1>2 DEF ex2ls_fire
  <1>4. ls_pipe' = ex' /\ pipe_nxt /\ id2ex_fire
    BY <1>1, <1>3, LsuFlow, Leaves
  <1>5. inst.kind = "store"
    <2>1. ex'.kind = IF op_ldst THEN inst.kind ELSE "other"
      BY <1>4, ExStep
    <2>. QED
      BY <1>4, <2>1
  <1>6. inst.src = ls_pipe.wb_idx /\ inst.src # 0
    <2>1. ls'.wb_idx = ls_pipe.wb_idx /\ ex'.rs2_idx = inst.src
      BY <1>2, <1>4, LastFlow, ExStep
    <2>2. ls_pipe.wb_vld \/ ls_pipe.kind = "load"
      BY <1>2, <1>3, Shape
    <2>3. ls_pipe.wb_idx # 0
      BY <2>2, WiresTyped DEF ExRegs
    <2>. QED
      BY <2>1, <2>3
  <1>7. inst.src \in Regs /\ ~trap_flush
    BY <1>6, <1>3, SourceTyped DEF ex2ls_vld
  <1>8. ref[inst.src] = IF ls_pipe.kind = "load" THEN ls_pipe.ld_data ELSE ls_pipe.wb_data
    BY <1>2, <1>3, <1>6, <1>7 DEF Retiring, InFlight
  <1>. QED
    BY <1>2, <1>4, <1>5, <1>6, <1>8, LastFlow, ExStep

\* The operands are right in every cycle.
THEOREM OperandInvariance == Spec => [](LoadStalls /\ OperandRight /\ JumpRight /\ StoreRight)
  <1>. DEFINE Inv == LoadStalls /\ OperandRight /\ JumpRight /\ StoreRight
              Base == TypeOK /\ Control /\ Retiring
  <1>1. Init => Inv
    <2>. SUFFICES ASSUME Init PROVE Inv
      OBVIOUS
    <2>1. ~id2ex_vld /\ ~ex2ls_vld
      BY DEF Init, id2ex_vld, ex2ls_vld
    <2>. QED
      BY <2>1 DEF LoadStalls, OperandRight, JumpRight, StoreRight
  <1>2. Base => ForwardRight
    BY Forwarded
  <1>3. Base /\ Base' /\ ForwardRight' /\ Inv /\ Next => Inv'
    <2>. SUFFICES ASSUME Base, Base', ForwardRight', Inv, Next PROVE Inv'
      OBVIOUS
    <2>1. LoadStalls' /\ OperandRight'
      BY LoadStallsStep, OperandRightStep
    <2>. QED
      BY <2>1, JumpRightStep, StoreRightStep
  <1>4. Inv /\ UNCHANGED vars => Inv'
    BY DEF LoadStalls, OperandRight, JumpRight, StoreRight, LoadAhead, vars, invars, idvars, bufvars,
           stvars, mdvars, exvars, lsvars, ex2ls_real, ex2ls_vld, ls_pipe, wb_vld, wb_data, pipe_flush,
           id2ex_vld, id2ex_real, pipe, inst, ls_fw, ex_fw, fw_rs_frm_exu, fw_rs_frm_lsu, Bypassed,
           calc_op, ls_stall_vld
  <1>. HIDE DEF Inv, Base
  <1>5. Spec => []Base
    BY TypeCorrect, ControlInvariance, RetiringInvariance, PTL DEF Base
  <1>6. Spec => []Inv
    BY <1>1, <1>2, <1>3, <1>4, <1>5, PTL DEF Spec
  <1>. QED
    BY <1>6 DEF Inv

\* The operand of an instruction that leaves the EXU, or starts the multiplier
\* or the divider, is the newest value of its register in program order.
THEOREM OperandsNewestHolds == Spec => []OperandsNewest
  <1>1. TypeOK /\ Control /\ Retiring /\ LoadStalls /\ OperandRight /\ JumpRight => OperandsNewest
    <2>. SUFFICES ASSUME TypeOK, Control, Retiring, LoadStalls, OperandRight, JumpRight,
                         inst.src # 0, id2ex_fire \/ mul_req_vld \/ div_req_vld
                  PROVE  /\ calc_op = ref[inst.src]
                         /\ inst.kind = "jalr" => bjp_base = ref[inst.src]
      BY DEF OperandsNewest
    <2>1. id2ex_vld /\ ex2ls_rdy /\ ~ls_stall
      BY DEF id2ex_fire, id2ex_rdy, pipe_stall, mul_req_vld, div_req_vld, mul_start, div_start, pipe_start
    <2>2. ~LoadAhead
      BY <2>1 DEF LoadStalls, ls_stall
    <2>3. calc_op = ref[inst.src]
      BY <2>1, <2>2 DEF OperandRight
    <2>4. ASSUME inst.kind = "jalr" PROVE bjp_base = ref[inst.src]
      <3>1. CASE fw_rs_frm_exu \/ fw_rs_frm_lsu
        BY <2>3, <3>1, Selected
      <3>2. CASE ~fw_rs_frm_exu /\ ~fw_rs_frm_lsu
        <4>1. pipe.opd = ref[inst.src]
          BY <2>1, <2>2, <2>4, <3>2 DEF JumpRight
        <4>. QED
          BY <3>2, <4>1, Selected
      <3>. QED
        BY <3>1, <3>2
    <2>. QED
      BY <2>3, <2>4
  <1>. QED
    BY <1>1, TypeCorrect, ControlInvariance, RetiringInvariance, OperandInvariance, PTL

\* The data of a store and the source of a CSR instruction are the newest
\* value if neither stage had to wait, and what the LSU bypasses on its own
\* never makes store data wrong.
THEOREM LateOperandsNewestHolds == Spec => []LateOperandsNewest
  <1>1. TypeOK /\ LoadStalls /\ OperandRight /\ StoreRight => LateOperandsNewest
    <2>. SUFFICES ASSUME TypeOK, LoadStalls, OperandRight, StoreRight
                  PROVE  LateOperandsNewest
      OBVIOUS
    <2>1. ASSUME id2ex_fire, id2ex_real, ex2ls_real, inst.src # 0
          PROVE  st_data = ref[inst.src] /\ csr_rs_data = ref[inst.src]
      <3>1. id2ex_vld /\ ex2ls_rdy /\ ~ls_stall
        BY <2>1 DEF id2ex_fire, id2ex_rdy, pipe_stall
      <3>2. ~LoadAhead
        BY <2>1, <3>1 DEF LoadStalls, ls_stall
      <3>3. calc_op = ref[inst.src]
        BY <2>1, <3>1, <3>2 DEF OperandRight
      <3>4. ex_fw.data = ex.wb_data /\ ls_fw.data = wb_data /\ pipe = id
        BY <2>1 DEF ex_fw, ls_fw, pipe
      <3>5. st_data = calc_op /\ csr_rs_data = calc_op
        BY <2>1, <3>4 DEF st_data, csr_rs_data, calc_op, Bypassed
      <3>. QED
        BY <3>3, <3>5
    <2>2. ASSUME mem_req_fire, ls_pipe.kind = "store", ls_pipe.st_data = ls_pipe.st_ref
          PROVE  ls2mem_req_data = ls_pipe.st_ref
      <3>1. ex2ls_vld
        BY <2>2 DEF mem_req_fire, ls2mem_req_vld
      <3>. QED
        BY <2>2, <3>1 DEF ls2mem_req_data, st_rs2_frm_wb, StoreRight
    <2>. QED
      BY <2>1, <2>2 DEF LateOperandsNewest
  <1>. QED
    BY <1>1, TypeCorrect, OperandInvariance, PTL
=============================================================================
