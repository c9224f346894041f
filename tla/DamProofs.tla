----------------------------- MODULE DamProofs ------------------------------
(***************************************************************************)
(* Proofs about module Dam, for every set of banks.  Until a flush takes   *)
(* back an access that has been granted a bank, the fabric keeps the two   *)
(* ports apart although they do not keep the contract of module BusFab,    *)
(* and every access is served within three cycles and answered in the      *)
(* next one.                                                               *)
(***************************************************************************)
EXTENDS Dam, BusFabProofs, TLAPS

-----------------------------------------------------------------------------
(* The inductive invariant.                                                *)

Ports == [Masters -> Slaves \cup {None}]

\* Both ports are always ready for an answer, and neither asks for anything
\* outside the memory.
DamTypeOK ==
    /\ Connected /\ TypeOK
    /\ mst_req \in Ports /\ awaited \in Ports /\ mst_rsp_rdy = Masters
    /\ slv_req_rdy = sram_req_rdy
    /\ addr_misalign_r \subseteq Slaves
    /\ misaligned \in BOOLEAN /\ trap_flush \in BOOLEAN /\ withdrawn \in BOOLEAN
    /\ waited \in [Masters -> 0 .. Late]
    /\ empty => mst_req[PortB] = None

\* A bank answers in the cycle after it has taken a request.
Prompt == \A s \in Slaves : serving[s] # {} => s \in slv_rsp_vld

\* A bank in the second cycle of an access is locked to the load/store port,
\* which still asks for it.
SecondCycle ==
    \A s \in addr_misalign_r :
        /\ s \in mst_arb_grant_r[PortB] /\ serving[s] = {}
        /\ mst_req[PortB] = s /\ misaligned

\* A locked bank is about to answer or in its second cycle, and the arbiter
\* prefers the other port next.
LockedBank ==
    \A m \in Masters : \A s \in mst_arb_grant_r[m] :
        /\ serving[s] = {m} \/ s \in addr_misalign_r
        /\ prio_r[s] # m

\* What a port that has waited for one or two cycles still has to wait for.
WaitsFor ==
    /\ waited[PortA] = 1 => mst_req[PortA] \in mst_arb_grant_r[PortB]
    /\ waited[PortA] = 2 => /\ mst_req[PortA] \in mst_arb_grant_r[PortB]
                            /\ serving[mst_req[PortA]] = {PortB}
    /\ waited[PortB] = 1 => \/ /\ mst_req[PortB] \in mst_arb_grant_r[PortA]
                               /\ serving[mst_req[PortB]] = {PortA}
                            \/ mst_req[PortB] \in addr_misalign_r
    /\ waited[PortB] = 2 => mst_req[PortB] \in addr_misalign_r
    /\ \A m \in Masters : waited[m] # Late /\ (waited[m] # 0 => mst_req_vld(m))

Banks == OneTransaction /\ Prompt /\ SecondCycle /\ LockedBank /\ WaitsFor

DamInv == DamTypeOK /\ (~withdrawn => Banks)
-----------------------------------------------------------------------------
(* Two ports.                                                              *)

LEMMA TwoPorts ==
    ASSUME Connected
    PROVE  /\ Masters = {PortA, PortB} /\ PortA # PortB
           /\ PortA \in Masters /\ PortB \in Masters
  BY DEF Connected, Masters, PortA, PortB

\* Of two ports the arbiter grants the one with priority if it asks, and
\* else the other one; priority then moves to the port not granted.
LEMMA TwoLines ==
    ASSUME Connected, NEW p \in Masters, NEW req \in SUBSET Masters
    PROVE  /\ p \in req => Arb!Grant(p, req) = {p}
           /\ p \notin req => Arb!Grant(p, req) = req
           /\ \A g \in Arb!Grant(p, req) : Arb!NextPrio(p, req) # g
           /\ Arb!Grant(p, req) = {} => Arb!NextPrio(p, req) = p
<1>0. Masters = {0, 1} /\ MST_PORT_NUM = 2
  BY DEF Connected, Masters
<1>b. \A i \in Masters : Arb!Behind(p, i) = IF i = p THEN 0 ELSE 1
  <2>1. ASSUME NEW i \in {0, 1}, NEW q \in {0, 1}
        PROVE  Arb!Behind(q, i) = IF i = q THEN 0 ELSE 1
    BY <1>0 DEF Arb!Behind
  <2> QED BY <1>0, <2>1
<1> DEFINE B(i) == Arb!Behind(p, i)
<1>g. Arb!Grant(p, req) = {i \in req : \A k \in req : B(i) <= B(k)}
  BY DEF Arb!Grant
<1>l. \A i \in Masters : (B(i) = 0 <=> i = p) /\ B(i) \in {0, 1}
  BY <1>b
<1>o. \A i, k \in Masters : i # p /\ k # p => i = k
  BY <1>0
<1> HIDE DEF B
<1>1. ASSUME p \in req PROVE Arb!Grant(p, req) = {p}
  <2>1. \A i \in req : (\A k \in req : B(i) <= B(k)) <=> i = p
    BY <1>1, <1>l
  <2> QED BY <1>1, <1>g, <2>1
<1>2. ASSUME p \notin req PROVE Arb!Grant(p, req) = req
  <2>1. \A i \in req : \A k \in req : B(i) <= B(k)
    BY <1>2, <1>l, <1>o
  <2> QED BY <1>g, <2>1
<1>3. ASSUME NEW g \in Arb!Grant(p, req) PROVE Arb!NextPrio(p, req) # g
  <2>1. Arb!Grant(p, req) = {g} /\ g \in {0, 1}
    BY <1>0, <1>1, <1>2
  <2>2. (CHOOSE i \in Arb!Grant(p, req) : TRUE) = g
    BY <2>1
  <2>3. Arb!NextPrio(p, req) = IF g + 1 < MST_PORT_NUM THEN g + 1 ELSE 0
    BY <2>1, <2>2 DEF Arb!NextPrio
  <2> QED BY <1>0, <2>1, <2>3
<1>4. Arb!Grant(p, req) = {} => Arb!NextPrio(p, req) = p
  BY DEF Arb!NextPrio
<1> QED BY <1>1, <1>2, <1>3, <1>4

-----------------------------------------------------------------------------
(* What holds in a cycle.                                                  *)

\* Whatever is awaited is answered and taken in this cycle.
LEMMA AnsweredNow ==
    ASSUME DamTypeOK, OneTransaction, Prompt
    PROVE  /\ \A s \in Slaves : serving[s] # {} => slv_rsp_fire(s)
           /\ \A m \in Masters : awaited[m] # None => mst_rsp_fire(m)
<1>1. ASSUME NEW s \in Slaves, serving[s] # {} PROVE slv_rsp_fire(s)
  <2>1. PICK m \in Masters : m \in serving[s]
    BY <1>1 DEF DamTypeOK, TypeOK
  <2>2. s \in mst_arb_grant_r[m] /\ s \in slv_rsp_vld
    BY <1>1, <2>1 DEF OneTransaction, Prompt
  <2> QED BY <2>1, <2>2 DEF DamTypeOK, slv_rsp_fire, slv_rsp_rdy
<1>2. ASSUME NEW m \in Masters, awaited[m] # None PROVE mst_rsp_fire(m)
  <2>1. awaited[m] \in Slaves
    BY <1>2 DEF DamTypeOK, Ports
  <2>2. m \in serving[awaited[m]]
    BY <2>1 DEF OneTransaction
  <2>3. awaited[m] \in mst_arb_grant_r[m] /\ awaited[m] \in slv_rsp_vld
    BY <2>1, <2>2 DEF OneTransaction, Prompt
  <2> QED BY <2>3 DEF DamTypeOK, mst_rsp_fire, mst_rsp_vld
<1> QED BY <1>1, <1>2

\* A port that drives a bank without having been answered asks for it.
LEMMA DriverAsks ==
    ASSUME DamTypeOK, OneTransaction, Prompt, NEW m \in Masters, NEW s \in req_lck_to_slv(m)
    PROVE  s \in Slaves /\ mst_req[m] = s /\ drivers(s) = {m}
<1>0. TypeOK
  BY DEF DamTypeOK
<1>1. s \in Slaves /\ \A k \in Masters : s \in req_lck_to_slv(k) => k = m
  BY <1>0, LockFacts
<1>2. drivers(s) = {m}
  BY <1>1 DEF drivers
<1>3. CASE s \in mst_arb_grant(m)
  BY <1>0, <1>1, <1>2, <1>3, LockFacts
<1>4. CASE s \notin mst_arb_grant(m)
  <2>1. s \in mst_arb_grant_r[m] /\ ~slv_rsp_fire(s)
    BY <1>4 DEF req_lck_to_slv
  <2>2. serving[s] = {}
    BY <1>1, <2>1, AnsweredNow
  <2> QED BY <1>1, <1>2, <2>1, <2>2 DEF OneTransaction
<1> QED BY <1>3, <1>4

\* A bank is free for arbitration unless it is in its second cycle.
LEMMA Arbitrated ==
    ASSUME DamTypeOK, Banks, NEW m \in Masters, mst_req[m] \in Slaves,
           mst_req[m] \notin addr_misalign_r
    PROVE  m \in slv_arb_req(mst_req[m])
<1>c. Connected
  BY DEF DamTypeOK
<1> USE <1>c
<1> DEFINE s == mst_req[m]
<1>1. ASSUME NEW k \in slv_arb_grant_r(s) PROVE mst_rsp_fire(k)
  <2>1. k \in Masters /\ s \in mst_arb_grant_r[k]
    BY DEF slv_arb_grant_r
  <2>2. serving[s] = {k}
    BY <2>1 DEF Banks, LockedBank
  <2>3. awaited[k] # None
    BY <2>1, <2>2, FabAssumption DEF Banks, OneTransaction
  <2> QED BY <2>1, <2>3, AnsweredNow DEF Banks
<1>2. s \in Present
  BY DEF Connected
<1> QED BY <1>1, <1>2 DEF slv_arb_req

\* A request is taken as soon as its port drives the bank, but for the first
\* cycle of a misaligned access.
LEMMA TakenWhenDriven ==
    ASSUME DamTypeOK, OneTransaction, Prompt, NEW m \in Masters, NEW s \in req_lck_to_slv(m)
    PROVE  /\ mst_req_fire(m) <=> slv_req_fire(s)
           /\ slv_req_fire(s) <=> ~(m = PortB /\ misaligned /\ s \notin addr_misalign_r)
           /\ addr_misalign(s) <=> m = PortB /\ misaligned
<1>c. Connected
  BY DEF DamTypeOK
<1> USE <1>c
<1>0. TypeOK
  BY DEF DamTypeOK
<1>1. s \in Slaves /\ mst_req[m] = s /\ drivers(s) = {m}
  BY DriverAsks
<1>2. mst_req_vld(m)
  BY <1>1, FabAssumption DEF mst_req_vld
<1>3. slv_req_vld(s)
  BY <1>1, <1>2 DEF slv_req_vld
<1>4. addr_misalign(s) <=> m = PortB /\ misaligned
  BY <1>1, <1>2, TwoPorts DEF addr_misalign
<1>5. s \in slv_req_rdy <=> ~(m = PortB /\ misaligned /\ s \notin addr_misalign_r)
  BY <1>1, <1>4 DEF DamTypeOK, sram_req_rdy
<1>6. mst_req_fire(m) <=> s \in slv_req_rdy
  BY <1>0, <1>1, ReqFacts
<1> QED BY <1>3, <1>4, <1>5, <1>6 DEF slv_req_fire

\* Why a port waits: the load/store port is in the first cycle of its own
\* misaligned access, or the other port drives the bank.
LEMMA WhyWait ==
    ASSUME DamTypeOK, Banks, NEW m \in Masters, Waits(m)
    PROVE  /\ mst_req[m] \in Slaves
           /\ \/ /\ m = PortB /\ mst_req[m] \in req_lck_to_slv(m)
                 /\ misaligned /\ mst_req[m] \notin addr_misalign_r
              \/ /\ mst_req[m] \notin req_lck_to_slv(m)
                 /\ \E k \in Masters : k # m /\ mst_req[m] \in req_lck_to_slv(k)
<1>c. Connected
  BY DEF DamTypeOK
<1> USE <1>c
<1> DEFINE s == mst_req[m]
<1>0. TypeOK /\ OneTransaction /\ Prompt /\ prio_r[s] \in Masters /\ s \in Slaves
  <2>1. s \in Slaves
    BY DEF Waits, mst_req_vld, DamTypeOK, Ports
  <2> QED BY <2>1 DEF DamTypeOK, Banks, TypeOK
<1>1. CASE s \in req_lck_to_slv(m)
  BY <1>0, <1>1, TakenWhenDriven DEF Waits
<1>2. CASE s \notin req_lck_to_slv(m) /\ s \in addr_misalign_r
  <2>1. s \in mst_arb_grant_r[PortB] /\ serving[s] = {}
    BY <1>2 DEF Banks, SecondCycle
  <2>2. ~slv_rsp_fire(s)
    BY <1>0, <2>1 DEF slv_rsp_fire, OneTransaction
  <2>3. s \in req_lck_to_slv(PortB)
    BY <2>1, <2>2 DEF req_lck_to_slv
  <2> QED BY <1>0, <1>2, <2>3, TwoPorts
<1>3. CASE s \notin req_lck_to_slv(m) /\ s \notin addr_misalign_r
  <2>1. m \in slv_arb_req(s) /\ slv_arb_req(s) \in SUBSET Masters
    BY <1>0, <1>3, Arbitrated DEF slv_arb_req
  <2>2. PICK k \in Masters : k \in slv_arb_grant(s)
    BY <1>0, <2>1, TwoLines DEF slv_arb_grant
  <2>3. s \in req_lck_to_slv(k)
    BY <1>0, <2>2 DEF req_lck_to_slv, mst_arb_grant
  <2> QED BY <1>0, <1>3, <2>3
<1> QED BY <1>0, <1>1, <1>2, <1>3

\* A bank that answers one port grants the other one if it asks.
LEMMA OtherNext ==
    ASSUME DamTypeOK, Banks, NEW m \in Masters, NEW k \in Masters, k # m,
           mst_req[m] \in mst_arb_grant_r[k], serving[mst_req[m]] = {k}
    PROVE  mst_req[m] \in req_lck_to_slv(m)
<1>c. Connected
  BY DEF DamTypeOK
<1> USE <1>c
<1> DEFINE s == mst_req[m]
<1>1. s \in Slaves /\ prio_r[s] \in Masters /\ prio_r[s] # k
  BY DEF DamTypeOK, TypeOK, Banks, LockedBank
<1>2. prio_r[s] = m
  BY <1>1, TwoPorts
<1>3. s \notin addr_misalign_r
  BY DEF Banks, SecondCycle
<1>4. m \in slv_arb_req(s) /\ slv_arb_req(s) \in SUBSET Masters
  BY <1>1, <1>3, Arbitrated DEF slv_arb_req
<1>5. m \in slv_arb_grant(s)
  BY <1>1, <1>2, <1>4, TwoLines DEF slv_arb_grant
<1> QED BY <1>1, <1>5 DEF req_lck_to_slv, mst_arb_grant
-----------------------------------------------------------------------------
(* A clock edge.                                                           *)

\* Ports, registers and bookkeeping stay in their types, withdrawn or not.
LEMMA DamTypeStep == ASSUME DamTypeOK, DamNext PROVE DamTypeOK'
<1>0. TypeOK /\ FabEdge
  BY DEF DamTypeOK, DamNext, FabEdge
<1>1. mst_req' \in Ports /\ mst_rsp_rdy' = Masters /\ slv_req_rdy' = sram_req_rdy'
  BY DEF DamNext, Ports
<1>2. slv_rsp_vld' \in SUBSET Slaves /\ addr_misalign_r' \subseteq Slaves
  BY DEF DamNext, UpdateBanks
<1>3. slv_req_rdy' \in SUBSET Slaves
  BY <1>1 DEF sram_req_rdy
<1>4. TypeOK'
  BY <1>0, <1>1, <1>2, <1>3, EdgeType DEF TypeOK, Ports
<1>5. awaited' \in Ports
  BY DEF DamNext, Track, DamTypeOK, Ports
<1>6. misaligned' \in BOOLEAN /\ trap_flush' \in BOOLEAN /\ withdrawn' \in BOOLEAN
  BY DEF DamNext, LoadStore, Trap, Record, DamTypeOK
<1>7. waited' \in [Masters -> 0 .. Late]
  BY DEF DamNext, Record, DamTypeOK, Late
<1>8. empty' => mst_req'[PortB] = None
  BY DEF DamNext, LoadStore
<1> QED BY <1>1, <1>2, <1>4, <1>5, <1>6, <1>7, <1>8 DEF DamTypeOK

\* A step that takes no granted access back.
Kept == DamNext /\ ~withdrawn'

\* What was taken in the last cycle, and only that, is served and answered
\* in this one.
LEMMA PromptStep ==
    ASSUME DamTypeOK, Banks, Kept
    PROVE  /\ \A s \in Slaves : serving'[s] # {} <=> slv_req_fire(s)
           /\ Prompt' /\ \A s \in slv_rsp_vld' : serving'[s] # {}
<1>0. TypeOK /\ OneTransaction /\ Prompt /\ FabEdge
  BY DEF DamTypeOK, Banks, Kept, DamNext, FabEdge
<1>1. ASSUME NEW s \in Slaves PROVE serving'[s] # {} <=> slv_req_fire(s)
  <2>1. CASE slv_req_fire(s)
    BY <1>0, <2>1, Tracked DEF slv_req_fire, slv_req_vld
  <2>2. CASE ~slv_req_fire(s)
    BY <1>0, <2>2, Tracked, AnsweredNow
  <2> QED BY <2>1, <2>2
<1>2. ASSUME NEW s \in Slaves PROVE s \in slv_rsp_vld' <=> slv_req_fire(s)
  <2>1. s \in slv_rsp_vld => slv_rsp_fire(s)
    BY <1>0, AnsweredNow DEF OneTransaction
  <2> QED BY <2>1 DEF Kept, DamNext, UpdateBanks
<1>3. slv_rsp_vld' \subseteq Slaves
  BY DEF Kept, DamNext, UpdateBanks
<1> QED BY <1>1, <1>2, <1>3 DEF Prompt

\* The transaction invariant of the fabric holds without its contract.
LEMMA TransactionStep == ASSUME DamTypeOK, Banks, Kept PROVE OneTransaction'
<1>0. TypeOK /\ OneTransaction /\ Prompt /\ FabEdge
  BY DEF DamTypeOK, Banks, Kept, DamNext, FabEdge
<1>t. DamTypeOK'
  BY DamTypeStep DEF Kept
<1>1. ASSUME NEW m \in Masters PROVE KeepsGranted(m)
  <2>1. Waits(m) /\ req_lck_to_slv(m) # {} => mst_req'[m] = mst_req[m]
    BY DEF Kept, DamNext, Record
  <2>2. ASSUME awaited'[m] # None PROVE mst_rsp_fire(m)'
    <3>1. awaited'[m] \in Slaves
      BY <1>t, <2>2 DEF DamTypeOK, Ports
    <3>2. m \in serving'[awaited'[m]]
      BY <1>0, <3>1, ServingStep
    <3>3. awaited'[m] \in mst_arb_grant_r'[m]
      BY <1>0, <3>1, <3>2, ServingStep
    <3>4. awaited'[m] \in slv_rsp_vld'
      BY <3>1, <3>2, PromptStep DEF Prompt
    <3>5. m \in mst_rsp_rdy'
      BY <1>t DEF DamTypeOK
    <3> QED BY <3>3, <3>4, <3>5 DEF mst_rsp_fire, mst_rsp_vld
  <2> QED BY <2>1, <2>2 DEF KeepsGranted, Waits
<1> QED BY <1>0, <1>1, PromptStep, EdgeStep

\* A misaligned access that starts its second cycle is still asked for.
LEMMA SecondCycleStep == ASSUME DamTypeOK, Banks, Kept PROVE SecondCycle'
<1>c. Connected
  BY DEF DamTypeOK
<1> USE <1>c
<1>0. TypeOK /\ OneTransaction /\ Prompt /\ UpdateGrant
  BY DEF DamTypeOK, Banks, Kept, DamNext
<1> SUFFICES ASSUME NEW s \in addr_misalign_r'
             PROVE  /\ s \in mst_arb_grant_r'[PortB] /\ serving'[s] = {}
                    /\ mst_req'[PortB] = s /\ misaligned'
  BY DEF SecondCycle
<1>1. s \in Slaves /\ addr_misalign(s) /\ s \notin addr_misalign_r
  BY DEF Kept, DamNext, UpdateBanks
<1>2. s \in req_lck_to_slv(PortB) /\ misaligned
  BY <1>1 DEF addr_misalign, drivers
<1>3. mst_req[PortB] = s /\ ~slv_req_fire(s) /\ ~mst_req_fire(PortB)
  BY <1>0, <1>1, <1>2, TwoPorts, DriverAsks, TakenWhenDriven
<1>4. Waits(PortB)
  BY <1>1, <1>3, FabAssumption DEF Waits, mst_req_vld
<1>5. mst_req'[PortB] = s
  BY <1>2, <1>3, <1>4, TwoPorts DEF Kept, DamNext, Record
<1>6. misaligned' \in {misaligned}
  BY <1>1, <1>4, <1>5, FabAssumption DEF Kept, DamNext, LoadStore
<1>7. s \in mst_arb_grant_r'[PortB]
  BY <1>0, <1>2, <1>3, TwoPorts, NewGrant
<1> QED BY <1>1, <1>2, <1>3, <1>5, <1>6, <1>7, PromptStep

\* A lock belongs to an access just taken or to one in its second cycle.
LEMMA LockedStep == ASSUME DamTypeOK, Banks, Kept PROVE LockedBank'
<1>c. Connected
  BY DEF DamTypeOK
<1> USE <1>c
<1>0. TypeOK /\ OneTransaction /\ Prompt /\ FabEdge /\ UpdateGrant /\ UpdatePrio
  BY DEF DamTypeOK, Banks, Kept, DamNext, FabEdge
<1> SUFFICES ASSUME NEW m \in Masters, NEW s \in mst_arb_grant_r'[m]
             PROVE  (serving'[s] = {m} \/ s \in addr_misalign_r') /\ prio_r'[s] # m
  BY DEF LockedBank
<1>1. s \in req_lck_to_slv(m)
  BY <1>0, NewGrant
<1>2. s \in Slaves /\ mst_req[m] = s /\ drivers(s) = {m}
  BY <1>0, <1>1, DriverAsks
<1>3. prio_r'[s] # m
  <2>0. prio_r'[s] = Arb!NextPrio(prio_r[s], slv_arb_req(s))
    BY <1>0, <1>2 DEF UpdatePrio
  <2>1. prio_r[s] \in Masters /\ slv_arb_req(s) \in SUBSET Masters
    BY <1>2 DEF DamTypeOK, TypeOK, slv_arb_req
  <2>2. CASE m \in slv_arb_grant(s)
    BY <2>0, <2>1, <2>2, TwoLines DEF slv_arb_grant
  <2>3. CASE m \notin slv_arb_grant(s)
    <3>1. s \in mst_arb_grant_r[m] /\ ~slv_rsp_fire(s)
      BY <1>1, <2>3 DEF req_lck_to_slv, mst_arb_grant
    <3>2. slv_arb_grant(s) = {}
      BY <1>0, <1>2, <3>1, GrantFacts DEF slv_arb_grant_r
    <3>3. prio_r'[s] = prio_r[s]
      BY <2>0, <2>1, <3>2, TwoLines DEF slv_arb_grant
    <3> QED BY <3>1, <3>3 DEF Banks, LockedBank
  <2> QED BY <2>2, <2>3
<1>4. CASE slv_req_fire(s)
  <2>1. serving'[s] # {}
    BY <1>2, <1>4, PromptStep
  <2>2. serving'[s] = {m}
    BY <2>1, TransactionStep DEF OneTransaction
  <2> QED BY <1>3, <2>2
<1>5. CASE ~slv_req_fire(s)
  <2>1. addr_misalign(s) /\ s \notin addr_misalign_r
    BY <1>0, <1>1, <1>5, TakenWhenDriven
  <2> QED BY <1>2, <1>3, <2>1 DEF Kept, DamNext, UpdateBanks
<1> QED BY <1>4, <1>5
LEMMA SeparateNext == TypeOK' /\ OneTransaction' => RequestsSeparate'
<1>1. TypeOK /\ OneTransaction => RequestsSeparate
  BY CoreImpliesSeparate
<1> QED BY <1>1, PTL

\* A port that drives its bank is, or will be, locked to it.
LEMMA DriverLocked ==
    ASSUME DamTypeOK, Banks, Kept, NEW k \in Masters, NEW s \in req_lck_to_slv(k)
    PROVE  /\ s \in mst_arb_grant_r'[k]
           /\ slv_req_fire(s) => serving'[s] = {k}
           /\ ~slv_req_fire(s) => k = PortB /\ s \in addr_misalign_r'
<1>0. TypeOK /\ OneTransaction /\ Prompt /\ UpdateGrant
  BY DEF DamTypeOK, Banks, Kept, DamNext
<1>1. s \in Slaves /\ mst_req[k] = s
  BY <1>0, DriverAsks
<1>2. s \in mst_arb_grant_r'[k]
  BY <1>0, <1>1, NewGrant
<1>3. slv_req_fire(s) => serving'[s] = {k}
  BY <1>1, <1>2, PromptStep, TransactionStep DEF OneTransaction
<1>4. ~slv_req_fire(s) => k = PortB /\ addr_misalign(s) /\ s \notin addr_misalign_r
  BY <1>0, TakenWhenDriven
<1> QED BY <1>1, <1>2, <1>3, <1>4 DEF Kept, DamNext, UpdateBanks

\* The fetch port waits for one access of the load/store port at most.
LEMMA FetchWaits ==
    ASSUME DamTypeOK, Banks, Kept, Waits(PortA), mst_req'[PortA] = mst_req[PortA]
    PROVE  /\ waited'[PortA] \in {1, 2} /\ mst_req[PortA] \in mst_arb_grant_r'[PortB]
           /\ waited'[PortA] = 2 => serving'[mst_req[PortA]] = {PortB}
<1>c. Connected
  BY DEF DamTypeOK
<1> USE <1>c
<1> DEFINE s == mst_req[PortA]
<1>1. s \in Slaves /\ s \notin req_lck_to_slv(PortA) /\ s \in req_lck_to_slv(PortB)
  BY WhyWait, TwoPorts
<1>2. s \in mst_arb_grant_r'[PortB] /\ (slv_req_fire(s) => serving'[s] = {PortB})
  BY <1>1, TwoPorts, DriverLocked
<1>3. waited[PortA] \in 0 .. Late /\ waited[PortA] # Late
  BY TwoPorts DEF DamTypeOK, Banks, WaitsFor
<1>4. waited'[PortA] = waited[PortA] + 1
  BY <1>3, TwoPorts DEF Kept, DamNext, Record, Late
<1>5. waited[PortA] # 2
  BY <1>1, TwoPorts, OtherNext DEF Banks, WaitsFor
<1>6. ASSUME waited[PortA] = 1 PROVE slv_req_fire(s)
  <2>1. s \in mst_arb_grant_r[PortB]
    BY <1>6 DEF Banks, WaitsFor
  <2>2. s \in addr_misalign_r
    BY <1>1, <2>1, TwoPorts, OtherNext DEF Banks, LockedBank
  <2> QED BY <1>1, <2>2, TwoPorts, TakenWhenDriven DEF Banks
<1> QED BY <1>2, <1>3, <1>4, <1>5, <1>6 DEF Late

\* The load/store port waits for one fetch and its own first cycle at most.
LEMMA LoadStoreWaits ==
    ASSUME DamTypeOK, Banks, Kept, Waits(PortB), mst_req'[PortB] = mst_req[PortB]
    PROVE  /\ waited'[PortB] \in {1, 2}
           /\ \/ mst_req[PortB] \in addr_misalign_r'
              \/ /\ waited'[PortB] = 1 /\ mst_req[PortB] \in mst_arb_grant_r'[PortA]
                 /\ serving'[mst_req[PortB]] = {PortA}
<1>c. Connected
  BY DEF DamTypeOK
<1> USE <1>c
<1> DEFINE s == mst_req[PortB]
<1>0. OneTransaction /\ Prompt /\ s \in Slaves
  BY WhyWait, TwoPorts DEF Banks
<1>1. waited[PortB] \in 0 .. Late /\ waited[PortB] # Late
  BY TwoPorts DEF DamTypeOK, Banks, WaitsFor
<1>2. waited'[PortB] = waited[PortB] + 1
  BY <1>1, TwoPorts DEF Kept, DamNext, Record, Late
<1>3. s \notin addr_misalign_r
  <2> SUFFICES ASSUME s \in addr_misalign_r PROVE FALSE
    OBVIOUS
  <2>1. s \in mst_arb_grant_r[PortB] /\ serving[s] = {}
    BY DEF Banks, SecondCycle
  <2>2. ~slv_rsp_fire(s)
    BY <1>0, <2>1 DEF slv_rsp_fire, OneTransaction
  <2>3. s \in req_lck_to_slv(PortB)
    BY <2>1, <2>2 DEF req_lck_to_slv
  <2> QED BY <1>0, <2>3, TwoPorts, TakenWhenDriven DEF Waits
<1>4. waited[PortB] # 2
  BY <1>3 DEF Banks, WaitsFor
<1>5. CASE s \in req_lck_to_slv(PortB)
  <2>1. ~slv_req_fire(s)
    BY <1>0, <1>5, TwoPorts, TakenWhenDriven DEF Waits
  <2> QED BY <1>1, <1>2, <1>4, <1>5, <2>1, TwoPorts, DriverLocked DEF Late
<1>6. CASE s \notin req_lck_to_slv(PortB)
  <2>1. s \in req_lck_to_slv(PortA)
    BY <1>6, WhyWait, TwoPorts
  <2>2. s \in mst_arb_grant_r'[PortA] /\ serving'[s] = {PortA}
    BY <2>1, TwoPorts, DriverLocked
  <2>3. waited[PortB] # 1
    BY <1>3, <1>6, TwoPorts, OtherNext DEF Banks, WaitsFor
  <2> QED BY <1>1, <1>2, <1>4, <2>2, <2>3 DEF Late
<1> QED BY <1>5, <1>6

LEMMA WaitsStep == ASSUME DamTypeOK, Banks, Kept PROVE WaitsFor'
<1>c. Connected
  BY DEF DamTypeOK
<1> USE <1>c
<1>1. ASSUME NEW m \in Masters, ~(Waits(m) /\ mst_req'[m] = mst_req[m]) PROVE waited'[m] = 0
  BY <1>1 DEF Kept, DamNext, Record
<1>2. ASSUME NEW m \in Masters, waited'[m] # 0
      PROVE  Waits(m) /\ mst_req'[m] = mst_req[m] /\ mst_req_vld(m)'
  BY <1>1, <1>2 DEF Waits, mst_req_vld
<1>3. /\ waited'[PortA] \in {0, 1, 2}
      /\ waited'[PortA] \in {1, 2} => mst_req'[PortA] \in mst_arb_grant_r'[PortB]
      /\ waited'[PortA] = 2 => serving'[mst_req'[PortA]] = {PortB}
  BY <1>2, TwoPorts, FetchWaits
<1>4. /\ waited'[PortB] \in {0, 1, 2}
      /\ waited'[PortB] = 1 => \/ /\ mst_req'[PortB] \in mst_arb_grant_r'[PortA]
                                  /\ serving'[mst_req'[PortB]] = {PortA}
                               \/ mst_req'[PortB] \in addr_misalign_r'
      /\ waited'[PortB] = 2 => mst_req'[PortB] \in addr_misalign_r'
  BY <1>2, TwoPorts, LoadStoreWaits
<1>5. \A m \in Masters : waited'[m] # Late /\ (waited'[m] # 0 => mst_req_vld(m)')
  BY <1>2, <1>3, <1>4, TwoPorts DEF Late
<1> QED BY <1>3, <1>4, <1>5 DEF WaitsFor

-----------------------------------------------------------------------------
\* The invariant of the memory holds in every reachable cycle.
THEOREM DamInvariance == ASSUME Connected PROVE DamSpec => []DamInv
<1>1. DamInit => DamInv
  <2> SUFFICES ASSUME DamInit PROVE DamInv
    OBVIOUS
  <2> USE FabAssumption DEF Connected
  <2>1. TypeOK
    BY DEF DamInit, Init, TypeOK, Masters
  <2>2. slv_req_rdy = sram_req_rdy
    BY TwoPorts DEF DamInit, Init, sram_req_rdy, addr_misalign, mst_req_vld
  <2>3. DamTypeOK
    <3>1. mst_req \in Ports /\ awaited \in Ports /\ mst_req[PortB] = None
      BY TwoPorts DEF DamInit, Init, Ports
    <3>2. waited \in [Masters -> 0 .. Late]
      BY DEF DamInit, Late
    <3> QED BY <2>1, <2>2, <3>1, <3>2 DEF DamInit, DamTypeOK
  <2>4. OneTransaction
    BY DEF DamInit, Init, OneTransaction, mst_req_vld
  <2>5. Prompt /\ SecondCycle /\ LockedBank /\ WaitsFor
    BY TwoPorts DEF DamInit, Init, Prompt, SecondCycle, LockedBank, WaitsFor, Late
  <2> QED BY <2>3, <2>4, <2>5 DEF DamInv, Banks
<1>2. DamInv /\ [DamNext]_damvars => DamInv'
  <2>1. ASSUME DamInv, DamNext PROVE DamInv'
    <3>1. DamTypeOK /\ DamTypeOK'
      BY <2>1, DamTypeStep DEF DamInv
    <3>2. ASSUME ~withdrawn' PROVE Banks'
      <4>1. ~withdrawn
        BY <2>1, <3>1, <3>2 DEF DamNext, Record, DamTypeOK
      <4>2. Banks /\ Kept
        BY <2>1, <3>2, <4>1 DEF DamInv, Kept
      <4> QED BY <3>1, <4>2, TransactionStep, PromptStep, SecondCycleStep, LockedStep, WaitsStep
              DEF Banks
    <3> QED BY <3>1, <3>2 DEF DamInv
  <2>2. ASSUME DamInv, UNCHANGED damvars PROVE DamInv'
    <3>1. UNCHANGED vars /\ UNCHANGED <<misaligned, addr_misalign_r, trap_flush, empty, withdrawn, waited>>
      BY <2>2 DEF damvars
    <3>2. TypeOK /\ TypeOK'
      BY <2>2, <3>1 DEF DamInv, DamTypeOK, TypeOK, vars, regs, ports
    <3>3. sram_req_rdy' = sram_req_rdy
      BY <3>1 DEF vars, regs, ports, sram_req_rdy, addr_misalign, drivers, req_lck_to_slv,
           mst_arb_grant, slv_arb_grant, slv_arb_req, slv_arb_grant_r, mst_rsp_fire, mst_rsp_vld,
           slv_rsp_fire, slv_rsp_rdy, mst_req_vld
    <3>4. DamTypeOK'
      BY <2>2, <3>1, <3>2, <3>3 DEF DamInv, DamTypeOK, vars, regs, ports
    <3>5. Banks => Banks'
      BY <3>1 DEF Banks, OneTransaction, Prompt, SecondCycle, LockedBank, WaitsFor, vars, regs,
           ports, mst_req_vld, mst_rsp_fire, mst_rsp_vld
    <3> QED BY <2>2, <3>1, <3>4, <3>5 DEF DamInv
  <2> QED BY <2>1, <2>2
<1> QED BY <1>1, <1>2, PTL DEF DamSpec

\* As long as no granted access was taken back, the two ports are kept apart
\* and get their own answers.
THEOREM SafeUntilWithdrawnHolds == ASSUME Connected PROVE DamSpec => []SafeUntilWithdrawn
<1>0. DamSpec => []DamInv
  BY DamInvariance
<1>1. DamInv => SafeUntilWithdrawn
  BY CoreImpliesSeparate, CoreImpliesNoOverrun, CoreImpliesRouted
     DEF DamInv, DamTypeOK, Banks, SafeUntilWithdrawn
<1> QED BY <1>1, <1>0, PTL

\* Until then, a request is taken after two cycles at most, and answered in
\* the cycle after that.
THEOREM InTimeHolds == ASSUME Connected PROVE DamSpec => []InTime
<1>0. DamSpec => []DamInv
  BY DamInvariance
<1>1. DamInv => InTime
  <2> SUFFICES ASSUME DamInv, ~withdrawn, NEW m \in Masters
               PROVE  waited[m] < Late /\ (awaited[m] # None => mst_rsp_fire(m))
    BY DEF InTime
  <2>1. DamTypeOK /\ Banks
    BY DEF DamInv
  <2>2. waited[m] \in 0 .. Late /\ waited[m] # Late
    BY <2>1 DEF DamTypeOK, Banks, WaitsFor
  <2> QED BY <2>1, <2>2, AnsweredNow DEF Banks, Late
<1> QED BY <1>1, <1>0, PTL

\* It takes a trap to take a granted access back.
THEOREM OnlyFlushHolds == ASSUME Connected PROVE DamSpec => OnlyFlushWithdraws
<1>0. DamSpec => []DamInv
  BY DamInvariance
<1>1. DamInv /\ [DamNext]_damvars => [withdrawn' => withdrawn \/ trap_flush']_damvars
  <2> SUFFICES ASSUME DamInv, DamNext, withdrawn', ~withdrawn PROVE trap_flush'
    OBVIOUS
  <2>1. DamTypeOK /\ Banks
    BY DEF DamInv
  <2>2. PICK m \in Masters : Waits(m) /\ req_lck_to_slv(m) # {} /\ mst_req'[m] # mst_req[m]
    BY DEF DamNext, Record
  <2>3. m = PortB
    <3>1. PICK s : s \in req_lck_to_slv(m)
      BY <2>2
    <3>2. mst_req[m] = s
      BY <2>1, <3>1, DriverAsks DEF Banks
    <3> QED BY <2>1, <2>2, <3>1, <3>2, WhyWait
  <2>4. ~empty
    BY <2>1, <2>2, <2>3 DEF DamTypeOK, Waits, mst_req_vld
  <2>5. empty'
    BY <2>2, <2>3 DEF DamNext, LoadStore
  <2> QED BY <2>4, <2>5 DEF DamNext, Trap
<1> QED BY <1>1, <1>0, PTL DEF DamSpec, OnlyFlushWithdraws

\* A bank that does not take a request at once is asked the same by the same
\* port in the next cycle, unless the access was taken back.
THEOREM AskedTwiceHolds == ASSUME Connected PROVE DamSpec => AskedTwice
<1>0. DamSpec => []DamInv
  BY DamInvariance
<1> DEFINE Same(s) == slv_req_vld(s)' /\ drivers(s)' = drivers(s) /\ misaligned' = misaligned
<1>1. ASSUME DamTypeOK, Banks, Kept, NEW s \in Slaves, slv_req_vld(s), ~slv_req_fire(s)
      PROVE  Same(s)
  <2>0. OneTransaction /\ Prompt
    BY <1>1 DEF Banks
  <2>1. PICK m \in Masters : s \in req_lck_to_slv(m)
    BY <1>1 DEF slv_req_vld, drivers
  <2>2. m = PortB /\ misaligned /\ drivers(s) = {PortB}
    BY <1>1, <2>0, <2>1, TakenWhenDriven, DriverAsks
  <2>3. s \in addr_misalign_r' /\ s \in mst_arb_grant_r'[PortB]
    BY <1>1, <2>1, <2>2, DriverLocked
  <2>4. mst_req'[PortB] = s /\ misaligned' /\ serving'[s] = {}
    BY <1>1, <2>3, SecondCycleStep DEF SecondCycle
  <2>5. DamTypeOK' /\ Banks'
    BY <1>1, DamTypeStep, TransactionStep, PromptStep, SecondCycleStep, LockedStep, WaitsStep
       DEF Kept, Banks
  <2>6. ~slv_rsp_fire(s)'
    BY <2>4, <2>5 DEF slv_rsp_fire, Banks, OneTransaction
  <2>7. s \in req_lck_to_slv(PortB)'
    BY <2>3, <2>6 DEF req_lck_to_slv
  <2>8. PortB \in drivers(s)' /\ mst_req_vld(PortB)'
    BY <2>4, <2>7, TwoPorts, FabAssumption DEF drivers, mst_req_vld
  <2>9. slv_req_vld(s)'
    BY <2>8 DEF slv_req_vld
  <2>10. RequestsSeparate'
    BY <2>5, SeparateNext DEF DamTypeOK, Banks
  <2>11. drivers(s)' = {PortB}
    BY <2>8, <2>9, <2>10 DEF RequestsSeparate
  <2>12. misaligned' = misaligned
    BY <1>1, <2>2, <2>4, <2>5 DEF DamTypeOK
  <2> QED BY <2>2, <2>9, <2>11, <2>12
<1>2. DamInv /\ [DamNext]_damvars =>
          [~withdrawn' => \A s \in Slaves : slv_req_vld(s) /\ ~slv_req_fire(s) => Same(s)]_damvars
  <2> SUFFICES ASSUME DamInv, DamNext, ~withdrawn', NEW s \in Slaves,
                      slv_req_vld(s), ~slv_req_fire(s)
               PROVE  Same(s)
    OBVIOUS
  <2>1. ~withdrawn
    BY DEF DamInv, DamTypeOK, DamNext, Record
  <2> QED BY <1>1, <2>1 DEF DamInv, Kept
<1> QED BY <1>2, <1>0, PTL DEF DamSpec, AskedTwice

=============================================================================
