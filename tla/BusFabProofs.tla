---------------------------- MODULE BusFabProofs ----------------------------
(***************************************************************************)
(* Proofs about module BusFab, for any number of masters and any set of    *)
(* slave ports: the lock keeps requests apart, protects the slaves from    *)
(* overrun, and routes every response to the master that asked.            *)
(***************************************************************************)
EXTENDS BusFab, TLAPS

\* The arbiter of a slave grants at most one of the requesting masters.
LEMMA GrantUnique ==
    ASSUME NEW p \in Masters, NEW req \in SUBSET Masters,
           NEW i \in Arb!Grant(p, req), NEW k \in Arb!Grant(p, req)
    PROVE  i \in req /\ i = k
  BY FabAssumption DEF Masters, Arb!Grant, Arb!Behind

\* The priority pointer stays on an existing line.
LEMMA NextPrioType ==
    ASSUME NEW p \in Masters, NEW req \in SUBSET Masters
    PROVE  Arb!NextPrio(p, req) \in Masters
<1>1. CASE Arb!Grant(p, req) = {}
  BY <1>1 DEF Arb!NextPrio
<1>2. CASE Arb!Grant(p, req) # {}
  <2> DEFINE g == CHOOSE i \in Arb!Grant(p, req) : TRUE
  <2>1. g \in Masters
    BY <1>2 DEF Arb!Grant
  <2>2. Arb!NextPrio(p, req) = IF g + 1 < MST_PORT_NUM THEN g + 1 ELSE 0
    BY <1>2 DEF Arb!NextPrio
  <2> HIDE DEF g
  <2> QED BY <2>1, <2>2, FabAssumption DEF Masters
<1> QED BY <1>1, <1>2

\* A granted master asked for the slave, is alone, and finds the slave free
\* or giving up its lock in this very cycle.
LEMMA GrantFacts ==
    ASSUME TypeOK, OneTransaction, NEW s \in Slaves, NEW m \in slv_arb_grant(s)
    PROVE  /\ m \in Masters /\ mst_req[m] = s
           /\ \A k \in slv_arb_grant(s) : k = m
           /\ slv_arb_grant_r(s) = {} \/ slv_rsp_fire(s)
<1>1. slv_arb_req(s) \in SUBSET Masters /\ prio_r[s] \in Masters
  BY DEF slv_arb_req, TypeOK
<1>2. m \in slv_arb_req(s) /\ \A k \in slv_arb_grant(s) : k = m
  BY <1>1, GrantUnique DEF slv_arb_grant
<1>3. m \in Masters /\ mst_req[m] = s
  BY <1>2 DEF slv_arb_req
<1>4. ASSUME NEW k \in slv_arb_grant_r(s), mst_rsp_fire(k)
      PROVE  slv_rsp_fire(s)
  <2>1. k \in Masters /\ s \in mst_arb_grant_r[k]
    BY DEF slv_arb_grant_r
  <2>2. k \notin mst_acc_fault_r /\ mst_arb_grant_r[k] = {s}
    BY <2>1 DEF OneTransaction
  <2> QED BY <1>4, <2>1, <2>2 DEF mst_rsp_fire, mst_rsp_vld, slv_rsp_fire, slv_rsp_rdy
<1>5. slv_arb_grant_r(s) = {} \/ \E k \in slv_arb_grant_r(s) : mst_rsp_fire(k)
  BY <1>2 DEF slv_arb_req
<1> QED BY <1>2, <1>3, <1>4, <1>5

\* A slave's response fires exactly when the master locked to it takes it.
LEMMA RspFacts ==
    ASSUME TypeOK, OneTransaction, NEW s \in Slaves, slv_rsp_fire(s)
    PROVE  \E m \in Masters : /\ serving[s] = {m} /\ awaited[m] = s
                              /\ mst_arb_grant_r[m] = {s} /\ mst_rsp_fire(m)
<1>1. PICK m \in Masters : s \in mst_arb_grant_r[m] /\ m \in mst_rsp_rdy
  BY DEF slv_rsp_fire, slv_rsp_rdy
<1>2. s \in slv_rsp_vld /\ serving[s] # {}
  BY DEF slv_rsp_fire, OneTransaction
<1>3. serving[s] = {m} /\ mst_arb_grant_r[m] = {s}
  BY <1>1, <1>2 DEF OneTransaction
<1>4. awaited[m] = s
  BY <1>3 DEF OneTransaction
<1>5. mst_rsp_fire(m)
  BY <1>1, <1>2, <1>3 DEF mst_rsp_fire, mst_rsp_vld
<1> QED BY <1>1, <1>3, <1>4, <1>5

\* A master that takes a response is then rid of everything it waited for.
LEMMA MstRspFacts ==
    ASSUME TypeOK, OneTransaction, NEW m \in Masters, mst_rsp_fire(m)
    PROVE  \/ awaited[m] = Unmapped /\ m \in mst_acc_fault_r /\ mst_arb_grant_r[m] = {}
           \/ /\ awaited[m] \in Slaves /\ m \notin mst_acc_fault_r
              /\ mst_arb_grant_r[m] = {awaited[m]} /\ serving[awaited[m]] = {m}
              /\ slv_rsp_fire(awaited[m])
<1>1. CASE m \in mst_acc_fault_r
  BY <1>1 DEF OneTransaction
<1>2. CASE m \notin mst_acc_fault_r
  <2>1. PICK s \in mst_arb_grant_r[m] : s \in slv_rsp_vld
    BY <1>2 DEF mst_rsp_fire, mst_rsp_vld
  <2>2. s \in Slaves /\ mst_arb_grant_r[m] = {s} /\ serving[s] = {m}
    BY <2>1 DEF OneTransaction, TypeOK
  <2>3. awaited[m] = s
    BY <2>2 DEF OneTransaction
  <2>4. slv_rsp_fire(s)
    BY <2>1, <2>2 DEF slv_rsp_fire, slv_rsp_rdy, mst_rsp_fire
  <2> QED BY <1>2, <2>2, <2>3, <2>4
<1> QED BY <1>1, <1>2

\* A master drives only the slave it asks, once it is locked to it.
LEMMA LockFacts ==
    ASSUME TypeOK, OneTransaction, NEW m \in Masters, NEW s \in req_lck_to_slv(m)
    PROVE  /\ s \in Slaves
           /\ \/ s \in mst_arb_grant(m) /\ mst_req[m] = s
              \/ s \in mst_arb_grant_r[m] /\ ~slv_rsp_fire(s) /\ s \notin mst_arb_grant(m)
           /\ mst_req_vld(m) => mst_req[m] = s
           /\ \A k \in Masters : s \in req_lck_to_slv(k) => k = m
<1>1. s \in Slaves
  BY DEF req_lck_to_slv, mst_arb_grant, TypeOK
<1>2. s \in mst_arb_grant(m) => mst_req[m] = s
  BY <1>1, GrantFacts DEF mst_arb_grant
<1>3. s \notin mst_arb_grant(m) => s \in mst_arb_grant_r[m] /\ ~slv_rsp_fire(s)
  BY DEF req_lck_to_slv
<1>4. ASSUME s \in mst_arb_grant_r[m], ~slv_rsp_fire(s), mst_req_vld(m)
      PROVE  mst_req[m] = s
  <2>1. CASE serving[s] = {}
    BY <1>1, <1>4, <2>1 DEF OneTransaction
  <2>2. CASE serving[s] = {m}
    <3>1. awaited[m] = s
      BY <1>1, <2>2 DEF OneTransaction
    <3>2. mst_rsp_fire(m)
      BY <1>1, <1>4, <3>1, FabAssumption DEF OneTransaction
    <3> QED BY <1>1, <1>4, <3>1, <3>2, MstRspFacts, FabAssumption
  <2> QED BY <1>4, <2>1, <2>2 DEF OneTransaction
<1>5. ASSUME NEW k \in Masters, s \in req_lck_to_slv(k) PROVE k = m
  <2>1. CASE s \in mst_arb_grant(m)
    <3>1. m \in slv_arb_grant(s)
      BY <2>1 DEF mst_arb_grant
    <3>2. slv_arb_grant_r(s) = {} \/ slv_rsp_fire(s)
      BY <1>1, <3>1, GrantFacts
    <3>3. s \in mst_arb_grant(k)
      BY <1>5, <3>2 DEF req_lck_to_slv, slv_arb_grant_r
    <3> QED BY <1>1, <3>1, <3>3, GrantFacts DEF mst_arb_grant
  <2>2. CASE s \notin mst_arb_grant(m)
    <3>1. s \in mst_arb_grant_r[m] /\ ~slv_rsp_fire(s)
      BY <1>3, <2>2
    <3>2. m \in slv_arb_grant_r(s)
      BY <3>1 DEF slv_arb_grant_r
    <3>3. s \notin mst_arb_grant(k)
      BY <1>1, <3>1, <3>2, GrantFacts DEF mst_arb_grant
    <3>4. s \in mst_arb_grant_r[k]
      BY <1>5, <3>3 DEF req_lck_to_slv
    <3> QED BY <3>1, <3>4 DEF OneTransaction
  <2> QED BY <2>1, <2>2
<1> QED BY <1>1, <1>2, <1>3, <1>4, <1>5

-----------------------------------------------------------------------------
\* The core invariant gives the three properties the fabric is used for.
LEMMA CoreImpliesSeparate == ASSUME TypeOK, OneTransaction PROVE RequestsSeparate
<1> SUFFICES ASSUME NEW s \in Slaves, slv_req_vld(s)
             PROVE  \E m \in Masters : drivers(s) = {m} /\ mst_req[m] = s
  BY DEF RequestsSeparate
<1>1. PICK m \in Masters : s \in req_lck_to_slv(m) /\ mst_req_vld(m)
  BY DEF slv_req_vld, drivers
<1>2. mst_req[m] = s /\ \A k \in Masters : s \in req_lck_to_slv(k) => k = m
  BY <1>1, LockFacts
<1>3. drivers(s) = {m}
  BY <1>1, <1>2 DEF drivers
<1> QED BY <1>2, <1>3

LEMMA CoreImpliesNoOverrun == ASSUME TypeOK, OneTransaction PROVE NoOverrun
<1> SUFFICES ASSUME NEW s \in Slaves, slv_req_vld(s), serving[s] # {}, ~slv_rsp_fire(s)
             PROVE  FALSE
  BY DEF NoOverrun
<1>1. PICK m \in Masters : s \in req_lck_to_slv(m) /\ mst_req_vld(m)
  BY DEF slv_req_vld, drivers
<1>2. PICK k \in Masters : k \in serving[s]
  BY DEF TypeOK
<1>3. s \in mst_arb_grant_r[k] /\ awaited[k] = s
  BY <1>2 DEF OneTransaction
<1>4. s \in req_lck_to_slv(k)
  BY <1>3 DEF req_lck_to_slv
<1>5. k = m
  BY <1>1, <1>4, LockFacts
<1>6. mst_rsp_fire(m)
  BY <1>1, <1>3, <1>5, FabAssumption DEF OneTransaction
<1> QED BY <1>3, <1>5, <1>6, MstRspFacts, FabAssumption

LEMMA CoreImpliesRouted == ASSUME TypeOK, OneTransaction PROVE ResponsesRouted
<1>1. ASSUME NEW s \in slv_rsp_vld
      PROVE  \E m \in Masters : serving[s] = {m} /\ awaited[m] = s /\ slv_arb_grant_r(s) = {m}
  <2>1. s \in Slaves /\ serving[s] # {}
    BY DEF TypeOK, OneTransaction
  <2>2. PICK m \in Masters : m \in serving[s]
    BY <2>1 DEF TypeOK
  <2>3. s \in mst_arb_grant_r[m] /\ awaited[m] = s
    BY <2>1, <2>2 DEF OneTransaction
  <2>4. serving[s] = {m} /\ \A k \in Masters : s \in mst_arb_grant_r[k] => k = m
    BY <2>1, <2>3 DEF OneTransaction
  <2> QED BY <2>3, <2>4 DEF slv_arb_grant_r
<1>2. ASSUME NEW m \in Masters, mst_rsp_vld(m)
      PROVE  IF m \in mst_acc_fault_r
             THEN awaited[m] = Unmapped /\ mst_arb_grant_r[m] \cap slv_rsp_vld = {}
             ELSE mst_arb_grant_r[m] \cap slv_rsp_vld = {awaited[m]}
  <2>1. CASE m \in mst_acc_fault_r
    BY <2>1 DEF OneTransaction
  <2>2. CASE m \notin mst_acc_fault_r
    <3>1. PICK s \in mst_arb_grant_r[m] : s \in slv_rsp_vld
      BY <1>2, <2>2 DEF mst_rsp_vld
    <3>2. s \in Slaves /\ serving[s] = {m} /\ mst_arb_grant_r[m] = {s}
      BY <3>1 DEF OneTransaction, TypeOK
    <3>3. awaited[m] = s
      BY <3>2 DEF OneTransaction
    <3> QED BY <2>2, <3>1, <3>2, <3>3
  <2> QED BY <2>1, <2>2
<1> QED BY <1>1, <1>2 DEF ResponsesRouted

-----------------------------------------------------------------------------
\* A request is taken from the master exactly when its slave takes it, and
\* the slave then works for that master alone.
LEMMA ReqFacts ==
    ASSUME TypeOK, OneTransaction, NEW m \in Masters, mst_req[m] \in Slaves
    PROVE  /\ mst_req_fire(m) <=> mst_req[m] \in req_lck_to_slv(m) /\ mst_req[m] \in slv_req_rdy
           /\ mst_req_fire(m) => /\ slv_req_fire(mst_req[m])
                                 /\ {k \in drivers(mst_req[m]) : mst_req_vld(k)} = {m}
<1>1. mst_req_vld(m) /\ ~mst_acc_fault(m)
  BY FabAssumption DEF mst_req_vld, mst_acc_fault
<1>2. \A s \in req_lck_to_slv(m) : s = mst_req[m]
  BY <1>1, LockFacts
<1>3. mst_req_fire(m) <=> mst_req[m] \in req_lck_to_slv(m) /\ mst_req[m] \in slv_req_rdy
  BY <1>1, <1>2 DEF mst_req_fire, mst_req_rdy
<1>4. ASSUME mst_req_fire(m)
      PROVE  /\ slv_req_fire(mst_req[m])
             /\ {k \in drivers(mst_req[m]) : mst_req_vld(k)} = {m}
  <2>1. drivers(mst_req[m]) = {m}
    BY <1>3, <1>4, LockFacts DEF drivers
  <2> QED BY <1>1, <1>3, <1>4, <2>1 DEF slv_req_fire, slv_req_vld
<1> QED BY <1>3, <1>4

LEMMA SlvReqFacts ==
    ASSUME TypeOK, OneTransaction, NEW s \in Slaves, slv_req_fire(s)
    PROVE  \E m \in Masters : mst_req[m] = s /\ mst_req_fire(m) /\ s \in req_lck_to_slv(m)
<1>1. PICK m \in Masters : s \in req_lck_to_slv(m) /\ mst_req_vld(m)
  BY DEF slv_req_fire, slv_req_vld, drivers
<1>2. mst_req[m] = s
  BY <1>1, LockFacts
<1>3. mst_req_fire(m)
  BY <1>1, <1>2, ReqFacts DEF slv_req_fire
<1> QED BY <1>1, <1>2, <1>3

\* The register update keeps a lock exactly as long as it drives the slave.
LEMMA NewGrant ==
    ASSUME TypeOK, OneTransaction, UpdateGrant, NEW m \in Masters
    PROVE  /\ \A s \in mst_arb_grant_r'[m] : s \in req_lck_to_slv(m)
           /\ \A s, t \in mst_arb_grant_r'[m] : s = t
           /\ \A s \in req_lck_to_slv(m) : mst_req[m] \in {s, None} => s \in mst_arb_grant_r'[m]
           /\ mst_req[m] \notin Slaves => mst_arb_grant(m) = {}
<1>1. mst_arb_grant_r'[m] = IF mst_arb_grant(m) # {} THEN mst_arb_grant(m)
                            ELSE IF \E s \in mst_arb_grant_r[m] : slv_rsp_fire(s) THEN {}
                            ELSE mst_arb_grant_r[m]
  BY DEF UpdateGrant
<1>2. \A s \in mst_arb_grant(m) : s \in Slaves /\ mst_req[m] = s
  BY GrantFacts DEF mst_arb_grant
<1>3. \A s, t \in mst_arb_grant_r[m] : s = t
  BY DEF OneTransaction
<1>4. \A s \in mst_arb_grant_r'[m] : s \in req_lck_to_slv(m)
  BY <1>1 DEF req_lck_to_slv
<1>5. \A s, t \in mst_arb_grant_r'[m] : s = t
  BY <1>1, <1>2, <1>3
<1>6. ASSUME NEW s \in req_lck_to_slv(m), mst_req[m] \in {s, None}
      PROVE  s \in mst_arb_grant_r'[m]
  <2>1. CASE s \in mst_arb_grant(m)
    BY <1>1, <2>1
  <2>2. CASE s \notin mst_arb_grant(m)
    <3>1. s \in mst_arb_grant_r[m] /\ ~slv_rsp_fire(s)
      BY <2>2 DEF req_lck_to_slv
    <3>2. mst_arb_grant(m) = {}
      BY <1>2, <1>6, <2>2, FabAssumption
    <3> QED BY <1>1, <1>3, <3>1, <3>2
  <2> QED BY <2>1, <2>2
<1> QED BY <1>2, <1>4, <1>5, <1>6

\* What a clock edge does to the registers and the bookkeeping.
FabEdge == UpdateFault /\ UpdateGrant /\ UpdatePrio /\ Track

\* A clock edge keeps every register in its type, and every port.
LEMMA EdgeType ==
    ASSUME TypeOK, FabEdge
    PROVE  /\ mst_acc_fault_r' \in SUBSET Masters
           /\ mst_arb_grant_r' \in [Masters -> SUBSET Slaves]
           /\ prio_r' \in [Slaves -> Masters]
           /\ serving' \in [Slaves -> SUBSET Masters]
           /\ awaited' \in [Masters -> Slaves \cup {Unmapped, None}]
<1>1. mst_acc_fault_r' \in SUBSET Masters
  BY DEF FabEdge, UpdateFault
<1>2. mst_arb_grant_r' \in [Masters -> SUBSET Slaves]
  BY DEF FabEdge, UpdateGrant, mst_arb_grant, TypeOK
<1>3. prio_r' \in [Slaves -> Masters]
  <2>1. \A s \in Slaves : Arb!NextPrio(prio_r[s], slv_arb_req(s)) \in Masters
    BY NextPrioType DEF TypeOK, slv_arb_req
  <2> QED BY <2>1 DEF FabEdge, UpdatePrio
<1>4. serving' \in [Slaves -> SUBSET Masters]
  BY DEF FabEdge, Track, TypeOK, drivers
<1>5. awaited' \in [Masters -> Slaves \cup {Unmapped, None}]
  BY DEF FabEdge, Track, TypeOK
<1> QED BY <1>1, <1>2, <1>3, <1>4, <1>5

LEMMA TypeStep == ASSUME TypeOK, Next PROVE TypeOK'
<1>1. FabEdge /\ Drive
  BY DEF Next, Clock, FabEdge
<1>2. /\ mst_req' \in [Masters -> Slaves \cup {Unmapped, None}]
      /\ mst_rsp_rdy' \in SUBSET Masters /\ slv_req_rdy' \in SUBSET Slaves
      /\ slv_rsp_vld' \in SUBSET Slaves
  BY <1>1 DEF Drive
<1> QED BY <1>1, <1>2, EdgeType DEF TypeOK

LEMMA Tracked ==
    ASSUME FabEdge
    PROVE  /\ \A s \in Slaves : serving'[s] =
                  IF slv_req_fire(s) THEN {m \in drivers(s) : mst_req_vld(m)}
                  ELSE IF slv_rsp_fire(s) THEN {} ELSE serving[s]
           /\ \A m \in Masters : awaited'[m] =
                  IF mst_req_fire(m) THEN mst_req[m]
                  ELSE IF mst_rsp_fire(m) THEN None ELSE awaited[m]
BY DEF FabEdge, Track

\* Whatever is driven next: the slave that serves a master is locked to it,
\* and both know of each other.
LEMMA ServingStep ==
    ASSUME TypeOK, OneTransaction, FabEdge
    PROVE  /\ \A s \in Slaves : \A m \in serving'[s] : s \in mst_arb_grant_r'[m] /\ awaited'[m] = s
           /\ \A m \in Masters : awaited'[m] \in Slaves => m \in serving'[awaited'[m]]
<1> USE FabAssumption
<1>0. UpdateFault /\ UpdateGrant /\ Track
  BY DEF FabEdge
<1>2. ASSUME NEW s \in Slaves, NEW m \in serving'[s]
      PROVE  s \in mst_arb_grant_r'[m] /\ awaited'[m] = s
  <2>1. CASE slv_req_fire(s)
    <3>1. PICK j \in Masters : mst_req[j] = s /\ mst_req_fire(j) /\ s \in req_lck_to_slv(j)
      BY <2>1, SlvReqFacts
    <3>2. {k \in drivers(s) : mst_req_vld(k)} = {j}
      <4>1. {k \in drivers(mst_req[j]) : mst_req_vld(k)} = {j}
        BY <3>1, ReqFacts
      <4> QED BY <3>1, <4>1
    <3>3. serving'[s] = {k \in drivers(s) : mst_req_vld(k)}
      BY Tracked, <2>1
    <3>4. m = j
      BY <1>2, <3>2, <3>3
    <3> QED BY <1>0, Tracked, <3>1, <3>4, NewGrant
  <2>2. CASE ~slv_req_fire(s)
    <3>1. m \in serving[s] /\ ~slv_rsp_fire(s) /\ m \in Masters
      BY Tracked, <1>2, <2>2 DEF TypeOK
    <3>2. s \in mst_arb_grant_r[m] /\ awaited[m] = s
      BY <3>1 DEF OneTransaction
    <3>3. ~mst_rsp_fire(m)
      BY <3>1, <3>2, MstRspFacts
    <3>4. mst_req[m] = None
      BY <3>1, <3>2, <3>3 DEF OneTransaction, mst_req_vld
    <3>5. awaited'[m] = s
      BY Tracked, <3>1, <3>2, <3>3, <3>4 DEF mst_req_fire, mst_req_vld
    <3>6. s \in req_lck_to_slv(m)
      BY <3>1, <3>2 DEF req_lck_to_slv
    <3> QED BY <1>0, <3>1, <3>4, <3>5, <3>6, NewGrant
  <2> QED BY <2>1, <2>2
<1>3. ASSUME NEW m \in Masters, awaited'[m] \in Slaves
      PROVE  m \in serving'[awaited'[m]]
  <2>1. CASE mst_req_fire(m)
    <3>1. awaited'[m] = mst_req[m] /\ mst_req[m] \in Slaves
      BY Tracked, <1>3, <2>1
    <3>2. slv_req_fire(mst_req[m]) /\ {k \in drivers(mst_req[m]) : mst_req_vld(k)} = {m}
      BY <2>1, <3>1, ReqFacts
    <3>3. serving'[mst_req[m]] = {k \in drivers(mst_req[m]) : mst_req_vld(k)}
      BY Tracked, <3>1, <3>2
    <3> QED BY <3>1, <3>2, <3>3
  <2>2. CASE ~mst_req_fire(m)
    <3>1. awaited'[m] = awaited[m] /\ ~mst_rsp_fire(m) /\ awaited[m] \in Slaves
      BY Tracked, <1>3, <2>2
    <3>2. m \in serving[awaited[m]]
      BY <3>1 DEF OneTransaction
    <3>3. ~slv_rsp_fire(awaited[m])
      BY <3>1, <3>2, RspFacts
    <3>4. ~slv_req_fire(awaited[m])
      BY <3>1, <3>2, <3>3, CoreImpliesNoOverrun DEF NoOverrun, slv_req_fire
    <3>5. serving'[awaited[m]] = serving[awaited[m]]
      BY Tracked, <3>1, <3>3, <3>4
    <3> QED BY <3>1, <3>2, <3>5
  <2> QED BY <2>1, <2>2
<1> QED BY <1>2, <1>3

\* What the fabric needs of a master: a request that has been granted, and is
\* therefore locked to its slave, stays until it is taken; and there is at
\* most one unanswered.
KeepsGranted(m) ==
    /\ mst_req_vld(m) /\ ~mst_req_fire(m) /\ req_lck_to_slv(m) # {} => mst_req'[m] = mst_req[m]
    /\ mst_req'[m] # None => awaited'[m] = None \/ mst_rsp_fire(m)'

\* A clock edge preserves the transaction invariant, one conjunct at a time.
LEMMA EdgeStep ==
    ASSUME TypeOK, OneTransaction, FabEdge, \A m \in Masters : KeepsGranted(m),
           \A s \in slv_rsp_vld' : serving'[s] # {}
    PROVE  OneTransaction'
<1> USE FabAssumption
<1>0. UpdateFault /\ UpdateGrant /\ Track
  BY DEF FabEdge
<1>1. ASSUME NEW m \in Masters, NEW k \in Masters, NEW s \in mst_arb_grant_r'[m]
      PROVE  /\ \A t \in mst_arb_grant_r'[m] : t = s
             /\ s \in mst_arb_grant_r'[k] => k = m
             /\ serving'[s] = {m} \/ (serving'[s] = {} /\ mst_req'[m] = s)
  <2>1. s \in req_lck_to_slv(m) /\ \A t \in mst_arb_grant_r'[m] : t = s
    BY <1>0, NewGrant
  <2>2. s \in mst_arb_grant_r'[k] => k = m
    BY <1>0, <2>1, NewGrant, LockFacts
  <2>3. s \in Slaves
    BY <2>1, LockFacts
  <2>4. CASE slv_req_fire(s)
    <3>1. PICK j \in Masters : mst_req[j] = s /\ mst_req_fire(j) /\ s \in req_lck_to_slv(j)
      BY <2>3, <2>4, SlvReqFacts
    <3>2. j = m
      BY <2>1, <3>1, LockFacts
    <3> QED BY Tracked, <2>1, <2>2, <2>3, <2>4, <3>1, <3>2, ReqFacts
  <2>5. CASE ~slv_req_fire(s) /\ mst_req_vld(m)
    <3>1. mst_req[m] = s
      BY <2>1, <2>5, LockFacts
    <3>2. ~mst_req_fire(m)
      BY <2>3, <2>5, <3>1, ReqFacts
    <3>3. mst_req'[m] = s
      BY <2>1, <2>5, <3>1, <3>2 DEF KeepsGranted
    <3>4. serving[s] = {} \/ slv_rsp_fire(s)
      <4>1. slv_req_vld(s)
        BY <2>1, <2>5 DEF slv_req_vld, drivers
      <4> QED BY <2>3, <4>1, CoreImpliesNoOverrun DEF NoOverrun
    <3> QED BY Tracked, <2>1, <2>2, <2>3, <2>5, <3>3, <3>4
  <2>6. CASE ~slv_req_fire(s) /\ ~mst_req_vld(m)
    <3>1. s \in mst_arb_grant_r[m] /\ ~slv_rsp_fire(s)
      BY <2>1, <2>3, <2>6, LockFacts DEF mst_req_vld
    <3>2. serving[s] = {m}
      BY <2>3, <2>6, <3>1 DEF OneTransaction, mst_req_vld
    <3> QED BY Tracked, <2>1, <2>2, <2>3, <2>6, <3>1, <3>2
  <2> QED BY <2>4, <2>5, <2>6
<1>2. /\ \A s \in Slaves : \A m \in serving'[s] : s \in mst_arb_grant_r'[m] /\ awaited'[m] = s
      /\ \A m \in Masters : awaited'[m] \in Slaves => m \in serving'[awaited'[m]]
  BY ServingStep
<1>f. ASSUME NEW m \in Masters
      PROVE  /\ mst_acc_fault(m) <=> mst_req[m] = Unmapped
             /\ mst_acc_fault(m) => mst_req_fire(m)
             /\ m \in mst_acc_fault_r' <=>
                    mst_acc_fault(m) \/ (m \in mst_acc_fault_r /\ ~mst_rsp_fire(m))
  BY <1>0 DEF UpdateFault, mst_acc_fault, mst_req_vld, mst_req_fire, mst_req_rdy, TypeOK
<1>4. ASSUME NEW m \in Masters
      PROVE  m \in mst_acc_fault_r' <=> awaited'[m] = Unmapped
  <2>1. m \in mst_acc_fault_r <=> awaited[m] = Unmapped
    BY DEF OneTransaction
  <2>2. CASE mst_req_vld(m)
    <3>1. awaited[m] = None \/ mst_rsp_fire(m)
      BY <2>2 DEF OneTransaction
    <3> QED BY Tracked, <1>f, <2>1, <2>2, <3>1
  <2>3. CASE ~mst_req_vld(m)
    <3>1. ~mst_req_fire(m) /\ ~mst_acc_fault(m)
      BY <2>3 DEF mst_req_fire, mst_acc_fault
    <3> QED BY Tracked, <1>f, <2>1, <3>1
  <2> QED BY <2>2, <2>3
<1>5. ASSUME NEW m \in Masters, m \in mst_acc_fault_r'
      PROVE  mst_arb_grant_r'[m] = {}
  <2>1. SUFFICES ASSUME NEW s \in mst_arb_grant_r'[m] PROVE FALSE
    OBVIOUS
  <2>2. s \in req_lck_to_slv(m) /\ s \in Slaves
    BY <1>0, NewGrant, LockFacts
  <2>3. CASE mst_acc_fault(m)
    BY <1>f, <2>2, <2>3, LockFacts DEF mst_acc_fault
  <2>4. CASE ~mst_acc_fault(m) /\ m \in mst_acc_fault_r /\ ~mst_rsp_fire(m)
    <3>1. mst_arb_grant_r[m] = {} /\ awaited[m] = Unmapped
      BY <2>4 DEF OneTransaction
    <3>2. ~mst_req_vld(m)
      BY <2>4, <3>1 DEF OneTransaction
    <3> QED BY <2>2, <3>1, <3>2, LockFacts DEF mst_req_vld
  <2> QED BY <1>5, <1>f, <2>3, <2>4
<1>7. \A m \in Masters : mst_req_vld(m)' => awaited'[m] = None \/ mst_rsp_fire(m)'
  BY DEF KeepsGranted, mst_req_vld
<1> QED BY <1>1, <1>2, <1>4, <1>5, <1>7 DEF OneTransaction

LEMMA CoreStep == ASSUME TypeOK, OneTransaction, Next PROVE OneTransaction'
<1>1. FabEdge
  BY DEF Next, Clock, FabEdge
<1>2. \A m \in Masters : KeepsGranted(m)
  BY DEF Next, Clock, Drive, BlockingMaster, KeepsGranted
<1>3. \A s \in slv_rsp_vld' : serving'[s] # {}
  BY DEF Next, Clock, Drive, Slave
<1> QED BY <1>1, <1>2, <1>3, EdgeStep

-----------------------------------------------------------------------------
\* The transaction invariant holds in every reachable cycle.
THEOREM Invariance == Spec => [](TypeOK /\ OneTransaction)
<1>1. Init => TypeOK /\ OneTransaction
  <2> SUFFICES ASSUME Init PROVE TypeOK /\ OneTransaction
    OBVIOUS
  <2>1. TypeOK
    BY FabAssumption DEF Init, TypeOK, Masters
  <2>2. OneTransaction
    BY FabAssumption DEF Init, OneTransaction, mst_req_vld
  <2> QED BY <2>1, <2>2
<1>2. TypeOK /\ OneTransaction /\ [Next]_vars => (TypeOK /\ OneTransaction)'
  <2>1. ASSUME TypeOK, OneTransaction, Next PROVE TypeOK' /\ OneTransaction'
    BY <2>1, TypeStep, CoreStep
  <2>2. ASSUME TypeOK, OneTransaction, UNCHANGED vars PROVE TypeOK' /\ OneTransaction'
    BY <2>2 DEF vars, regs, ports, TypeOK, OneTransaction,
                mst_req_vld, mst_rsp_fire, mst_rsp_vld
  <2> QED BY <2>1, <2>2
<1> QED BY <1>1, <1>2, PTL DEF Spec

\* Every register, port and bookkeeping variable keeps its type.
THEOREM TypeCorrect == Spec => []TypeOK
BY Invariance, PTL

\* No slave is ever driven by two masters, nor with a request for another.
THEOREM SeparationHolds == Spec => []RequestsSeparate
BY Invariance, CoreImpliesSeparate, PTL

\* No slave is offered a request while it still owes an answer.
THEOREM NoOverrunHolds == Spec => []NoOverrun
BY Invariance, CoreImpliesNoOverrun, PTL

\* Every response reaches the master whose request it answers.
THEOREM RoutingHolds == Spec => []ResponsesRouted
BY Invariance, CoreImpliesRouted, PTL

=============================================================================
