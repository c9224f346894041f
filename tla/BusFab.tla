------------------------------- MODULE BusFab -------------------------------
(***************************************************************************)
(* The crossbar of src/design/bus/uv_bus_fab.v.  Masters send requests to  *)
(* slaves over valid/ready channels; each slave has a round-robin arbiter; *)
(* a granted master and its slave stay locked to each other until the      *)
(* slave's response has been taken; a request that matches no slave is     *)
(* answered by the fabric itself with an access fault.                     *)
(*                                                                         *)
(* A state is a settled clock cycle: the registers, and the values the     *)
(* masters and slaves drive in that cycle.  The operators named after      *)
(* wires are the combinational logic over such a state.  A step is a clock *)
(* edge: the registers take their next values and the surroundings choose  *)
(* what they drive in the new cycle.  An address is abstracted to the      *)
(* slave whose base address it matches, to Unmapped, or to None when the   *)
(* master drives no request (mst_req_vld low).                             *)
(***************************************************************************)
EXTENDS Integers

CONSTANTS MST_PORT_NUM,  \* number of masters
          Slaves,        \* the slave ports
          Present,       \* slave ports with their slv_dev_vld bit set
          Unmapped,      \* an address no slave port matches
          None           \* no request / nothing awaited

Masters == 0 .. (MST_PORT_NUM - 1)

ASSUME FabAssumption == /\ MST_PORT_NUM \in Nat \ {0}
                        /\ Present \subseteq Slaves
                        /\ Unmapped \notin Slaves /\ None \notin Slaves
                        /\ Unmapped # None

VARIABLES
    mst_arb_grant_r, \* register: the slaves each master is locked to
    mst_acc_fault_r, \* register: masters with an access fault to report
    prio_r,          \* register of each slave's arbiter: line with priority
    mst_req,         \* driven by the masters: where the request goes, or None
    mst_rsp_rdy,     \* driven by the masters: those taking a response now
    slv_req_rdy,     \* driven by the slaves: those taking a request now
    slv_rsp_vld,     \* driven by the slaves: those giving a response now
    serving,         \* the masters whose request a slave has taken, unanswered
    awaited          \* the target whose answer a master waits for, or None

regs  == <<mst_arb_grant_r, mst_acc_fault_r, prio_r>>
ports == <<mst_req, mst_rsp_rdy, slv_req_rdy, slv_rsp_vld>>
vars  == <<regs, ports, serving, awaited>>

Arb == INSTANCE RoundRobin WITH WIDTH <- MST_PORT_NUM

-----------------------------------------------------------------------------
(* Combinational logic.                                                    *)

mst_req_vld(m) == mst_req[m] # None

\* Set mst_rsp_vld, slv_rsp_rdy and the response handshakes.
mst_rsp_vld(m) == m \in mst_acc_fault_r \/ mst_arb_grant_r[m] \cap slv_rsp_vld # {}
mst_rsp_fire(m) == mst_rsp_vld(m) /\ m \in mst_rsp_rdy
slv_rsp_rdy(s) == \E m \in Masters : s \in mst_arb_grant_r[m] /\ m \in mst_rsp_rdy
slv_rsp_fire(s) == s \in slv_rsp_vld /\ slv_rsp_rdy(s)

\* Detect access fault.
mst_acc_fault(m) == mst_req_vld(m) /\ mst_req[m] \notin Slaves

\* Transpose grant buffer for slaves.
slv_arb_grant_r(s) == {m \in Masters : s \in mst_arb_grant_r[m]}

\* Set arbiter requests: a slave is arbitrated when it is free, or when a
\* master locked to it takes a response in this cycle.
slv_arb_req_IgnoresLock(s) == {m \in Masters : s \in Present /\ mst_req[m] = s}
slv_arb_req(s) ==
    {m \in Masters :
        /\ s \in Present
        /\ mst_req[m] = s
        /\ \/ slv_arb_grant_r(s) = {}
           \/ \E k \in slv_arb_grant_r(s) : mst_rsp_fire(k)}

\* The arbiters: with a single master the request is the grant.
slv_arb_grant(s) == Arb!Grant(prio_r[s], slv_arb_req(s))
mst_arb_grant(m) == {s \in Slaves : m \in slv_arb_grant(s)}

\* Lock master-slave pairs: the new grants, and the old ones that are not
\* released by a response in this cycle.
req_lck_to_slv_KeepsReleased(m) == mst_arb_grant(m) \cup mst_arb_grant_r[m]
req_lck_to_slv(m) ==
    mst_arb_grant(m) \cup {s \in mst_arb_grant_r[m] : ~slv_rsp_fire(s)}

\* Set slv_req_vld.  A slave's address, mask and data are the OR over all
\* the masters locked to it, so the model keeps who drives the slave.
drivers(s) == {m \in Masters : s \in req_lck_to_slv(m)}
slv_req_vld(s) == \E m \in drivers(s) : mst_req_vld(m)
slv_req_fire(s) == slv_req_vld(s) /\ s \in slv_req_rdy

\* Master back pressure.
mst_req_rdy(m) == mst_acc_fault(m) \/ req_lck_to_slv(m) \cap slv_req_rdy # {}
mst_req_fire(m) == mst_req_vld(m) /\ mst_req_rdy(m)

-----------------------------------------------------------------------------
(* Registers.                                                              *)

\* Buffer the access fault until the master has taken it.
UpdateFault_Pulse == mst_acc_fault_r' = {m \in Masters : mst_acc_fault(m)}
UpdateFault ==
    mst_acc_fault_r' = {m \in Masters : \/ mst_acc_fault(m)
                                        \/ m \in mst_acc_fault_r /\ ~mst_rsp_fire(m)}

\* Buffer grant status for masters.
UpdateGrant_NeverReleased ==
    mst_arb_grant_r' = [m \in Masters |->
        IF mst_arb_grant(m) # {} THEN mst_arb_grant(m) ELSE mst_arb_grant_r[m]]
UpdateGrant ==
    mst_arb_grant_r' = [m \in Masters |->
        IF mst_arb_grant(m) # {} THEN mst_arb_grant(m)
        ELSE IF \E s \in mst_arb_grant_r[m] : slv_rsp_fire(s) THEN {}
        ELSE mst_arb_grant_r[m]]

UpdatePrio ==
    prio_r' = [s \in Slaves |-> Arb!NextPrio(prio_r[s], slv_arb_req(s))]

-----------------------------------------------------------------------------
(* The surroundings.                                                       *)

\* Bookkeeping: whose request a slave works on, what a master waits for.
Track ==
    /\ serving' = [s \in Slaves |->
           IF slv_req_fire(s) THEN {m \in drivers(s) : mst_req_vld(m)}
           ELSE IF slv_rsp_fire(s) THEN {} ELSE serving[s]]
    /\ awaited' = [m \in Masters |->
           IF mst_req_fire(m) THEN mst_req[m]
           ELSE IF mst_rsp_fire(m) THEN None ELSE awaited[m]]

\* A master keeps a request up until it is taken, and has at most one
\* request unanswered: it may drive the next one in the cycle in which it
\* takes the answer (the load/store unit and the fetch unit do, since
\* every slave answers one cycle after it takes a request).  Left out here is
\* a flush, which makes the load/store unit take a request back (module Dam).
BlockingMaster(m) ==
    /\ mst_req_vld(m) /\ ~mst_req_fire(m) => mst_req'[m] = mst_req[m]
    /\ mst_req'[m] # None => awaited'[m] = None \/ mst_rsp_fire(m)'

\* A slave answers only what it has taken, and keeps the answer up until
\* it is taken; it may insert any number of wait cycles on both channels.
Slave(s) ==
    /\ s \in slv_rsp_vld' => serving'[s] # {}
    /\ s \in slv_rsp_vld /\ ~slv_rsp_fire(s) => s \in slv_rsp_vld'

Drive == /\ mst_req' \in [Masters -> Slaves \cup {Unmapped, None}]
         /\ mst_rsp_rdy' \in SUBSET Masters
         /\ slv_req_rdy' \in SUBSET Slaves
         /\ slv_rsp_vld' \in SUBSET Slaves
         /\ \A m \in Masters : BlockingMaster(m)
         /\ \A s \in Slaves : Slave(s)

-----------------------------------------------------------------------------
\* Out of reset nothing is granted, pending, asked or answered.
Init == /\ mst_arb_grant_r = [m \in Masters |-> {}]
        /\ mst_acc_fault_r = {}
        /\ prio_r = [s \in Slaves |-> 0]
        /\ mst_req = [m \in Masters |-> None]
        /\ mst_rsp_rdy \in SUBSET Masters
        /\ slv_req_rdy \in SUBSET Slaves
        /\ slv_rsp_vld = {}
        /\ serving = [s \in Slaves |-> {}]
        /\ awaited = [m \in Masters |-> None]

Clock == UpdateFault /\ UpdateGrant /\ UpdatePrio /\ Track /\ Drive

Next == Clock

Spec == Init /\ [][Next]_vars

-----------------------------------------------------------------------------
(* Properties.                                                             *)

\* Locks, faults and ports hold masters and slaves, and every arbiter gives
\* priority to an existing master.
TypeOK == /\ mst_arb_grant_r \in [Masters -> SUBSET Slaves]
          /\ mst_acc_fault_r \in SUBSET Masters
          /\ prio_r \in [Slaves -> Masters]
          /\ mst_req \in [Masters -> Slaves \cup {Unmapped, None}]
          /\ mst_rsp_rdy \in SUBSET Masters
          /\ slv_req_rdy \in SUBSET Slaves
          /\ slv_rsp_vld \in SUBSET Slaves
          /\ serving \in [Slaves -> SUBSET Masters]
          /\ awaited \in [Masters -> Slaves \cup {Unmapped, None}]

\* A slave is never driven by two masters at once (their addresses and data
\* would be ORed together), and what it is asked is meant for it.
RequestsSeparate ==
    \A s \in Slaves :
        slv_req_vld(s) => \E m \in Masters : drivers(s) = {m} /\ mst_req[m] = s

\* A slave with an unanswered request is offered the next one only in the
\* cycle in which its answer is taken: the lock protects the slaves, which
\* can hold a single request.
NoOverrun ==
    \A s \in Slaves : slv_req_vld(s) /\ serving[s] # {} => slv_rsp_fire(s)

\* Every response reaches the master that sent the request, and a master
\* sees a response only from the one target it waits for.
ResponsesRouted ==
    /\ \A s \in slv_rsp_vld : \E m \in Masters :
           serving[s] = {m} /\ awaited[m] = s /\ slv_arb_grant_r(s) = {m}
    /\ \A m \in Masters : mst_rsp_vld(m) =>
           IF m \in mst_acc_fault_r
           THEN awaited[m] = Unmapped /\ mst_arb_grant_r[m] \cap slv_rsp_vld = {}
           ELSE mst_arb_grant_r[m] \cap slv_rsp_vld = {awaited[m]}

\* The inductive core of the three invariants above: a lock, the request the
\* locked slave works on and the answer the locked master waits for are the
\* same transaction, before and after the slave has taken it.
OneTransaction ==
    /\ \A m, k \in Masters : \A s \in mst_arb_grant_r[m] :
           /\ \A t \in mst_arb_grant_r[m] : t = s
           /\ s \in mst_arb_grant_r[k] => k = m
           /\ serving[s] = {m} \/ (serving[s] = {} /\ mst_req[m] = s)
    /\ \A s \in Slaves : \A m \in serving[s] : s \in mst_arb_grant_r[m] /\ awaited[m] = s
    /\ \A m \in Masters : awaited[m] \in Slaves => m \in serving[awaited[m]]
    /\ \A m \in Masters : m \in mst_acc_fault_r <=> awaited[m] = Unmapped
    /\ \A m \in Masters : m \in mst_acc_fault_r => mst_arb_grant_r[m] = {}
    /\ \A s \in slv_rsp_vld : serving[s] # {}
    /\ \A m \in Masters : mst_req_vld(m) => awaited[m] = None \/ mst_rsp_fire(m)

\* No master is starved: a request to a present slave or to an unmapped
\* address is eventually taken, whatever the other masters ask for.
RequestsServed ==
    \A m \in Masters : (mst_req[m] \in Present \cup {Unmapped}) ~> mst_req_fire(m)

\* Every request that was taken is eventually answered.
RequestsAnswered ==
    \A m \in Masters : (awaited[m] # None) ~> mst_rsp_fire(m)

=============================================================================
