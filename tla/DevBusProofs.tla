---------------------------- MODULE DevBusProofs ----------------------------
(***************************************************************************)
(* Proofs about modules BusToApb and DevBus, for every set of requests and *)
(* words, any number of masters and any set of slave ports.  First the     *)
(* bridge alone, against any client that keeps the contract of SlavePort:  *)
(* the peripheral sees each request exactly once, and the bridge is a      *)
(* slave as the fabric expects it.  Then fabric and bridge wired together: *)
(* each is the surroundings the other one was proved with, so that every   *)
(* property of either holds of the two with nothing assumed about the      *)
(* channel between them.                                                   *)
(***************************************************************************)
EXTENDS DevBus, BusFabProofs, TLAPS

ApbInv == ApbTypeOK /\ Phases

\* The registers and inputs stay in their types over a clock edge.
LEMMA ApbTypeStep == ASSUME ApbInv, ApbNext PROVE ApbTypeOK'
<1> USE ApbAssumption DEF ApbInv, ApbNext, ApbClock
<1>1. bus_req' \in Reqs \cup {Nil} /\ bus_rsp_rdy' \in BOOLEAN /\ apb' \in ApbInputs
  BY DEF ApbDrive
<1>2. req_r' \in Reqs \cup {Nil} /\ owed' \in Reqs \cup {Nil}
  BY DEF UpdateReq, ApbTrack, ApbTypeOK
<1>3. /\ apb_r' \in Reqs \cup {Nil} /\ apb_penable_r' \in BOOLEAN
      /\ apb_penable_r' => apb_r' # Nil
  BY DEF UpdateApb, ApbTypeOK, req_vld_r, apb_okay
<1>4. req_rdy_r' \in BOOLEAN
  BY DEF UpdateReady, ApbTypeOK
<1>5. rsp_vld_r' \in BOOLEAN /\ rsp_excp_r' \in BOOLEAN /\ rsp_data_r' \in Data
  BY DEF UpdateRsp, ApbTypeOK, ApbInputs
<1> QED BY <1>1, <1>2, <1>3, <1>4, <1>5 DEF ApbTypeOK

\* A request is taken in the setup cycle and in no other.
LEMMA FireIsSetup == ASSUME ApbInv PROVE AccessedOnce
BY ApbAssumption DEF ApbInv, ApbTypeOK, Phases, AccessedOnce, apb_setup, apb_psel, req_vld_r,
                     bus_req_fire, bus_req_rdy, apb_request

\* What the registers do at a clock edge, whatever is driven next.
ApbEdge == UpdateReady /\ UpdateRsp /\ UpdateReq /\ UpdateApb /\ ApbTrack

\* A clock edge keeps the registers' part of the phases in order.
LEMMA EdgePhases ==
    ASSUME ApbInv, ApbEdge
    PROVE  /\ ~apb_penable_r' => req_rdy_r'
           /\ apb_penable_r' => /\ apb_r' = owed' /\ ~req_rdy_r' /\ ~rsp_vld_r'
                                /\ req_r' \in {owed', Nil}
           /\ rsp_vld_r' => req_r' = Nil
           /\ owed' # Nil <=> apb_penable_r' \/ rsp_vld_r'
<1> USE ApbAssumption DEF ApbInv, ApbEdge
<1>1. AccessedOnce
  BY FireIsSetup
<1>2. /\ req_r' = bus_req
      /\ owed' = IF bus_req_fire THEN bus_req ELSE IF bus_rsp_fire THEN Nil ELSE owed
  BY DEF UpdateReq, ApbTrack
<1>3. CASE apb_setup
  BY <1>1, <1>2, <1>3 DEF UpdateReady, UpdateRsp, UpdateApb, Phases, AccessedOnce, ApbTypeOK,
       apb_setup, apb_psel, req_vld_r, apb_okay, bus_rsp_fire, bus_rsp_vld, bus_req_fire, bus_req_rdy
<1>4. CASE apb_penable_r
  BY <1>1, <1>2, <1>4 DEF UpdateReady, UpdateRsp, UpdateApb, Phases, AccessedOnce, ApbTypeOK,
       apb_setup, apb_psel, req_vld_r, apb_okay, bus_rsp_fire, bus_rsp_vld, bus_req_fire, bus_req_rdy
<1>5. CASE ~apb_psel
  BY <1>1, <1>2, <1>5 DEF UpdateReady, UpdateRsp, UpdateApb, Phases, AccessedOnce, ApbTypeOK,
       apb_setup, apb_psel, req_vld_r, apb_okay, bus_rsp_fire, bus_rsp_vld, bus_req_fire, bus_req_rdy
<1> QED BY <1>3, <1>4, <1>5 DEF apb_setup

\* Every clock edge keeps the phases of a transaction in order.
LEMMA PhaseStep == ASSUME ApbInv, ApbNext PROVE Phases'
<1> USE ApbAssumption DEF ApbInv
<1>0. ApbEdge /\ ApbDrive
  BY DEF ApbNext, ApbClock, ApbEdge
<1>1. AccessedOnce
  BY FireIsSetup
<1>2. /\ req_r' = bus_req
      /\ owed' = IF bus_req_fire THEN bus_req ELSE IF bus_rsp_fire THEN Nil ELSE owed
      /\ bus_req # Nil /\ ~bus_req_fire => bus_req' = bus_req
      /\ bus_req' # Nil => owed' = Nil \/ bus_rsp_fire'
  BY <1>0 DEF ApbEdge, UpdateReq, ApbTrack, ApbDrive
<1>3. apb_setup' => req_r' = bus_req' /\ owed' = Nil
  <2>1. SUFFICES ASSUME apb_setup' PROVE bus_req' = bus_req /\ owed' = Nil
    BY <1>2
  <2>2. ~apb_penable_r' /\ bus_req # Nil /\ ~rsp_vld_r'
    BY <1>0, <1>2, <2>1, EdgePhases DEF apb_setup, apb_psel, req_vld_r
  <2>3. ~bus_req_fire
    BY <1>0, <1>2, <2>2, EdgePhases
  <2> QED BY <1>0, <1>2, <2>2, <2>3, EdgePhases
<1> QED BY <1>0, <1>2, <1>3, EdgePhases DEF Phases

\* The types and the phases hold in every reachable cycle.
THEOREM ApbInvariance == ApbSpec => []ApbInv
<1>1. ApbInit => ApbInv
  BY ApbAssumption DEF ApbInit, ApbInv, ApbTypeOK, Phases, ApbInputs, apb_setup, apb_psel, req_vld_r
<1>2. ApbInv /\ [ApbNext]_apbvars => ApbInv'
  <2>1. ASSUME ApbInv, ApbNext PROVE ApbInv'
    BY <2>1, ApbTypeStep, PhaseStep DEF ApbInv
  <2>2. ASSUME ApbInv, UNCHANGED apbvars PROVE ApbInv'
    BY <2>2 DEF apbvars, apb_regs, ApbInv, ApbTypeOK, Phases, apb_setup, apb_psel, req_vld_r, apb_okay,
                bus_rsp_fire, bus_rsp_vld
  <2> QED BY <2>1, <2>2
<1> QED BY <1>1, <1>2, PTL DEF ApbSpec

\* Every register and input of the bridge keeps its type.
THEOREM ApbTypeCorrect == ApbSpec => []ApbTypeOK
BY ApbInvariance, PTL DEF ApbInv

\* The peripheral carries out exactly the requests the bridge takes.
THEOREM ApbAccessedOnce == ApbSpec => []AccessedOnce
BY ApbInvariance, FireIsSetup, PTL

-----------------------------------------------------------------------------
\* A response that is not taken is still there, unchanged, a cycle later.
LEMMA ResponseKept ==
    ASSUME ApbInv, ApbInv', ApbNext, bus_rsp # Nil, ~bus_rsp_fire
    PROVE  bus_rsp' = bus_rsp
<1> USE ApbAssumption DEF ApbInv, ApbNext, ApbClock
<1>1. bus_rsp_vld /\ ~bus_rsp_rdy
  BY DEF bus_rsp, bus_rsp_fire
<1>2. rsp_vld_r'
  BY <1>1 DEF UpdateRsp, bus_rsp_vld, bus_rsp_fire, ApbTypeOK
<1>3. ~apb_okay'
  BY <1>2 DEF Phases, apb_okay
<1>4. bus_rsp' = [excp |-> rsp_excp_r', data |-> rsp_data_r']
  BY <1>2, <1>3 DEF bus_rsp, bus_rsp_vld
<1>5. CASE apb_okay
  BY <1>1, <1>4, <1>5 DEF UpdateRsp, bus_rsp
<1>6. CASE ~apb_okay
  BY <1>1, <1>4, <1>6 DEF UpdateRsp, bus_rsp, bus_rsp_fire
<1> QED BY <1>5, <1>6

\* The bridge is a slave as the fabric expects it.
THEOREM BridgeImplementsPort == ApbSpec => ImplementsSlavePort
<1> USE ApbAssumption
<1>a. ASSUME ApbTypeOK PROVE bus_rsp \in Rsps \cup {Nil} /\ (bus_rsp # Nil <=> bus_rsp_vld)
  BY <1>a DEF ApbTypeOK, ApbInputs, bus_rsp, Rsps
<1>f. ASSUME ApbTypeOK PROVE (Port!req_fire <=> bus_req_fire) /\ (Port!rsp_fire <=> bus_rsp_fire)
  BY <1>a, <1>f DEF Port!req_fire, Port!rsp_fire, bus_req_fire, bus_rsp_fire
<1>1. ApbInit => Port!Init
  <2> SUFFICES ASSUME ApbInit PROVE Port!Init
    OBVIOUS
  <2>1. bus_req_rdy \in BOOLEAN
    BY DEF ApbInit, bus_req_rdy, req_vld_r
  <2>2. bus_rsp = Nil
    BY DEF ApbInit, bus_rsp, bus_rsp_vld, apb_okay
  <2> QED BY <2>1, <2>2 DEF ApbInit, Port!Init
<1>2. ApbInv /\ ApbInv' /\ [ApbNext]_apbvars => [Port!Next]_(Port!vars)
  <2>1. ASSUME ApbInv, ApbInv', ApbNext PROVE Port!Next
    <3>1. owed' = IF Port!req_fire THEN bus_req ELSE IF Port!rsp_fire THEN Nil ELSE owed
      BY <1>f, <2>1 DEF ApbInv, ApbNext, ApbClock, ApbTrack
    <3>2. Port!Client
      <4>1. Port!rsp_fire' <=> bus_rsp_fire'
        BY <1>f, <2>1, PTL DEF ApbInv
      <4> QED BY <1>f, <2>1, <4>1 DEF ApbInv, ApbNext, ApbClock, ApbDrive, Port!Client
    <3>3. Port!Slave
      <4>1. bus_req_rdy' \in BOOLEAN
        BY <2>1 DEF ApbInv, ApbTypeOK, bus_req_rdy, req_vld_r
      <4>2. bus_rsp' \in Rsps \cup {Nil} /\ (bus_rsp' # Nil => owed' # Nil)
        <5>1. bus_rsp' \in Rsps \cup {Nil} /\ (bus_rsp' # Nil <=> bus_rsp_vld')
          BY <2>1 DEF ApbInv, ApbTypeOK, ApbInputs, bus_rsp, Rsps
        <5>2. bus_rsp_vld' => owed' # Nil
          BY <2>1 DEF ApbInv, Phases, bus_rsp_vld, apb_okay
        <5> QED BY <5>1, <5>2
      <4>3. bus_rsp # Nil /\ ~Port!rsp_fire => bus_rsp' = bus_rsp
        BY <1>f, <2>1, ResponseKept DEF ApbInv
      <4> QED BY <4>1, <4>2, <4>3 DEF Port!Slave
    <3> QED BY <3>1, <3>2, <3>3 DEF Port!Next
  <2>2. ASSUME UNCHANGED apbvars PROVE UNCHANGED Port!vars
    BY <2>2 DEF apbvars, apb_regs, Port!vars, bus_req_rdy, bus_rsp, bus_rsp_vld, apb_okay, req_vld_r
  <2> QED BY <2>1, <2>2
<1> QED BY <1>1, <1>2, ApbInvariance, PTL DEF ApbSpec, ImplementsSlavePort, Port!Spec
-----------------------------------------------------------------------------
(* Fabric and bridge together.                                             *)

\* The transaction the fabric sees at the bridge's port is the bridge's own.
Linked == serving[Bridge] = IF owed = Nil THEN {} ELSE {owed}

FabInv == TypeOK /\ OneTransaction
DevInv == FabInv /\ ApbInv /\ RspWires /\ ReqWires /\ Linked

\* What the fabric puts on the bridge's request channel is the one master
\* that asks for the bridge.
LEMMA PeripReq ==
    ASSUME FabInv
    PROVE  /\ perip_req # Nil <=> slv_req_vld(Bridge)
           /\ slv_req_vld(Bridge) => /\ perip_req \in Masters /\ drivers(Bridge) = {perip_req}
                                     /\ mst_req[perip_req] = Bridge /\ mst_req_vld(perip_req)
<1> USE FabAssumption, ApbAssumption, DevAssumption
<1>1. CASE ~slv_req_vld(Bridge)
  BY <1>1 DEF perip_req
<1>2. CASE slv_req_vld(Bridge)
  <2>1. PICK m \in Masters : drivers(Bridge) = {m} /\ mst_req[m] = Bridge
    BY <1>2, CoreImpliesSeparate DEF FabInv, RequestsSeparate
  <2>2. mst_req_vld(m)
    BY <2>1 DEF mst_req_vld
  <2>3. perip_req = m
    BY <1>2, <2>1, <2>2 DEF perip_req
  <2> QED BY <1>2, <2>1, <2>2, <2>3
<1> QED BY <1>1, <1>2

\* A handshake on the channel is the same event for both sides.
LEMMA SameFires ==
    ASSUME FabInv, RspWires, ReqWires
    PROVE  /\ slv_req_fire(Bridge) <=> bus_req_fire
           /\ slv_rsp_fire(Bridge) <=> bus_rsp_fire
BY PeripReq DEF RspWires, ReqWires, slv_req_fire, bus_req_fire, slv_rsp_fire, bus_rsp_fire

\* The clock edge of a step of the composition, for each of the two.
LEMMA DevEdges ==
    ASSUME DevNext
    PROVE  ApbEdge /\ UpdateFault /\ UpdateGrant /\ UpdatePrio /\ Track /\ RspWires' /\ ReqWires'
BY DEF DevNext, ApbEdge

\* Both sides keep the same account of what is unanswered.
LEMMA LinkedStep == ASSUME DevInv, DevNext PROVE Linked'
<1> USE FabAssumption, ApbAssumption, DevAssumption
<1>1. serving'[Bridge] = IF slv_req_fire(Bridge) THEN {m \in drivers(Bridge) : mst_req_vld(m)}
                         ELSE IF slv_rsp_fire(Bridge) THEN {} ELSE serving[Bridge]
  BY DevEdges DEF Track
<1>2. owed' = IF bus_req_fire THEN bus_req ELSE IF bus_rsp_fire THEN Nil ELSE owed
  BY DevEdges DEF ApbEdge, ApbTrack
<1>3. slv_req_fire(Bridge) => bus_req # Nil /\ {m \in drivers(Bridge) : mst_req_vld(m)} = {bus_req}
  BY PeripReq DEF DevInv, ReqWires, slv_req_fire
<1> QED BY <1>1, <1>2, <1>3, SameFires DEF DevInv, Linked

\* The bridge keeps the fabric's contract of a slave.
LEMMA BridgeIsSlave == ASSUME DevInv, DevNext PROVE Slave(Bridge)
<1> USE FabAssumption, ApbAssumption, DevAssumption
<1>1. Linked' /\ RspWires'
  BY LinkedStep, DevEdges
<1>2. bus_rsp_vld' => owed' # Nil
  BY DevEdges, EdgePhases DEF DevInv, bus_rsp_vld, apb_okay
<1>3. Bridge \in slv_rsp_vld' => serving'[Bridge] # {}
  BY <1>1, <1>2 DEF Linked, RspWires
<1>4. ASSUME Bridge \in slv_rsp_vld, ~slv_rsp_fire(Bridge) PROVE Bridge \in slv_rsp_vld'
  <2>1. bus_rsp_vld /\ ~bus_rsp_rdy
    BY <1>4, SameFires DEF DevInv, RspWires, bus_rsp_fire
  <2>2. UpdateRsp
    BY DevEdges DEF ApbEdge
  <2>3. rsp_vld_r'
    BY <2>1, <2>2 DEF DevInv, ApbInv, ApbTypeOK, UpdateRsp, bus_rsp_vld, bus_rsp_fire
  <2> QED BY <1>1, <2>3 DEF RspWires, bus_rsp_vld
<1> QED BY <1>3, <1>4 DEF Slave

\* A step of the composition is a step of the fabric.
LEMMA FabricStep == ASSUME DevInv, DevNext PROVE Next /\ FabInv'
<1>1. \A s \in Slaves : Slave(s)
  BY BridgeIsSlave DEF DevNext, Others
<1>2. Next
  BY <1>1, DevEdges DEF DevNext, Next, Clock, Drive
<1> QED BY <1>2, TypeStep, CoreStep DEF DevInv, FabInv

\* What the invariant of the fabric says of the channel in a cycle, and so
\* in the next one.
Channel ==
    /\ RequestsSeparate /\ NoOverrun
    /\ bus_req # Nil <=> slv_req_vld(Bridge)
    /\ slv_req_vld(Bridge) => bus_req \in Masters /\ drivers(Bridge) = {bus_req}
    /\ slv_rsp_fire(Bridge) <=> bus_rsp_fire

LEMMA NextChannel == FabInv' /\ RspWires' /\ ReqWires' => Channel'
<1>1. FabInv /\ RspWires /\ ReqWires => Channel
  BY CoreImpliesSeparate, CoreImpliesNoOverrun, PeripReq, SameFires DEF FabInv, ReqWires, Channel
<1> QED BY <1>1, PTL

\* A request the bridge does not take is offered again: the lock is kept,
\* because the bridge then owes nothing whose answer could release it.
LEMMA RequestKept ==
    ASSUME DevInv, DevNext, bus_req # Nil, ~bus_req_fire
    PROVE  bus_req' = bus_req
<1> USE FabAssumption, ApbAssumption, DevAssumption
<1>1. PICK m \in Masters : /\ m = bus_req /\ mst_req[m] = Bridge
                           /\ drivers(Bridge) = {m} /\ slv_req_vld(Bridge)
  BY PeripReq DEF DevInv, ReqWires
<1>2. Bridge \in req_lck_to_slv(m) /\ mst_req_vld(m)
  BY <1>1 DEF drivers, mst_req_vld
<1>3. ~slv_req_fire(Bridge)
  BY SameFires DEF DevInv
<1>4. mst_req'[m] = Bridge
  <2>1. ~mst_req_fire(m)
    BY <1>1, <1>3, ReqFacts DEF DevInv, FabInv
  <2> QED BY <1>1, <1>2, <2>1 DEF DevNext, BlockingMaster
<1>5. Bridge \in mst_arb_grant_r'[m]
  BY <1>1, <1>2, DevEdges, NewGrant DEF DevInv, FabInv
<1>6. serving'[Bridge] = {}
  <2>1. serving[Bridge] = {} \/ slv_rsp_fire(Bridge)
    BY <1>1, CoreImpliesNoOverrun DEF DevInv, FabInv, NoOverrun
  <2> QED BY <1>3, <2>1, DevEdges DEF Track
<1>7. ~slv_rsp_fire(Bridge)'
  BY <1>6, FabricStep DEF FabInv, OneTransaction, slv_rsp_fire
<1>8. m \in drivers(Bridge)' /\ mst_req_vld(m)'
  <2>1. Bridge \in req_lck_to_slv(m)'
    BY <1>5, <1>7 DEF req_lck_to_slv
  <2>2. mst_req'[m] # None
    BY <1>4
  <2> QED BY <1>1, <2>1, <2>2 DEF drivers, mst_req_vld
<1>9. slv_req_vld(Bridge)'
  BY <1>8 DEF slv_req_vld
<1>10. drivers(Bridge)' = {bus_req'}
  BY <1>9, FabricStep, DevEdges, NextChannel DEF Channel
<1> QED BY <1>1, <1>8, <1>10

\* A step of the composition is a step of the bridge: the fabric keeps the
\* contract of a client.
LEMMA BridgeStep == ASSUME DevInv, DevNext PROVE ApbNext /\ ApbInv'
<1> USE FabAssumption, ApbAssumption, DevAssumption
<1>1. Channel' /\ Linked' /\ ReqWires'
  BY FabricStep, LinkedStep, DevEdges, NextChannel
<1>2. bus_req' \in Reqs \cup {Nil}
  BY <1>1 DEF Channel
<1>3. bus_rsp_rdy' \in BOOLEAN
  BY <1>1 DEF ReqWires, slv_rsp_rdy
<1>4. apb' \in ApbInputs
  <2>1. Idle \in ApbInputs
    BY DEF DevInv, ApbInv, ApbTypeOK, Idle, ApbInputs
  <2> QED BY <2>1 DEF DevNext
<1>5. bus_req' # Nil => owed' = Nil \/ bus_rsp_fire'
  <2>1. SUFFICES ASSUME bus_req' # Nil, owed' # Nil PROVE bus_rsp_fire'
    OBVIOUS
  <2>2. slv_req_vld(Bridge)' /\ serving'[Bridge] # {}
    BY <1>1, <2>1 DEF Channel, Linked
  <2>3. slv_rsp_fire(Bridge)'
    BY <1>1, <2>2 DEF Channel, NoOverrun
  <2> QED BY <1>1, <2>3 DEF Channel
<1>6. ApbDrive
  BY <1>2, <1>3, <1>4, <1>5, RequestKept DEF ApbDrive
<1>7. ApbNext
  BY <1>6, DevEdges DEF ApbNext, ApbClock, ApbEdge
<1> QED BY <1>7, ApbTypeStep, PhaseStep DEF DevInv, ApbInv

LEMMA DevInitial == DevInit => DevInv
<1> SUFFICES ASSUME DevInit PROVE DevInv
  OBVIOUS
<1> USE FabAssumption, ApbAssumption, DevAssumption
<1>1. FabInv
  <2>1. TypeOK
    BY DEF DevInit, Init, TypeOK, Masters
  <2>2. OneTransaction
    BY DEF DevInit, Init, OneTransaction, mst_req_vld
  <2> QED BY <2>1, <2>2 DEF FabInv
<1>2. ApbInv
  BY DEF DevInit, ApbInit, ApbInv, ApbTypeOK, Phases, ApbInputs, apb_setup, apb_psel, req_vld_r
<1>3. Linked
  BY DEF DevInit, Init, ApbInit, Linked
<1> QED BY <1>1, <1>2, <1>3 DEF DevInit, DevInv

LEMMA DevStutter == ASSUME DevInv, UNCHANGED devvars PROVE DevInv'
<1>1. UNCHANGED vars /\ UNCHANGED apbvars
  BY DEF devvars
<1>2. FabInv'
  BY <1>1 DEF DevInv, FabInv, vars, regs, ports, TypeOK, OneTransaction,
              mst_req_vld, mst_rsp_fire, mst_rsp_vld
<1>3. ApbInv'
  BY <1>1 DEF DevInv, ApbInv, apbvars, apb_regs, ApbTypeOK, Phases, apb_setup, apb_psel,
              req_vld_r, apb_okay, bus_rsp_fire, bus_rsp_vld
<1>4. RspWires' /\ Linked'
  BY <1>1 DEF DevInv, vars, ports, apbvars, apb_regs, RspWires, Linked, bus_rsp_vld, apb_okay
<1>5. ReqWires'
  BY <1>1 DEF DevInv, vars, regs, ports, apbvars, apb_regs, ReqWires, bus_req_rdy, req_vld_r,
              perip_req, slv_req_vld, drivers, req_lck_to_slv, mst_arb_grant, slv_arb_grant,
              slv_arb_req, slv_arb_grant_r, mst_rsp_fire, mst_rsp_vld, slv_rsp_fire, slv_rsp_rdy,
              mst_req_vld
<1> QED BY <1>2, <1>3, <1>4, <1>5 DEF DevInv

\* The invariants of fabric and bridge, and the wires between them, hold in
\* every reachable cycle of the composition.
THEOREM DevInvariance == DevSpec => []DevInv
<1>1. DevInv /\ [DevNext]_devvars => DevInv'
  <2>1. ASSUME DevInv, DevNext PROVE DevInv'
    BY <2>1, FabricStep, BridgeStep, LinkedStep, DevEdges DEF DevInv
  <2> QED BY <2>1, DevStutter
<1> QED BY <1>1, DevInitial, PTL DEF DevSpec

\* Fabric, bridge and masters together are a behaviour of the fabric alone:
\* the bridge does all that module BusFab assumes of a slave.
THEOREM DevImplementsFabric == DevSpec => ImplementsFabric
<1>1. DevInit => Init
  BY DEF DevInit
<1>2. DevInv /\ [DevNext]_devvars => [Next]_vars
  BY FabricStep DEF devvars
<1> QED BY <1>1, <1>2, DevInvariance, PTL DEF DevSpec, Spec, ImplementsFabric

\* They are also a behaviour of the bridge alone: the fabric does all that
\* module BusToApb assumes of its client.
THEOREM DevImplementsBridge == DevSpec => ApbSpec
<1>1. DevInit => ApbInit
  BY DEF DevInit
<1>2. DevInv /\ [DevNext]_devvars => [ApbNext]_apbvars
  BY BridgeStep DEF devvars
<1> QED BY <1>1, <1>2, DevInvariance, PTL DEF DevSpec, ApbSpec

\* Behind the fabric, the peripheral carries out exactly the requests the
\* bridge takes, each once.
THEOREM AccessedOnceHolds == DevSpec => []AccessedOnce
BY DevImplementsBridge, ApbAccessedOnce, PTL

\* Behind the fabric, the bridge keeps the contract of a slave port, answers
\* and their data included, and the fabric that of its client.
THEOREM DevImplementsPort == DevSpec => ImplementsSlavePort
BY DevImplementsBridge, BridgeImplementsPort, PTL

\* No slave of the subsystem, the bridge included, is driven by two masters,
\* and every response reaches the master whose request it answers.
THEOREM DevSafety == DevSpec => [](RequestsSeparate /\ NoOverrun /\ ResponsesRouted)
BY DevImplementsFabric, SeparationHolds, NoOverrunHolds, RoutingHolds, PTL DEF ImplementsFabric

\* The answer of an access goes to the master whose request the peripheral
\* has carried out, and to no other.
THEOREM AnswersAskerHolds == DevSpec => []AnswersAsker
<1>1. DevInv => AnswersAsker
  <2> SUFFICES ASSUME DevInv PROVE AnswersAsker
    OBVIOUS
  <2> USE FabAssumption, ApbAssumption, DevAssumption
  <2>1. ASSUME bus_rsp_vld PROVE owed \in Masters /\ slv_arb_grant_r(Bridge) = {owed}
    <3>1. Bridge \in slv_rsp_vld
      BY <2>1 DEF DevInv, RspWires
    <3>2. PICK m \in Masters : serving[Bridge] = {m} /\ slv_arb_grant_r(Bridge) = {m}
      BY <3>1, CoreImpliesRouted DEF DevInv, FabInv, ResponsesRouted
    <3> QED BY <3>2 DEF DevInv, Linked
  <2>2. ASSUME NEW m \in Masters PROVE awaited[m] = Bridge <=> owed = m
    <3>1. awaited[m] = Bridge <=> m \in serving[Bridge]
      BY DEF DevInv, FabInv, OneTransaction
    <3> QED BY <3>1 DEF DevInv, Linked
  <2> QED BY <2>1, <2>2 DEF AnswersAsker
<1> QED BY <1>1, DevInvariance, PTL

=============================================================================
