------------------------------- MODULE DevBus -------------------------------
(***************************************************************************)
(* The way from the core to a peripheral in src/design/sys/uv_dev_subsys.v *)
(* and uv_perip_subsys.v: the fabric of module BusFab with the bridge of   *)
(* module BusToApb at one of its slave ports.  What this slave drives is   *)
(* what the bridge puts out, and the bridge's request and ready are what   *)
(* the fabric hands on, so that neither is assumed to do what the other    *)
(* one needs.  The other slaves keep the contract of module BusFab.  The   *)
(* fabric between the two subsystems (1x8) has a single master, to which   *)
(* every slave is granted at once, and is left out.                        *)
(*                                                                         *)
(* The request of a master is the master itself: masters must not get each *)
(* other's answers, and what a request asks for makes no difference.       *)
(***************************************************************************)
EXTENDS BusFab, BusToApb

CONSTANT Bridge   \* the slave port of the bridge

ASSUME DevAssumption == Bridge \in Present /\ Masters \subseteq Reqs

devvars == <<vars, apbvars>>
Others  == Slaves \ {Bridge}

\* What the fabric puts on the bridge's request channel.
perip_req ==
    IF slv_req_vld(Bridge) THEN CHOOSE m \in drivers(Bridge) : mst_req_vld(m) ELSE Nil

\* The channels between the two: each side drives what the other one sees.
RspWires == Bridge \in slv_rsp_vld <=> bus_rsp_vld
ReqWires == /\ bus_req = perip_req /\ bus_rsp_rdy = slv_rsp_rdy(Bridge)
            /\ Bridge \in slv_req_rdy <=> bus_req_rdy

\* Outside the access phase nobody looks at what the peripheral drives.
Idle == [pready |-> FALSE, pslverr |-> FALSE, prdata |-> CHOOSE d \in Data : TRUE]

DevInit == Init /\ ApbInit /\ apb = Idle /\ RspWires /\ ReqWires

\* One clock edge of fabric and bridge; masters, peripheral and the other
\* slaves choose what they drive in the new cycle, the wires follow.
DevNext ==
    /\ UpdateReady /\ UpdateRsp /\ UpdateReq /\ UpdateApb /\ ApbTrack
    /\ UpdateFault /\ UpdateGrant /\ UpdatePrio /\ Track
    /\ apb' \in IF apb_penable_r' THEN ApbInputs ELSE {Idle}
    /\ mst_req' \in [Masters -> Slaves \cup {Unmapped, None}]
    /\ mst_rsp_rdy' \in SUBSET Masters
    /\ slv_rsp_vld' \in SUBSET Slaves /\ RspWires'
    /\ \A m \in Masters : BlockingMaster(m)
    /\ \A s \in Others : Slave(s)
    /\ bus_req' = perip_req' /\ bus_rsp_rdy' = slv_rsp_rdy(Bridge)'
    /\ slv_req_rdy' \in SUBSET Slaves /\ ReqWires'

\* The clock runs, masters take their answers, and no peripheral and none of
\* the other slaves waits for ever.  Nothing is assumed of the bridge.
DevSpec == /\ DevInit /\ [][DevNext]_devvars
           /\ WF_devvars(DevNext)
           /\ \A m \in Masters : []<>(m \in mst_rsp_rdy)
           /\ []<>(apb_penable_r => apb.pready)
           /\ \A s \in Others : []<>(s \in slv_req_rdy) /\ []<>(serving[s] # {} => s \in slv_rsp_vld)

-----------------------------------------------------------------------------
\* What module BusFab assumes of its slaves, the bridge does: fabric, bridge
\* and masters together are a behaviour of the fabric alone.
ImplementsFabric == Spec

\* The answer of an access goes to the master whose request the peripheral
\* has carried out, which is waiting for it, and to no other.
AnswersAsker ==
    /\ bus_rsp_vld => owed \in Masters /\ slv_arb_grant_r(Bridge) = {owed}
    /\ \A m \in Masters : awaited[m] = Bridge <=> owed = m
=============================================================================
