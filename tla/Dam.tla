-------------------------------- MODULE Dam ---------------------------------
(***************************************************************************)
(* The directly accessed memory, src/design/mem/uv_dam.v: the fabric of    *)
(* module BusFab between the fetch port and the load/store port of the     *)
(* core and two banks with the SRAM controller of uv_sram_bus_ctrl.v, of   *)
(* which the handshake is kept (module SramBusCtrl has the data).          *)
(*                                                                         *)
(* Module BusFab assumes that a master holds a request until it is taken.  *)
(* The load/store unit does not: uv_exu.v withdraws its instruction when a *)
(* trap flushes the pipeline.  A trap commits in the cycle after its       *)
(* instruction has left the load/store unit and flushes one cycle later,   *)
(* that is in the second cycle of the next instruction.  The bus interface *)
(* unit in between, with one master per fabric, is left out; so is what a  *)
(* lock left behind in it does to later accesses to devices.               *)
(***************************************************************************)
EXTENDS BusFab

\* The fabric as uv_dam.v:114 instantiates it: two ports, every bank present.
Connected == MST_PORT_NUM = 2 /\ Present = Slaves

VARIABLES
    misaligned,       \* driven by the LSU: its address is not that of a word
    first,            \* history: the LSU drives its request since this cycle
    addr_misalign_r,  \* register: banks in the second cycle of an access
    trap_flush,       \* driven by the CMT: the pipeline is flushed
    empty,            \* history: flushed, no instruction fetched since
    withdrawn,        \* history: a request was taken back from a bank granted to it
    waited            \* history: cycles each port has kept its request up in vain

damvars == <<vars, misaligned, first, addr_misalign_r, trap_flush, empty, withdrawn, waited>>

PortA == 0   \* fetch
PortB == 1   \* load and store

-----------------------------------------------------------------------------
\* A bank is asked for a misaligned access, and so is not ready at once.
addr_misalign(s) == PortB \in drivers(s) /\ mst_req_vld(PortB) /\ misaligned
sram_req_rdy     == {s \in Slaves : addr_misalign(s) => s \in addr_misalign_r}

UpdateBanks ==
    /\ addr_misalign_r' = {s \in Slaves : addr_misalign(s) /\ s \notin addr_misalign_r}
    /\ slv_rsp_vld' = {s \in Slaves : slv_req_fire(s) \/ (s \in slv_rsp_vld /\ ~slv_rsp_fire(s))}

\* A port whose request has not been taken.
Waits(m) == mst_req_vld(m) /\ ~mst_req_fire(m)

\* The fetch unit asks until it is served; what it asks for may change when
\* an instruction redirects it, and with a flush it asks for the handler.
Fetch ==
    mst_req'[PortA] \in IF trap_flush' THEN Slaves
                       ELSE IF Waits(PortA) THEN (IF empty' THEN {mst_req[PortA]} ELSE Slaves)
                       ELSE Slaves \cup {None}

\* The load/store unit holds its request, or a flush takes it back.
LoadStore ==
    /\ mst_req'[PortB] \in IF empty' THEN {None}
                           ELSE IF Waits(PortB) THEN {mst_req[PortB]} ELSE Slaves \cup {None}
    /\ misaligned' \in IF mst_req'[PortB] = None THEN {FALSE}
                       ELSE IF Waits(PortB) THEN {misaligned} ELSE BOOLEAN
    /\ first' = (mst_req'[PortB] # None /\ ~Waits(PortB))

\* A flush needs an instruction that has just committed.
Trap ==
    /\ trap_flush' \in IF empty \/ (mst_req_vld(PortB) /\ ~first) THEN {FALSE} ELSE BOOLEAN
    /\ empty' = (trap_flush' \/ (empty /\ (trap_flush \/ ~mst_rsp_fire(PortA))))

\* Bookkeeping; what matters of a long wait is that it has lasted Late cycles.
Late == 3
Record ==
    /\ withdrawn' = (withdrawn \/ \E m \in Masters :
                         /\ Waits(m) /\ req_lck_to_slv(m) # {}
                         /\ mst_req'[m] # mst_req[m])
    /\ waited' = [m \in Masters |->
           IF ~(Waits(m) /\ mst_req'[m] = mst_req[m]) THEN 0
           ELSE IF waited[m] < Late THEN waited[m] + 1 ELSE Late]

DamInit ==
    /\ Init /\ mst_rsp_rdy = Masters /\ slv_req_rdy = Slaves
    /\ misaligned = FALSE /\ first = FALSE /\ addr_misalign_r = {}
    /\ trap_flush = FALSE /\ empty = TRUE
    /\ withdrawn = FALSE /\ waited = [m \in Masters |-> 0]

\* One clock edge of fabric, banks and core.
DamNext ==
    /\ UpdateFault /\ UpdateGrant /\ UpdatePrio /\ Track
    /\ UpdateBanks
    /\ Trap
    /\ mst_req' \in [Masters -> Slaves \cup {None}]
    /\ Fetch /\ LoadStore /\ Record
    /\ mst_rsp_rdy' = Masters
    /\ slv_req_rdy' = sram_req_rdy'

DamSpec == DamInit /\ [][DamNext]_damvars /\ WF_damvars(DamNext)

-----------------------------------------------------------------------------
\* README.md:10: the memory "is connected to core directly and can be accessed
\* with fixed delay".  Of that only: a request that a port keeps up is served
\* at some time.  It is not, after a flush has taken back a misaligned access
\* whose bank had been granted: the bank stays locked to the load/store port
\* until that port is granted a bank again, and if the handler is to be fetched
\* from this bank the core hangs.
Accessible ==
    \A m \in Masters : mst_req_vld(m) ~> (mst_req_fire(m) \/ ~mst_req_vld(m))

\* The ports do not keep the contract the fabric relies on: a fetch that is
\* redirected asks for something else, and a flush takes an access back.  As
\* long as no access was taken back from a bank that it had been granted,
\* the two ports are kept apart all the same and get their own answers.
SafeUntilWithdrawn == ~withdrawn => RequestsSeparate /\ NoOverrun /\ ResponsesRouted

\* README.md:10, "fixed delay", as far as the banks are shared: a port that
\* keeps its request up is served after at most two cycles (a misaligned
\* access of its own or of the other port) and answered in the next one.
InTime ==
    ~withdrawn => \A m \in Masters : waited[m] < Late /\ (awaited[m] # None => mst_rsp_fire(m))

\* Only a flush takes a granted access back.  A fetch may be redirected while
\* it waits, but it waits only as long as it has not been granted.
OnlyFlushWithdraws == [][withdrawn' => withdrawn \/ trap_flush']_damvars

\* Module SramBusCtrl carries out a misaligned access in two cycles and relies
\* on being asked the same in both.  It is, unless a flush comes in between.
AskedTwice ==
    [][~withdrawn' =>
        \A s \in Slaves : slv_req_vld(s) /\ ~slv_req_fire(s) =>
            slv_req_vld(s)' /\ drivers(s)' = drivers(s) /\ misaligned' = misaligned]_damvars
=============================================================================
