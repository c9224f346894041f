------------------------------ MODULE BusToApb ------------------------------
(***************************************************************************)
(* The bridge from the bus to an APB peripheral, src/design/bus/           *)
(* uv_bus_to_apb.v, as every peripheral instantiates it (PIPE set): the    *)
(* request is registered, offered to the peripheral for one setup cycle    *)
(* and held through the access phase until pready.  The peripherals of     *)
(* src/design/dev carry out reads and writes in the setup cycle.           *)
(*                                                                         *)
(* A state is a settled clock cycle, a step the clock edge that ends it.   *)
(* Direction, address, mask and data of a request travel together and are  *)
(* one value; a register that is only looked at under its valid bit is     *)
(* Nil, or (rsp_data_r) any word, while nothing valid has been stored.     *)
(***************************************************************************)
CONSTANTS Reqs,  \* the requests
          Data,  \* the words a peripheral returns
          Nil

Rsps == [excp : BOOLEAN, data : Data]

ASSUME ApbAssumption == Nil \notin Reqs /\ Nil \notin Rsps

VARIABLES
    req_rdy_r,     \* register: no access in progress
    req_r,         \* registers req_vld_r, req_read_r, req_addr_r, ...
    apb_penable_r, \* register: access phase
    apb_r,         \* registers apb_paddr_r, apb_pwrite_r, ...
    rsp_vld_r,     \* register: a response waits to be taken
    rsp_excp_r,    \* register: its exception flag
    rsp_data_r,    \* register: its data
    bus_req,       \* input: the request offered, or Nil
    bus_rsp_rdy,   \* input: the response is taken
    apb,           \* input: pready, pslverr and prdata of the peripheral
    owed           \* the request taken and not answered yet, or Nil

apb_regs == <<req_rdy_r, req_r, apb_penable_r, apb_r, rsp_vld_r, rsp_excp_r, rsp_data_r>>
apbvars == <<apb_regs, bus_req, bus_rsp_rdy, apb, owed>>

ApbInputs == [pready : BOOLEAN, pslverr : BOOLEAN, prdata : Data]

-----------------------------------------------------------------------------
req_vld_r == req_r # Nil
apb_okay  == apb_penable_r /\ apb.pready

\* Bus output.
bus_req_rdy == (bus_req = Nil \/ req_vld_r) /\ req_rdy_r
bus_rsp_vld == apb_okay \/ rsp_vld_r
bus_rsp == IF ~bus_rsp_vld THEN Nil
           ELSE IF apb_okay THEN [excp |-> apb.pslverr, data |-> apb.prdata]
           ELSE [excp |-> rsp_excp_r, data |-> rsp_data_r]
bus_req_fire == bus_req # Nil /\ bus_req_rdy
bus_rsp_fire == bus_rsp_vld /\ bus_rsp_rdy

\* APB output.
apb_psel == req_vld_r \/ apb_penable_r
apb_request == IF req_vld_r THEN req_r ELSE apb_r
apb_setup == apb_psel /\ ~apb_penable_r

-----------------------------------------------------------------------------
\* Bus back pressure.
UpdateReady == req_rdy_r' = IF apb_okay THEN TRUE ELSE IF req_vld_r THEN FALSE ELSE req_rdy_r

\* Buffer bus output.
UpdateRsp_Dropped ==
    /\ rsp_vld_r' = FALSE
    /\ UNCHANGED <<rsp_excp_r, rsp_data_r>>
UpdateRsp ==
    /\ rsp_vld_r' = IF apb_okay /\ ~bus_rsp_rdy THEN TRUE
                    ELSE IF bus_rsp_fire THEN FALSE ELSE rsp_vld_r
    /\ rsp_excp_r' = IF apb_okay /\ ~bus_rsp_rdy THEN apb.pslverr
                     ELSE IF bus_rsp_fire THEN FALSE ELSE rsp_excp_r
    /\ rsp_data_r' = IF apb_okay THEN apb.prdata ELSE rsp_data_r

\* Buffer bus input.
UpdateReq == req_r' = bus_req

\* Buffer APB output.
UpdateApb_StuckEnable ==
    /\ apb_penable_r' = (req_vld_r \/ (apb_penable_r /\ ~apb_okay))
    /\ apb_r' = IF req_vld_r THEN req_r ELSE apb_r
UpdateApb ==
    /\ apb_penable_r' = IF apb_okay THEN FALSE ELSE req_vld_r \/ apb_penable_r
    /\ apb_r' = IF ~apb_okay /\ req_vld_r THEN req_r ELSE apb_r

\* The master side, through the fabric (Client of module SlavePort), and a
\* peripheral that may take any number of cycles to answer.
ApbDrive ==
    /\ bus_req' \in Reqs \cup {Nil}
    /\ bus_rsp_rdy' \in BOOLEAN
    /\ apb' \in ApbInputs
    /\ bus_req # Nil /\ ~bus_req_fire => bus_req' = bus_req
    /\ bus_req' # Nil => owed' = Nil \/ bus_rsp_fire'

ApbTrack == owed' = IF bus_req_fire THEN bus_req ELSE IF bus_rsp_fire THEN Nil ELSE owed

ApbInit == /\ req_rdy_r = TRUE
           /\ req_r = Nil
           /\ apb_penable_r = FALSE
           /\ apb_r = Nil
           /\ rsp_vld_r = FALSE
           /\ rsp_excp_r = FALSE
           /\ rsp_data_r \in Data
           /\ bus_req \in Reqs \cup {Nil}
           /\ bus_rsp_rdy \in BOOLEAN
           /\ apb \in ApbInputs
           /\ owed = Nil

ApbClock == UpdateReady /\ UpdateRsp /\ UpdateReq /\ UpdateApb /\ ApbTrack /\ ApbDrive

ApbNext == ApbClock

ApbSpec == ApbInit /\ [][ApbNext]_apbvars

-----------------------------------------------------------------------------
(* Properties.                                                             *)

\* The registers hold bits, words and requests, and in the access phase a
\* request.
ApbTypeOK == /\ req_rdy_r \in BOOLEAN
             /\ req_r \in Reqs \cup {Nil}
             /\ apb_penable_r \in BOOLEAN
             /\ apb_r \in Reqs \cup {Nil} /\ (apb_penable_r => apb_r # Nil)
             /\ rsp_vld_r \in BOOLEAN
             /\ rsp_excp_r \in BOOLEAN
             /\ rsp_data_r \in Data
             /\ bus_req \in Reqs \cup {Nil}
             /\ bus_rsp_rdy \in BOOLEAN
             /\ apb \in ApbInputs
             /\ owed \in Reqs \cup {Nil}

\* The peripheral, which acts on the setup cycle, carries out exactly the
\* requests the bridge takes, each once and with its own address and data,
\* and sees the same request until the access has ended.
AccessedOnce ==
    /\ apb_setup <=> bus_req_fire
    /\ apb_setup => apb_request = bus_req
    /\ apb_penable_r => apb_request = owed

\* Where a transaction stands, from the registers: in setup the offered
\* request is the registered one, in the access phase it is the one owed, and
\* while the response waits the bridge is idle.  This is what makes the
\* properties above and below inductive.
Phases ==
    /\ bus_req # Nil => owed = Nil \/ bus_rsp_fire
    /\ ~apb_penable_r => req_rdy_r
    /\ apb_setup => req_r = bus_req /\ owed = Nil
    /\ apb_penable_r => /\ apb_r = owed /\ ~req_rdy_r /\ ~rsp_vld_r
                        /\ req_r \in {owed, Nil}
    /\ rsp_vld_r => req_r = Nil
    /\ owed # Nil <=> apb_penable_r \/ rsp_vld_r

Port == INSTANCE SlavePort WITH req <- bus_req, req_rdy <- bus_req_rdy, rsp <- bus_rsp,
                                rsp_rdy <- bus_rsp_rdy, None <- Nil

\* The bridge is a slave as the fabric expects it: one answer for every
\* request it has taken, held up unchanged until it is taken.
ImplementsSlavePort == Port!Spec

=============================================================================
