----------------------------- MODULE SlavePort ------------------------------
(***************************************************************************)
(* What the bus fabric expects of a slave, and grants it: the contract of  *)
(* a slave port of module BusFab, stated for one slave.  The bridge to the *)
(* APB peripherals and the SRAM controller are shown to implement it.      *)
(***************************************************************************)
CONSTANTS Reqs,  \* the requests: direction, address, byte mask and data
          Rsps,  \* the responses: exception flag and data
          None   \* no request, no response, nothing owed

VARIABLES req,     \* the request offered in this cycle, or None
          req_rdy, \* whether the slave takes it
          rsp,     \* the response given in this cycle, or None
          rsp_rdy, \* whether the master takes it
          owed     \* the request taken and not answered yet, or None

vars == <<req, req_rdy, rsp, rsp_rdy, owed>>

req_fire == req # None /\ req_rdy
rsp_fire == rsp # None /\ rsp_rdy

Init == /\ req \in Reqs \cup {None}
        /\ rsp_rdy \in BOOLEAN
        /\ req_rdy \in BOOLEAN
        /\ rsp = None
        /\ owed = None

\* The fabric keeps a request up until it is taken, and offers the next one
\* no earlier than in the cycle in which the answer is taken.
Client == /\ req' \in Reqs \cup {None}
          /\ rsp_rdy' \in BOOLEAN
          /\ req # None /\ ~req_fire => req' = req
          /\ req' # None => owed' = None \/ rsp_fire'

\* The slave answers only what it owes, and keeps the answer up and
\* unchanged until it is taken.
Slave == /\ req_rdy' \in BOOLEAN
         /\ rsp' \in Rsps \cup {None}
         /\ rsp' # None => owed' # None
         /\ rsp # None /\ ~rsp_fire => rsp' = rsp

Next == /\ owed' = IF req_fire THEN req ELSE IF rsp_fire THEN None ELSE owed
        /\ Client
        /\ Slave

Spec == Init /\ [][Next]_vars

=============================================================================
