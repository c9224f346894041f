------------------------------- MODULE ArbRr --------------------------------
(***************************************************************************)
(* The arbiters of src/design/misc: uv_arb_rr.v (round robin, one per      *)
(* slave port of the bus fabrics) and uv_arb_fp.v (fixed priority, used by *)
(* the system-level controller).  Both find the winner with one            *)
(* subtraction on the doubled request vector.  A bit vector is the set of  *)
(* the positions of its ones.                                              *)
(***************************************************************************)
EXTENDS Integers

CONSTANT WIDTH   \* number of request lines

ASSUME ArbAssumption == WIDTH \in Nat /\ WIDTH >= 2

VARIABLES req,     \* input: the request lines of this cycle
          prio_r,  \* register: one-hot, the line with priority
          lost     \* history: arbitrations each line has lost in a row

arbvars == <<req, prio_r, lost>>

Lines   == 0 .. (WIDTH - 1)
Doubles == 0 .. (2 * WIDTH - 1)

-----------------------------------------------------------------------------
\* Binary subtraction, modulo 2^(2 * WIDTH).  A borrow arises where b has a one
\* and a has none, and runs on up to the first one that only a has; a bit of
\* the result is the exclusive or of both and of the borrow into it.
Borrow(a, b, i) == \E j \in 0 .. i - 1 : j \in b \ a /\ \A l \in j + 1 .. i - 1 : l \notin a \ b
Minus(a, b) == {i \in Doubles : i \in a <=> (i \in b <=> Borrow(a, b, i))}

\* req_d = {req, req}; the borrow of req_d - p runs from the bit p upwards to
\* the first request and stops there, in the second copy if need be.
Doubled_Single(r) == r
Doubled(r) == r \cup {i + WIDTH : i \in r}
Winner(r, p) ==
    LET req_d   == Doubled(r)
        grant_d == req_d \ Minus(req_d, p)
    IN  {i \in Lines : i \in grant_d \/ i + WIDTH \in grant_d}

grant == Winner(req, prio_r)

\* The fixed-priority arbiter: the borrow always starts at line 0.
grant_fp == Winner(req, {0})

\* {grant[WIDTH-2:0], grant[WIDTH-1]}
RotateLeft(v) == {IF i = WIDTH - 1 THEN 0 ELSE i + 1 : i \in v}

\* Update priority according to the previous grant.
UpdatePrio_Held ==
    prio_r' = IF req # {} THEN grant ELSE prio_r
UpdatePrio ==
    prio_r' = IF req # {} THEN RotateLeft(grant) ELSE prio_r

\* History: a cycle without any request is no arbitration.
Track ==
    lost' = [i \in Lines |->
        IF req = {} THEN lost[i] ELSE IF i \in req \ grant THEN lost[i] + 1 ELSE 0]

ArbInit ==
    /\ req \in SUBSET Lines
    /\ prio_r = {0}
    /\ lost = [i \in Lines |-> 0]

\* One rising clock edge.
ArbNext == UpdatePrio /\ Track /\ req' \in SUBSET Lines

ArbSpec == ArbInit /\ [][ArbNext]_arbvars

-----------------------------------------------------------------------------
RR == INSTANCE RoundRobin

\* The priority register stays one-hot, also over cycles without a request (a
\* zero would let every requester win at once), and the bit arithmetic of both
\* arbiters computes the choice of module RoundRobin: the nearest requester
\* from the line with priority upwards and around, which with priority on line
\* 0 is the lowest one; and the rotated grant is RoundRobin's next priority.
GrantsNearest ==
    \E p \in Lines :
        /\ prio_r = {p}
        /\ grant = RR!Grant(p, req)
        /\ grant_fp = RR!Grant(0, req)
        /\ req # {} => RotateLeft(grant) = {RR!NextPrio(p, req)}

\* Bounded waiting: a line that takes part in every arbitration wins within
\* WIDTH of them, whatever the other lines request.
BoundedWaiting == \A i \in Lines : lost[i] < WIDTH

=============================================================================
