----------------------------- MODULE RoundRobin -----------------------------
(***************************************************************************)
(* What the round-robin arbiter promises: among the requesters it grants   *)
(* the first one at or after the position that has priority, counting      *)
(* upwards and around.  Module ArbRr shows that the bit-vector arithmetic  *)
(* of src/design/misc/uv_arb_rr.v computes this choice.                    *)
(***************************************************************************)
EXTENDS Integers

CONSTANT WIDTH   \* number of request lines

Lines == 0 .. (WIDTH - 1)

\* How far line i is behind line p, going up and around.
Behind(p, i) == IF i >= p THEN i - p ELSE i - p + WIDTH

\* The granted lines: the nearest requester, none if nobody requests.
Grant_FixedPriority(p, req) == {i \in req : \A k \in req : i <= k}
Grant(p, req) == {i \in req : \A k \in req : Behind(p, i) <= Behind(p, k)}

\* Priority moves to the line after the granted one; without a request, and
\* so without a grant, it stays.
NextPrio(p, req) ==
    IF Grant(p, req) = {} THEN p
    ELSE LET g == CHOOSE i \in Grant(p, req) : TRUE
         IN  IF g + 1 < WIDTH THEN g + 1 ELSE 0

=============================================================================
