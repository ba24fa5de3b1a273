--------------------------- MODULE MCClaimQueries ---------------------------
(***************************************************************************)
(* ClaimQueries on the instances of MCRewardClaim.                         *)
(***************************************************************************)
EXTENDS MCRewardClaim, ClaimQueries

Everything == [user |-> Undefined, event |-> Undefined, status |-> Undefined,
               claim |-> Undefined]

\* An administrator lists all claims, paid ones, those of an event or one claim;
\* a user lists his own.
MCFilters == {Everything, [Everything EXCEPT !.status = "PAID"]}
                \cup {[Everything EXCEPT !.user = u] : u \in Users}
                \cup {[Everything EXCEPT !.event = e1]}
                \cup {[Everything EXCEPT !.claim = q] : q \in ClaimRequests}

=============================================================================
