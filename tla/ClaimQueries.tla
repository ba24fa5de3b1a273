---------------------------- MODULE ClaimQueries ----------------------------
(***************************************************************************)
(* The listings of reward claims: GET /reward-claims, /reward-claims/me    *)
(* and /reward-claims/:id, while claims are made.  A listing finds the     *)
(* documents in one query and then populates their event and reward by two *)
(* more, which settle in either order.                                     *)
(***************************************************************************)
EXTENDS RewardClaim

CONSTANTS Listings,   \* the GET calls of a behaviour, each used once
          Filters     \* what they ask for

VARIABLES listPc,     \* where each listing is, or how it ended
          filter,     \* what it asks for
          rows,       \* the documents it found, by inserting request
          awaited,    \* the references it has still to populate
          populated,  \* the references it has found, with the claims they are of
          toldBefore  \* the requests that had their answer when it was asked

queryVars == <<listPc, filter, rows, awaited, populated, toldBefore>>
allVars == <<vars, queryVars>>

References == {"event", "reward"}

\* A caller may leave out every part; "me" fixes the user, an id the claim.  The
\* status is not validated: "other" is one that no claim has.
ClaimFilters == [user : Maybe(Users), event : Maybe(EventIds),
                 status : Maybe(ClaimStatus \cup {"other"}), claim : Maybe(ClaimRequests)]

ASSUME QueryAssumption ==
    /\ Filters \subseteq ClaimFilters
    /\ Undefined \notin Users \cup ClaimStatus \cup ClaimRequests

\* The filter asks for claims on a key.
Covers(f, key) == f.user \in {Undefined, key.user} /\ f.event \in {Undefined, key.event}

\* The query object findMyClaimsByUserId and findAllClaimsForAdmin build.
Selects(f, q) ==
    /\ claims[q] # NoDoc
    /\ f.claim \in {Undefined, q}
    /\ Covers(f, claims[q].key)
    /\ f.status \in {Undefined, claims[q].status}

\* What a reference of a claim is populated with exists.
Present(reference, key) ==
    IF reference = "event" THEN EventExists(key.event) ELSE rewards[key.reward] # NoDoc

-----------------------------------------------------------------------------
QueryInit ==
    /\ Init
    /\ listPc = [l \in Listings |-> "idle"]
    /\ filter = [l \in Listings |-> Undefined]
    /\ rows = [l \in Listings |-> [q \in ClaimRequests |-> NoDoc]]
    /\ awaited = [l \in Listings |-> References]
    /\ populated = [l \in Listings |-> {}]
    /\ toldBefore = [l \in Listings |-> {}]

ListGoTo(l, step) == listPc' = [listPc EXCEPT ![l] = step]

\* A caller asks; an id that is none is refused before any query.
Ask(l) ==
    /\ listPc[l] = "idle"
    /\ \/ ListGoTo(l, "badRequest") /\ UNCHANGED filter
       \/ \E f \in Filters : filter' = [filter EXCEPT ![l] = f] /\ ListGoTo(l, "find")
    /\ toldBefore' = [toldBefore EXCEPT ![l] = {q \in ClaimRequests : pc[q] = "done"}]
    /\ UNCHANGED <<vars, rows, awaited, populated>>

\* find or findById: no row is an empty list, or 404 for a claim asked for by id.
Find(l) ==
    /\ listPc[l] = "find"
    /\ rows' = [rows EXCEPT ![l] =
                  [q \in ClaimRequests |-> IF Selects(filter[l], q) THEN claims[q] ELSE NoDoc]]
    /\ ListGoTo(l, IF \E q \in ClaimRequests : Selects(filter[l], q) THEN "populate"
                   ELSE IF filter[l].claim = Undefined THEN "listed" ELSE "notFound")
    /\ UNCHANGED <<vars, filter, awaited, populated, toldBefore>>

Populate(l, reference) ==
    /\ listPc[l] = "populate"
    /\ reference \in awaited[l]
    /\ awaited' = [awaited EXCEPT ![l] = @ \ {reference}]
    /\ populated' = [populated EXCEPT ![l] = @ \cup
          {<<q, reference>> : q \in {r \in ClaimRequests :
              rows[l][r] # NoDoc /\ Present(reference, rows[l][r].key)}}]
    /\ ListGoTo(l, IF awaited[l] = {reference} THEN "listed" ELSE "populate")
    /\ UNCHANGED <<vars, filter, rows, toldBefore>>

\* One of the queries rejects, and the framework answers 500.
ListFails(l) ==
    /\ listPc[l] \in {"find", "populate"}
    /\ ListGoTo(l, "failed")
    /\ UNCHANGED <<vars, filter, rows, awaited, populated, toldBefore>>

ListStep(l) ==
    Ask(l) \/ Find(l) \/ (\E reference \in References : Populate(l, reference)) \/ ListFails(l)

\* A restart loses the listings in flight with the requests.
CrashListings ==
    /\ Crash
    /\ listPc' = [l \in Listings |->
                     IF listPc[l] \in {"find", "populate"} THEN "lost" ELSE listPc[l]]
    /\ UNCHANGED <<filter, rows, awaited, populated, toldBefore>>

ClaimsGoOn ==
    /\ \/ \E q \in ClaimRequests : RequestStep(q)
       \/ Tick
       \/ OperatorStep
    /\ UNCHANGED queryVars

QueryNext == (\E l \in Listings : ListStep(l)) \/ CrashListings \/ ClaimsGoOn

QuerySpec == QueryInit /\ [][QueryNext]_allVars

-----------------------------------------------------------------------------
(* Properties.                                                             *)

QueryTypeOK ==
    /\ TypeOK
    /\ listPc \in [Listings -> {"idle", "find", "populate", "listed", "badRequest",
                                "notFound", "failed", "lost"}]
    /\ filter \in [Listings -> ClaimFilters \cup {Undefined}]
    /\ rows \in [Listings -> [ClaimRequests -> ClaimDocs \cup {NoDoc}]]
    /\ awaited \in [Listings -> SUBSET References]
    /\ populated \in [Listings -> SUBSET (ClaimRequests \X References)]
    /\ toldBefore \in [Listings -> SUBSET ClaimRequests]

\* A listing that asks for every status of what q claimed shows why q was
\* answered as it was: q's paid or rejected claim, or the live claim of another
\* request.
Explains(l, q) ==
    CASE response[q] = 201 -> rows[l][q] # NoDoc /\ rows[l][q].status = "PAID"
      [] response[q] = 400 -> rows[l][q] # NoDoc /\ rows[l][q].status = "REJECTED"
      [] response[q] = 409 -> \E p \in ClaimRequests \ {q} :
             /\ rows[l][p] # NoDoc
             /\ rows[l][p].key = target[q]
             /\ rows[l][p].status \notin Uncounted
      [] OTHER -> TRUE

\* A user who has been told what became of a claim finds the same in every later
\* listing, whatever else is claimed, fails or restarts in between.
ToldIsListed ==
    \A l \in Listings : listPc[l] = "listed" /\ filter[l].status = Undefined
                          /\ filter[l].claim = Undefined =>
        \A q \in toldBefore[l] : Covers(filter[l], target[q]) => Explains(l, q)

\* The rows of a listing stay true after it: no claim that was shown goes away,
\* and one that changes was shown as approved and is now paid.  Their event and
\* their reward are in the row.
ListedStaysTrue ==
    \A l \in Listings : listPc[l] = "listed" =>
        \A q \in ClaimRequests : rows[l][q] # NoDoc =>
            /\ claims[q] = rows[l][q] \/ /\ rows[l][q].status = "APPROVED"
                                         /\ claims[q] = PaidClaim(rows[l][q])
            /\ {q} \X References \subseteq populated[l]

=============================================================================
