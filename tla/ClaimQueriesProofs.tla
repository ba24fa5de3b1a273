-------------------------- MODULE ClaimQueriesProofs --------------------------
(***************************************************************************)
(* Theorems about ClaimQueries: a listing shows claims that stay as shown, *)
(* with their event and reward, and agrees with what callers were told.    *)
(***************************************************************************)
EXTENDS ClaimQueries, RewardClaimProofs

(* The claims are those of RewardClaim.                                    *)

\* A step is one of the claims, or none for them.
LEMMA QuerySteps == [QueryNext]_allVars => [Next]_vars
  BY DEF QueryNext, allVars, ListStep, Ask, Find, Populate, ListFails, CrashListings, ClaimsGoOn,
         Next

\* What is proved of RewardClaim's behaviours holds beside listings.
THEOREM QueryClaims == QuerySpec => Spec
  <1>1. QueryInit => Init
    BY DEF QueryInit
  <1>2. QED
    BY <1>1, QuerySteps, PTL DEF QuerySpec, Spec

\* What holds of the claims at every step of a listing.
ListedClaims == AnswerInv /\ ClaimsReferToCatalogue

LEMMA ListedClaimsAlways == QuerySpec => []ListedClaims
  BY QueryClaims, AnswerInvAlways, ClaimsRefer, PTL DEF ListedClaims

-----------------------------------------------------------------------------
(* The inductive invariant.                                                *)

QueryTypes ==
    /\ listPc \in [Listings -> {"idle", "find", "populate", "listed", "badRequest",
                                "notFound", "failed", "lost"}]
    /\ filter \in [Listings -> ClaimFilters \cup {Undefined}]
    /\ rows \in [Listings -> [ClaimRequests -> ClaimDocs \cup {NoDoc}]]
    /\ awaited \in [Listings -> SUBSET References]
    /\ populated \in [Listings -> SUBSET (ClaimRequests \X References)]
    /\ toldBefore \in [Listings -> SUBSET ClaimRequests]

\* The claim a row shows is as it was, or has been paid since.
RowHolds(l, q) ==
    rows[l][q] # NoDoc =>
        claims[q] = rows[l][q] \/ (/\ rows[l][q].status = "APPROVED"
                                   /\ claims[q] = PaidClaim(rows[l][q]))

\* Rows come from the query, get their references one by one, and a listing with
\* rows ends when it waits for none.
RowsInv(l) ==
    /\ \A q \in ClaimRequests : RowHolds(l, q)
    /\ listPc[l] \in {"idle", "find"} =>
          awaited[l] = References /\ \A q \in ClaimRequests : rows[l][q] = NoDoc
    /\ \A q \in ClaimRequests : rows[l][q] # NoDoc =>
          {q} \X (References \ awaited[l]) \subseteq populated[l]
    /\ listPc[l] = "listed" => awaited[l] = {} \/ \A q \in ClaimRequests : rows[l][q] = NoDoc

\* Who was told before the listing finds what was told.
ToldInv(l) ==
    /\ \A q \in toldBefore[l] : pc[q] = "done"
    /\ listPc[l] \in {"populate", "listed"} /\ filter[l].status = Undefined
         /\ filter[l].claim = Undefined =>
           \A q \in toldBefore[l] : Covers(filter[l], target[q]) => Explains(l, q)

QueryInv == QueryTypes /\ \A l \in Listings : RowsInv(l) /\ ToldInv(l)

\* A shown claim that goes on is paid, if anything.
LEMMA RowsHold ==
  ASSUME ClaimInv, [Next]_vars, NEW l \in Listings, NEW q \in ClaimRequests,
         rows[l][q] \in ClaimDocs \cup {NoDoc}, RowHolds(l, q), rows'[l][q] = rows[l][q]
  PROVE  RowHolds(l, q)'
  <1> SUFFICES ASSUME rows[l][q] # NoDoc PROVE RowHolds(l, q)'
    BY DEF RowHolds
  <1>1. PaidClaim(rows[l][q]).status = "PAID" /\ PaidClaim(rows[l][q]) # NoDoc
    BY PaidClaimType, ClaimAssumption
  <1>2. claims[q] # NoDoc
    BY <1>1 DEF RowHolds
  <1>3. CASE claims'[q] = claims[q]
    BY <1>3 DEF RowHolds, PaidClaim
  <1>4. CASE claims'[q] # claims[q]
    <2>1. claims[q].status = "APPROVED" /\ claims'[q] = PaidClaim(claims[q])
      BY <1>2, <1>4, StepAdvances
    <2>2. claims[q] = rows[l][q]
      BY <1>1, <2>1 DEF RowHolds
    <2>3. QED
      BY <2>1, <2>2 DEF RowHolds, PaidClaim
  <1>5. QED
    BY <1>3, <1>4

\* A listing that takes no step, or is lost, keeps what is known of it.
LEMMA ListingStays ==
  ASSUME ListedClaims, [Next]_vars, QueryTypes, NEW l \in Listings, RowsInv(l), ToldInv(l),
         listPc'[l] \in {listPc[l], "failed", "lost"}, filter'[l] = filter[l],
         rows'[l] = rows[l], awaited'[l] = awaited[l], populated'[l] = populated[l],
         toldBefore'[l] = toldBefore[l]
  PROVE  RowsInv(l)' /\ ToldInv(l)'
  <1>0. ClaimInv /\ rows[l] \in [ClaimRequests -> ClaimDocs \cup {NoDoc}]
        /\ toldBefore[l] \subseteq ClaimRequests
    BY DEF ListedClaims, AnswerInv, QueryTypes
  <1>1. \A q \in ClaimRequests : RowHolds(l, q)'
    BY <1>0, RowsHold DEF RowsInv
  <1>2. RowsInv(l)'
    BY <1>0, <1>1 DEF RowsInv
  <1>3. \A q \in toldBefore[l] : /\ pc'[q] = "done" /\ response'[q] = response[q]
                                 /\ target'[q] = target[q]
    BY <1>0, AnsweredStays DEF ToldInv
  <1>4. \A q \in toldBefore[l] : Explains(l, q) => Explains(l, q)'
    BY <1>3 DEF Explains
  <1>5. ToldInv(l)'
    BY <1>3, <1>4 DEF ToldInv
  <1>6. QED
    BY <1>2, <1>5

\* A step keeps the types.
LEMMA QueryTypesStep == QueryTypes /\ ListedClaims /\ [QueryNext]_allVars => QueryTypes'
  <1> SUFFICES ASSUME QueryTypes, ListedClaims, [QueryNext]_allVars PROVE QueryTypes'
    OBVIOUS
  <1>0. claims \in [ClaimRequests -> ClaimDocs \cup {NoDoc}]
    BY DEF ListedClaims, AnswerInv, ClaimInv, TypeOK
  <1>1. ASSUME NEW l \in Listings, Ask(l) PROVE QueryTypes'
    BY <1>1, QueryAssumption DEF Ask, ListGoTo, QueryTypes
  <1>2. ASSUME NEW l \in Listings, Find(l) PROVE QueryTypes'
    BY <1>0, <1>2 DEF Find, ListGoTo, QueryTypes
  <1>3. ASSUME NEW l \in Listings, NEW reference \in References, Populate(l, reference)
        PROVE  QueryTypes'
    BY <1>3 DEF Populate, ListGoTo, QueryTypes
  <1>4. ASSUME NEW l \in Listings, ListFails(l) PROVE QueryTypes'
    BY <1>4 DEF ListFails, ListGoTo, QueryTypes
  <1>5. CASE CrashListings
    BY <1>5 DEF CrashListings, QueryTypes
  <1>6. CASE ClaimsGoOn \/ UNCHANGED allVars
    BY <1>6 DEF ClaimsGoOn, allVars, queryVars, QueryTypes
  <1>7. QED
    BY <1>1, <1>2, <1>3, <1>4, <1>5, <1>6 DEF QueryNext, ListStep

\* What the query finds explains the answers given before it.
LEMMA FindExplains ==
  ASSUME ListedClaims, QueryTypes, NEW l \in Listings, RowsInv(l), ToldInv(l), Find(l)
  PROVE  RowsInv(l)' /\ ToldInv(l)'
  <1>0. /\ ClaimInv /\ UNCHANGED <<claims, pc, target, response, filter, awaited, populated, toldBefore>>
        /\ toldBefore[l] \subseteq ClaimRequests
    BY DEF ListedClaims, AnswerInv, Find, vars, claimVars, QueryTypes
  <1>1. rows'[l] = [q \in ClaimRequests |-> IF Selects(filter[l], q) THEN claims[q] ELSE NoDoc]
    BY DEF Find, QueryTypes
  <1>2. listPc[l] = "find" /\ awaited[l] = awaited'[l]
    BY <1>0 DEF Find
  <1>3. \A q \in ClaimRequests : rows'[l][q] # NoDoc => rows'[l][q] = claims[q]
    BY <1>1
  <1>4. listPc'[l] = "listed" => \A q \in ClaimRequests : rows'[l][q] = NoDoc
    BY <1>1 DEF Find, ListGoTo, QueryTypes
  <1>5. listPc'[l] \in {"populate", "listed", "notFound"}
    BY DEF Find, ListGoTo, QueryTypes
  <1>6. RowsInv(l)'
    <2>1. awaited'[l] = References
      BY <1>2 DEF RowsInv
    <2>2. \A q \in ClaimRequests : RowHolds(l, q)'
      BY <1>0, <1>3 DEF RowHolds
    <2>3. QED
      BY <1>4, <1>5, <2>1, <2>2 DEF RowsInv
  <1>7. \A q \in toldBefore'[l] : pc'[q] = "done"
    BY <1>0 DEF ToldInv
  <1>8. CASE filter[l].status = Undefined /\ filter[l].claim = Undefined
    <2>1. \A q \in ClaimRequests : claims[q] # NoDoc /\ Covers(filter[l], target[q]) =>
             rows'[l][q] = claims[q]
      BY <1>0, <1>1, <1>8 DEF Selects, ClaimInv, Stored
    <2>2. ASSUME NEW q \in toldBefore[l], Covers(filter[l], target[q]) PROVE Explains(l, q)'
      <3>1. pc[q] = "done" /\ AnswerTrue(q) /\ q \in ClaimRequests
        BY <1>0 DEF ToldInv, ListedClaims, AnswerInv
      <3>2. CASE response[q] = 409
        <4>1. PICK p \in ClaimRequests : Live(p) /\ claims[p].key = target[q]
          BY <3>1, <3>2 DEF AnswerTrue, Held
        <4>2. claims[q] = NoDoc /\ p # q /\ target[p] = target[q]
          BY <1>0, <3>1, <3>2, <4>1 DEF AnswerTrue, Live, ClaimInv, Stored
        <4>3. rows'[l][p] = claims[p]
          BY <2>1, <2>2, <4>1, <4>2 DEF Live
        <4>4. QED
          BY <1>0, <3>2, <4>1, <4>2, <4>3 DEF Explains, Live
      <3>3. CASE response[q] \in {201, 400}
        BY <1>0, <2>1, <2>2, <3>1, <3>3 DEF AnswerTrue, Explains
      <3>4. CASE response[q] \notin {201, 400, 409}
        BY <1>0, <3>4 DEF Explains
      <3>5. QED
        BY <3>2, <3>3, <3>4
    <2>3. QED
      BY <1>0, <1>6, <1>7, <2>2 DEF ToldInv, Covers
  <1>9. CASE ~(filter[l].status = Undefined /\ filter[l].claim = Undefined)
    BY <1>0, <1>9, <1>6, <1>7 DEF ToldInv
  <1>10. QED
    BY <1>8, <1>9

\* A reference that is populated is found for every row.
LEMMA PopulateFinds ==
  ASSUME ListedClaims, QueryTypes, NEW l \in Listings, RowsInv(l), ToldInv(l),
         NEW reference \in References, Populate(l, reference)
  PROVE  RowsInv(l)' /\ ToldInv(l)'
  <1>0. /\ ClaimInv /\ UNCHANGED <<claims, pc, target, response, filter, rows, toldBefore>>
        /\ awaited'[l] = awaited[l] \ {reference} /\ awaited[l] \subseteq References
        /\ listPc[l] = "populate"
    BY DEF ListedClaims, AnswerInv, Populate, vars, claimVars, QueryTypes
  <1>1. ASSUME NEW q \in ClaimRequests, rows[l][q] # NoDoc PROVE Present(reference, rows[l][q].key)
    <2>1. rows[l][q] \in ClaimDocs
      BY <1>1 DEF QueryTypes
    <2>2. claims[q] # NoDoc /\ claims[q].key = rows[l][q].key
      BY <1>1, <2>1, PaidClaimType, ClaimAssumption DEF RowsInv, RowHolds
    <2>3. QED
      BY <2>2 DEF ListedClaims, ClaimsReferToCatalogue, Present
  <1>2. populated'[l] = populated[l] \cup
           {<<q, reference>> : q \in {r \in ClaimRequests :
               rows[l][r] # NoDoc /\ Present(reference, rows[l][r].key)}}
    BY DEF Populate, QueryTypes
  <1>3. \A q \in ClaimRequests : rows[l][q] # NoDoc =>
           {q} \X (References \ awaited'[l]) \subseteq populated'[l]
    <2> SUFFICES ASSUME NEW q \in ClaimRequests, rows[l][q] # NoDoc,
                        NEW other \in References \ awaited'[l]
                 PROVE  <<q, other>> \in populated'[l]
      OBVIOUS
    <2>1. CASE other = reference
      BY <1>1, <1>2, <2>1
    <2>2. CASE other # reference
      BY <1>0, <1>2, <2>2 DEF RowsInv
    <2>3. QED
      BY <2>1, <2>2
  <1>4. listPc'[l] = IF awaited[l] = {reference} THEN "listed" ELSE "populate"
    BY DEF Populate, ListGoTo, QueryTypes
  <1>5. RowsInv(l)'
    BY <1>0, <1>3, <1>4 DEF RowsInv, RowHolds
  <1>6. ToldInv(l)'
    BY <1>0, <1>4 DEF ToldInv, Explains, Covers
  <1>7. QED
    BY <1>5, <1>6

\* Asking notes who has been told.
LEMMA AskStarts ==
  ASSUME QueryTypes, NEW l \in Listings, RowsInv(l), Ask(l)
  PROVE  RowsInv(l)' /\ ToldInv(l)'
  <1>1. /\ listPc[l] = "idle" /\ listPc'[l] \in {"find", "badRequest"}
        /\ toldBefore'[l] = {q \in ClaimRequests : pc[q] = "done"}
        /\ UNCHANGED <<pc, claims, rows, awaited, populated>>
    BY DEF Ask, ListGoTo, QueryTypes, vars, claimVars
  <1>2. QED
    BY <1>1 DEF RowsInv, RowHolds, ToldInv

LEMMA QueryInvStep == QueryInv /\ ListedClaims /\ [QueryNext]_allVars => QueryInv'
  <1> SUFFICES ASSUME QueryInv, ListedClaims, [QueryNext]_allVars, NEW l \in Listings
               PROVE  RowsInv(l)' /\ ToldInv(l)'
    BY QueryTypesStep DEF QueryInv
  <1>0. QueryTypes /\ RowsInv(l) /\ ToldInv(l) /\ [Next]_vars
    BY QuerySteps DEF QueryInv
  <1>1. ASSUME NEW k \in Listings, ListStep(k), k # l PROVE RowsInv(l)' /\ ToldInv(l)'
    <2>1. /\ listPc'[l] = listPc[l] /\ filter'[l] = filter[l] /\ rows'[l] = rows[l]
          /\ awaited'[l] = awaited[l] /\ populated'[l] = populated[l]
          /\ toldBefore'[l] = toldBefore[l]
      BY <1>0, <1>1 DEF ListStep, Ask, Find, Populate, ListFails, ListGoTo, QueryTypes
    <2>2. QED
      BY <1>0, <2>1, ListingStays
  <1>2. CASE ListStep(l)
    <2>1. CASE ListFails(l)
      <3>1. /\ listPc'[l] = "failed"
            /\ UNCHANGED <<filter, rows, awaited, populated, toldBefore>>
        BY <1>0, <2>1 DEF ListFails, ListGoTo, QueryTypes
      <3>2. QED
        BY <1>0, <3>1, ListingStays
    <2>2. QED
      BY <1>0, <1>2, <2>1, AskStarts, FindExplains, PopulateFinds DEF ListStep
  <1>3. CASE CrashListings
    <2>1. /\ listPc'[l] \in {listPc[l], "lost"}
          /\ UNCHANGED <<filter, rows, awaited, populated, toldBefore>>
      BY <1>0, <1>3 DEF CrashListings, QueryTypes
    <2>2. QED
      BY <1>0, <2>1, ListingStays
  <1>4. CASE ClaimsGoOn \/ UNCHANGED allVars
    <2>1. UNCHANGED queryVars
      BY <1>4 DEF ClaimsGoOn, allVars
    <2>2. QED
      BY <1>0, <2>1, ListingStays DEF queryVars
  <1>5. QED
    BY <1>1, <1>2, <1>3, <1>4 DEF QueryNext

LEMMA QueryInvAlways == QuerySpec => []QueryInv
  <1>1. QueryInit => QueryInv
    BY DEF QueryInit, QueryInv, QueryTypes, RowsInv, RowHolds, ToldInv
  <1>2. QED
    BY <1>1, QueryInvStep, ListedClaimsAlways, PTL DEF QuerySpec

-----------------------------------------------------------------------------
(* The theorems.                                                           *)

\* Listings keep their types.
THEOREM QueryTypesCorrect == QuerySpec => []QueryTypeOK
  <1>1. QueryInv /\ ListedClaims => QueryTypeOK
    BY DEF QueryInv, QueryTypes, ListedClaims, AnswerInv, ClaimInv, QueryTypeOK
  <1>2. QED
    BY <1>1, QueryInvAlways, ListedClaimsAlways, PTL

\* What a listing shows stays true, but for payments, with event and reward.
THEOREM RowsStayTrue == QuerySpec => []ListedStaysTrue
  <1>1. QueryInv => ListedStaysTrue
    BY DEF QueryInv, RowsInv, RowHolds, ListedStaysTrue
  <1>2. QED
    BY <1>1, QueryInvAlways, PTL

\* Whoever was told what became of a claim finds the same in later listings.
THEOREM ToldIsFound == QuerySpec => []ToldIsListed
  <1>1. QueryInv => ToldIsListed
    BY DEF QueryInv, ToldInv, ToldIsListed
  <1>2. QED
    BY <1>1, QueryInvAlways, PTL

=============================================================================
