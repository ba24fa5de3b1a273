----------------------------- MODULE ClaimLedger -----------------------------
(***************************************************************************)
(* What the reward claims of event-server promise, apart from how they are *)
(* processed.  A claim is considered for a key, a user's reward of an      *)
(* event, only while the key has no grant; a claim under consideration is  *)
(* granted, with the contents of the reward fixed at that moment, or       *)
(* lapses; a grant is paid once, or abandoned for good.  So a key may be   *)
(* granted twice, but only to claims considered before its first grant.    *)
(***************************************************************************)
CONSTANTS LedgerClaims,    \* the claims there may be
          LedgerKeys,      \* who claims what: a user, an event and a reward
          LedgerDetails    \* what a reward may consist of

VARIABLES considered,      \* the claims under consideration, with their keys
          granted,         \* the grants: a claim, its key and the reward's contents
          paid,            \* those that have been paid
          abandoned        \* those that never will be

ledgerVars == <<considered, granted, paid, abandoned>>

LedgerGrants == LedgerClaims \X LedgerKeys \X LedgerDetails

LedgerInit == considered = {} /\ granted = {} /\ paid = {} /\ abandoned = {}

\* A claim is considered once, for a key that has no grant.
Consider(c, k) ==
    /\ \A g \in granted : g[1] # c /\ g[2] # k
    /\ \A o \in considered : o[1] # c
    /\ considered' = considered \cup {<<c, k>>}
    /\ UNCHANGED <<granted, paid, abandoned>>

\* A claim under consideration is granted, and may be abandoned in the same breath.
Grant(new) ==
    /\ <<new[1], new[2]>> \in considered
    /\ \A g \in granted : g[1] # new[1]
    /\ considered' = considered \ {<<new[1], new[2]>>}
    /\ granted' = granted \cup {new}
    /\ abandoned' \in {abandoned, abandoned \cup {new}}
    /\ UNCHANGED paid

\* A grant that is not abandoned is paid, once.
Pay(g) ==
    /\ g \in granted \ (paid \cup abandoned)
    /\ paid' = paid \cup {g}
    /\ UNCHANGED <<considered, granted, abandoned>>

\* Claims lapse and grants are abandoned, one or, in a restart, many.
GiveUpOn(open, unpaid) ==
    /\ considered' = considered \ open
    /\ abandoned' = abandoned \cup unpaid
    /\ UNCHANGED <<granted, paid>>

\* A claim under consideration is decided, one way or the other.
Decide(c, k) ==
    /\ <<c, k>> \in considered
    /\ (\E d \in LedgerDetails : Grant(<<c, k, d>>)) \/ GiveUpOn({<<c, k>>}, {})

LedgerNext ==
    \/ \E c \in LedgerClaims, k \in LedgerKeys : Consider(c, k)
    \/ \E g \in LedgerGrants : Grant(g) \/ Pay(g)
    \/ \E open \in SUBSET considered, unpaid \in SUBSET (granted \ paid) : GiveUpOn(open, unpaid)

LedgerSpec == LedgerInit /\ [][LedgerNext]_ledgerVars

\* What is considered does not stay undecided, and a grant that is not abandoned
\* does not stay unpaid.
LedgerFairSpec ==
    /\ LedgerSpec
    /\ \A c \in LedgerClaims, k \in LedgerKeys : WF_ledgerVars(Decide(c, k))
    /\ \A g \in LedgerGrants : WF_ledgerVars(Pay(g))

=============================================================================
