---------------------------- MODULE AtomicCatalog ----------------------------
(***************************************************************************)
(* What the catalogue of event-server promises its operators, apart from   *)
(* how its handlers await the database: a call takes effect at one moment  *)
(* and once, what it is answered was true at that moment, and a reward     *)
(* only ever gets under an event that is there.                            *)
(***************************************************************************)
CONSTANTS EventIds, RewardIds,     \* the ids of events and of rewards
          EventDocs, RewardDocs,   \* the documents they may have
          CatalogCalls,            \* the calls of the operators
          Null,                    \* a reward that names no event
          NoDoc                    \* no document has this id

VARIABLES events, rewards,   \* the two collections, by id
          answer             \* the HTTP status of each call, 0 before it has one

atomicVars == <<events, rewards, answer>>

AtomicInit ==
    /\ events \in [EventIds -> EventDocs \cup {NoDoc}]
    /\ rewards \in [RewardIds -> RewardDocs \cup {NoDoc}]
    /\ answer = [a \in CatalogCalls |-> 0]

\* The call a, which has not been answered, is.
Answered(a, statuses) ==
    /\ answer[a] = 0
    /\ \E status \in statuses : answer' = [answer EXCEPT ![a] = status]

\* A document may name this event now.
Named(e) == e # Null /\ events[e] # NoDoc

\* An event appears, or what it says changes.
StoreEvent(e) ==
    /\ \E doc \in EventDocs : events' = [events EXCEPT ![e] = doc]
    /\ UNCHANGED rewards

\* A reward appears under an event.
StoreReward(r) ==
    /\ rewards[r] = NoDoc
    /\ \E doc \in RewardDocs : Named(doc.eventId) /\ rewards' = [rewards EXCEPT ![r] = doc]
    /\ UNCHANGED events

\* A reward changes, under its event, under another one or under none.
ChangeReward(r) ==
    /\ rewards[r] # NoDoc
    /\ \E doc \in RewardDocs :
          /\ doc.eventId \in {Null, rewards[r].eventId} \/ Named(doc.eventId)
          /\ rewards' = [rewards EXCEPT ![r] = doc]
    /\ UNCHANGED events

\* Something a call could have named is not there.
Missing == (\E e \in EventIds : events[e] = NoDoc) \/ (\E r \in RewardIds : rewards[r] = NoDoc)

\* An answer of 500 tells nothing of what has been done.
AtomicNext ==
    \E a \in CatalogCalls :
        \/ /\ Answered(a, {201, 500})
           /\ \/ \E e \in EventIds : events[e] = NoDoc /\ StoreEvent(e)
              \/ \E r \in RewardIds : StoreReward(r)
        \/ /\ Answered(a, {200, 500})
           /\ \/ \E e \in EventIds : events[e] # NoDoc /\ StoreEvent(e)
              \/ \E r \in RewardIds : ChangeReward(r)
        \/ Answered(a, {404}) /\ Missing /\ UNCHANGED <<events, rewards>>
        \/ Answered(a, {500}) /\ UNCHANGED <<events, rewards>>

AtomicSpec == AtomicInit /\ [][AtomicNext]_atomicVars

=============================================================================
