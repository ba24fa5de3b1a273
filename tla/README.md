# Event rewards: specification, model checking and proofs

This directory keeps the TLA+ specifications of the event-reward system of this
repository, the TLC configurations that check them on small instances, and the
theorems about them that TLAPS has checked for every instance. `PROJECT.json` lists
the runs, the theorems, and for every definition the lines of code it stands for.
Paths below are relative to `src/`.

The subject is a NestJS system of three servers. A client talks to the **gateway**
only; the gateway authenticates the call, looks up the service and the roles for its
path and forwards it over HTTP. The **auth server** keeps users and issues tokens. The
**event server** keeps events, the rewards that belong to them, and the users' claims
on those rewards. Each server has a MongoDB database of its own, reached through
Mongoose; no operation uses a transaction. Node runs one continuation at a time, so
within a server requests interleave exactly at the awaits.

## 1. Inventory

| Component | State | Operations | Interacts with |
|---|---|---|---|
| Reward claims (`event-server/src/reward-claim`, `schema/reward-claim.schema.ts`) | collection of claims; the unique partial index declared for it is refused by MongoDB | `createClaim` (writes); `findMyClaimsByUserId`, `findAllClaimsForAdmin`, `findClaimById` (read) | reads events and rewards through their services |
| Events (`event-server/src/event`, `schema/event.schema.ts`, `main.ts`) | collection of events | `create`, `update` (write); `findAll`, `findOne`, `findActiveEventById`, `checkEventCondition` (read) | used by rewards and claims |
| Rewards (`event-server/src/reward`, `schema/reward.schema.ts`) | collection of rewards | `create`, `update` (write); `findAll`, `findOne` (read) | looks events up before it writes |
| Event server's guards (`event-server/src/gateway`, `common/guards`) | none | user and roles from the gateway's headers, roles against the handler's `@Roles` | the gateway's headers |
| Gateway registry (`gateway-server/src/service-registry`) | the service list, loaded once at start | `findServiceAndPermissionForRequest` | guards and proxy |
| Gateway guards (`gateway-server/src/jwt-auth`, `role-auth`) | none | token verification, role test | registry, auth server's tokens |
| Gateway proxy (`gateway-server/src/proxy`) | the HTTP calls in flight | forward, time out, relay or translate an error | both servers |
| Users (`auth-server/src/user`, `schema/user.schema.ts`) | collection of users, unique index on the name | `onModuleInit` (default accounts), `create`, `assignRoles` (write); lookups (read) | guards of the auth server |
| Login (`auth-server/src/auth`) | none; tokens live at the clients for an hour | `validateUserCredentials`, `createJwt` | users |
| Health, module wiring, packaging | none | constant answers, declarations | |

What is hard, and what makes each component correct:

* **Claims.** One claim takes four or five database calls with other requests between
  any two of them. The check for an existing claim and the insert are two calls; the
  event and the reward are read before they are used; approving and paying are two
  saves; an error or a restart may come between any of them, or after a write was
  carried out and before it was acknowledged. The clock is read before the event is
  queried, and the version that is found may be a later one. The unique index that was to
  close the gap between check and insert does not exist. Correct means: no claim granted
  to a request that comes after a grant of the same; a claim decided on one version of
  its event and recording its event's reward; an answer that is true of the collection;
  no claim that stays approved behind the caller's back; an answer to every request.
* **Events and rewards.** A reward is written after its event was looked up. Correct
  means that every reward belongs to an event, and that what an operator sends is what
  the event keeps.
* **Gateway.** Guards and proxy look the path up independently; the forwarded call may
  fail, time out or be answered late, and four places answer the client. Correct means:
  exactly one answer per request, a call reaches a service only with a role the registry
  names, a documented role does reach it and is let in by the handler.
* **Users and login.** Registration looks a name up and inserts it later; role
  assignment reads, changes and saves; start-up creates accounts one by one, may be cut
  off between them, and ends the process when a database call of it fails. Logins and
  assignments take bodies that nothing validates. Tokens keep old roles. Correct means: one account per name, the
  default accounts on every server that listens, answers that are true, no assignment
  lost to one that has not seen it, a documented status for each conflict.
* **Listings of claims.** A listing is three queries, one for the claims and two that
  fill in their events and rewards, with claims made and paid between them. Correct
  means: what a row shows stays true, it has its event and reward, and whoever was told
  what became of a claim finds the same.
* **End to end.** The gateway's timeout and the client's repetition put two requests of
  one claim into the event server at once. Correct means that what the client is told
  is true of both, and that nothing is granted twice; the code keeps the first, and the
  second only where the gateway did not give the first request up.

The list of hazards, each with its line and the properties that watch it, is in
`PROJECT.json`.

## 2. What is modelled

| Module | Stands for |
|---|---|
| `EventCatalog` | `EventService` and `RewardService`, the validated bodies they get, and the operators' calls |
| `RewardClaim` | `createClaim` on top of that catalogue, with the clock, database errors and restarts |
| `RewardClaimHistory` | `RewardClaim` with history variables, for promises that compare a claim with earlier states |
| `ClaimLedger` | abstractly, what claims promise: claims considered while their key has no grant, then granted, paid at most once or abandoned |
| `AtomicCatalog` | abstractly, what the catalogue promises its operators: each call takes effect once, at one moment |
| `ClaimQueries` | `RewardClaim` with the listings of claims beside it |
| `RewardSystem` | `RewardClaim` behind the gateway, for a client that asks again; with `Gateway` by refinement |
| `AuthUsers` | `UserService` and `AuthService` over the users collection, and the start of the auth server |
| `GatewayRoutes` | the gateway's registry and its lookup, and the `@Roles` of the services' handlers |
| `Gateway` | a call through the gateway: guards, forwarded request, service, answer |
| `MCEventCatalog`, `MCRewardClaim`, `MCRewardClaimHistory`, `MCClaimQueries`, `MCRewardSystem`, `MCAuthUsers`, `MCGateway` | small instances of them for TLC |
| `EventCatalogProofs`, `RewardClaimProofs`, `RewardClaimHistoryProofs`, `ClaimQueriesProofs`, `RewardSystemProofs`, `UndisturbedProofs`, `AuthUsersProofs`, `GatewayProofs` | theorems and proofs |

**EventCatalog.** `events` and `rewards` are the collections, functions from ids to
documents or `NoDoc`; a document keeps the fields the code decides on (status, the
active flag, the period, the condition; the reward's event and its contents) and drops
names and descriptions. Each operator call `a` has a program counter `adminPc[a]`, its
arguments and the status it answered. `POST /events` and `PUT /events/:id` make one
database call and are one action each (`CreateEvent`, `UpdateEvent`); `POST /rewards`
and a `PUT /rewards/:id` that names an event make two and are two
(`CheckRewardEvent`/`SaveReward`, `StartRewardUpdate`/`FinishRewardUpdate`). `NewEvent`
fills in the schema's defaults, `UpdatedEvent` and `UpdatedReward` set the fields a body
has, `Whitelisted` is what the validation pipe leaves of a condition. A write may be
carried out and reported as an error (`AnswerWritten`), a call may fail with nothing
done (`CatalogDbError`), and a restart loses the calls in flight (`CatalogCrash`). No
handler deletes a document. Ids in bodies are well formed, as the DTOs require. Those in
the paths of `PUT /events/:id` and `PUT /rewards/:id` are validated by nothing: a malformed
one fails to be cast when the update is issued, the caller is answered 500 and nothing
has changed, which is what `CatalogDbError` does, for a reward after its lookup of the
event or without one.

`AtomicCatalog` has the same collections and the statuses answered, and neither program
counters nor lookups: an event appears or changes, a reward appears under an event that
is there at that very moment or changes, each with the call's answer in the same step.
`ImplementsAtomicCatalog` is the refinement, under the mapping of each collection to
itself. A reward whose event was looked up two steps ago implements it, because events
never go. Answers of 500 are free there, since the acknowledgement of a write may be lost.

Fields of a body may be left out (`Undefined`) or, in an update, be `Null`:
`PartialType` makes each field optional, which lets null pass every validator, and
updates run no validators of the schema. A null date is replaced by `undefined` in
`EventService.update` and changes nothing (`DateOrElse`); a null condition, status or
event of a reward is stored, and a claim that meets the first or the last of them is
answered 500 (`FindExistingClaim`, `FindReward`).

**RewardClaim.** `claims` maps each request to the document it inserted, if any: a
request inserts at most one, so no other identity is needed. `pc[q]` is the await at
which request `q` waits, and the action of that name gets the result and runs to the
next await:

| Action | Code in `reward-claim.service.ts` |
|---|---|
| `Submit` | the controller's handler and the ids, 60-69, and the instant `findActiveEventById` takes before its query (`event.service.ts:98`), kept in `sampled` |
| `FindActiveEvent` | the event as the database has it then, tested against that instant, or 404, 69-72 |
| `FindReward` | the reward, of that event, or 404, 74-77 |
| `FindExistingClaim` | the duplicate check and the condition, which awaits nothing real, 79-91 |
| `SaveRejected` | the rejected claim and 400, 92-102 |
| `SaveApproved` | the first save, 105-117; its E11000 branch, 123-125, needs an index and is never taken |
| `SavePaid` | the second save and 201, 118-121 |
| `ReadFails`, `WriteFails` | a rejected query or save and 500, 122-128; a save may have been carried out |
| `Reply` | the response leaves the server |

`Crash` restarts the server: requests in flight are lost, what is stored stays.
`Tick` moves the clock. `OperatorStep` is any step of the catalogue; it and `Tick` may
come between a request's instant and its query. There is no index in the model because
there is none in the program: MongoDB refuses a partial filter that uses `$ne`
(`reward-claim.schema.ts:35`), whether or not there are duplicates, Mongoose asks for it
in the background and nothing reads the error.

**ClaimLedger** is what is left to promise without it. A claim is *considered* once, for
a key that has no grant at that moment (the duplicate check); a considered claim is
*granted* or lapses; a grant is *paid* once, or *abandoned* for good (its request failed
between the two saves). So a key may be granted twice, but only to claims that were both
considered before its first grant. `LedgerFairSpec` adds that what is considered is
decided and that a grant which is not abandoned is paid.

**RewardClaimHistory** adds to each request what was live when it arrived
(`heldOnArrival`), the versions its event and reward had while it read
(`activeSeen`, `rewardSeen`), and whether at some moment of that time what it asks for
was not to be had (`closedSeen`). "Active" and "to be had" mean at the request's own
instant, the one it took on arrival: a version that became active only afterwards counts
if its period covers that instant, and one whose period was moved away from it does not,
as in the code.

**ClaimQueries.** A listing `l` asks (`Ask`, for all claims, by user, event or status,
or for one id), finds its rows in one query (`Find`) and fills in the two references
of the rows, in either order (`Populate`); `ListFails` is any of the three rejecting,
and a restart (`CrashListings`) loses the listings with the requests. Of a row
`ClaimQueries` keeps the document and which of its references were found. `toldBefore`
remembers which requests had their answer when a listing was asked.

**RewardSystem** puts `RewardClaim` behind the gateway. A request is asked by the
client (`Ask`: guards and forwarding, for a caller with a valid token and the role
`USER`), reaches the event server at some later moment or never (`Arrive`), and is
answered by `Relay` when the event server has answered, or by `GiveUp` (503) at any
moment before: the timeout, or a broken connection. After either the event server goes
on by itself (`EventServerStep` knows nothing of `gate`). `RestartGateway` breaks the
clients' connections. Of the gateway's other ways to answer, a request that cannot be
made does not occur here, since `POST /reward-claims` can, and neither does an answer of the
event server that cannot be relayed; module `Gateway` has both. `Previous` says which request repeats which: the client repeats
what it learned nothing from, and no request is repeated before. `told` is what the
gateway has sent. The refinement mapping `TheGateway` sends each request to one of
module `Gateway`, its statuses to the classes that module has (`StatusClass`), and its
state at the event server to `work` (`WorkAt`).

**AuthUsers.** `users` is the collection, from ids to a name in lower case, a set of
roles and Mongoose's version. `server` is where `onModuleInit` is; calls come in once it
is `"up"`, because Nest listens after it. A database call of the start that fails rejects
`onModuleInit`, which nothing catches: the process is `"exited"` (`StartFails`) until
somebody starts it again (`Restart`), since the container has no restart policy. As in `RewardClaim` an action runs from one
database await to the next; the awaits of bcrypt look at no state and are inside one.

| Action | Code in `auth-server/src` |
|---|---|
| `FindAdmin`, `SaveAdmin`, `FindTest`, `SaveTest`, `StartFails` | the two default accounts, `user.service.ts` 28-65 |
| `Submit` | a login, where a name that is no string throws in `toLowerCase` (92), or a call that a token got through the gateway (`CallsWith`) |
| `Authorize` | `GatewayStrategy` and `RolesGuard`: the caller's roles in the database, not the token's |
| `FindSameName`, `SaveUser` | `create`, 67-88; E11000 is not caught |
| `FindAssignee`, `SaveRoles` | `assignRoles`, 107-117; roles that cannot be iterated (`NoList`) are a TypeError, once the user is found |
| `FindProfile`; `Authorize` for the own profile | `user.controller.ts` 42-70 |
| `FindCredentials`, `Sign` | login, `auth.service.ts` 18-41; bcrypt throws on a password that is no string, for an account that exists (`CompareFails`) |
| `CallFails`, `AcknowledgementLost`, `Restart`, `BuildUserIndex` | the world around it |

Roles are a set: `validateRoles` removes duplicates and their order is compared by
nothing but Mongoose, which may therefore write a document whose set is the same
(`SaveRoles` allows both). Whoever sets an array has its version matched by Mongoose
(`VersionRead`), which is why an assignment that overlaps another fails instead of
overwriting it.

**GatewayRoutes and Gateway.** A path is a sequence of segments; `Permission` compares
it with the registry's entries as the code does, literally, while `RouteOf` matches
parameters as Express does for the services' own routes (`HandlerOf`) and as a reader of
the documents does (`Documented`). The registry and the controllers' `@Roles`
(`UserController`, `EventController`, ...) are written down independently, as they are in
the code, so that a difference between the two shows. `Receive` is both guards up to the request being
forwarded, `GuardStatus` the status they refuse with. The service is a process of its
own: `Serve` may come before or after `GiveUp`, the timeout or broken connection, so the
gateway answers 503 for calls that are carried out all the same. `RelayError`, `GiveUp`
and `CannotRequest` are the three branches of `catchError`, which answers and rethrows;
`Relay` is an answer that comes back and `RelayFails` one that cannot be sent, where the
outer catch is what answers. All of these but `Relay` run through `Caught`, that catch. The roles in the caller's token and those in the database are
chosen independently, since roles may change while a token lives; `CallerRoles` says
which of the two a service tests. What a handler does with a call it lets in is its
outcome only: 200 for any success, 400 for what it turns away itself, 500.

## 3. Runs

All of them finish within about a minute. Deadlock is not checked: every behaviour ends when its
requests are answered.

| Run | Instance | Question | Result |
|---|---|---|---|
| `catalog` | 2 events, 2 rewards, 4 operator calls, restarts at any moment, empty database | Can a reward lose its event? Does the catalogue implement `AtomicCatalog!AtomicSpec`? Types. | holds |
| `claims_history` | 2 events, 1 reward, 2 requests of one user, 1 operator call, 2 dates, 1 restart, 1 database error | Is a key granted again after a grant? Is a claim decided on one version of its event, with its event's reward? Has every 404 and every 500 a reason? Do claims refer to documents that exist, and only advance? Do they implement `ClaimLedger!LedgerSpec`? | holds |
| `claims_listed` | 2 events, 2 rewards, 2 requests of one user, 1 listing by any of 6 filters, 1 restart, 1 database error | Is every answer true, and found in later listings? Who can leave a claim approved? Does a listing stay true? | holds |
| `claims_end_to_end` | 2 requests for one key, the second a repetition, 1 restart of each server, 1 database error, fairness | Is what a client is told true? Is it granted a claim twice only after the gateway gave the first request up? Do client, gateway and claims implement `Gateway!GatewaySpec` and `ClaimLedger!LedgerFairSpec`? Does every call and every request end, and no claim stay approved in silence? | holds |
| `duplicate_claims` | a request and its repetition after the gateway's timeout, nothing fails | "prevents duplicate requests" (`reward-claim.schema.ts:33`) | **violated** |
| `unpaid_claims` | 2 requests, 1 database error, fairness | "`APPROVED`, then at once `PAID`" (`README.md:58`) | **violated** |
| `condition_params` | as `catalog` | conditions carry parameters (`README.md:218`) | **violated** |
| `auth_users` | 3 names, one in two spellings, 3 calls, 4 ids, 1 restart, 1 database error, empty database, fairness | Are names unique once indexed? Do the default accounts exist? Are answers true? Has every 500 a reason? Is an assignment ever overwritten unread? Does every call end, and every start listen or exit over an error? | holds |
| `taken_name` | 3 calls, nothing fails | "409 Conflict" for a name in use (`README.md:172`) | **violated** |
| `invalid_roles` | 3 calls, nothing fails | "400 Bad Request" for invalid roles (`README.md:203`) | **violated** |
| `gateway` | 1 request: any documented call or three stray ones, any token, 5 sets of roles in it and in the database, 1 restart, fairness | One answer? Success only of what was carried out? Nothing carried out or forwarded without a role, nobody refused without a reason, by the gateway or by a handler? Is every forwarded call answered? | holds |
| `documented_paths` | as `gateway` | the roles of `GET /events/:id` (`README.md:237`) | **violated** |

**The six violations** are disagreements between the repository's documents and its
code, met while modelling it. *duplicate_claims*: a client repeats its claim after the gateway's
503, the first request still runs, both find no claim, both insert one, which no index
stops, and both end as paid. *unpaid_claims*: an error of the second
save leaves the claim approved; no code comes back to it, and a retry finds it and is
refused with 409. *condition_params*: the condition's DTO declares `type` alone, so the
whitelisting pipe strips `days`, `count` and `questId`. *taken_name*: of two registrations
that overlap, the second save meets the index and its E11000 becomes 500.
*invalid_roles*: the roles of an assignment have no DTO, and `validateRoles` loops over
whatever the body has, so a body without them, or with a number, is answered 500.
*documented_paths*: an entry with `:id` equals no concrete path, so its service's default,
`ADMIN`, applies to operators and auditors too.

A smaller one is in the model without a run of its own: the gateway lets every role ask
for its profile, as `README.md:176` has it, while the handler is `@Roles(USER, ADMIN)`
(`user.controller.ts:42`) and turns operators and auditors away. `RefusedWithReason`
names this path as the one exception to what it says of the handlers' roles.

**Bounds.** Two requests are what a race needs, and the second of them may come after
the first, after an error of it or after a restart; that a third adds nothing to the
safety properties is what the theorems say, which hold for any number. One listing is
enough, since listings neither write nor meet each other. One
operator call is enough for the event or the reward to change between any two steps of
a claim: the bodies of `MCRewardClaim` end an event, switch its condition either way,
prolong it, move the reward to the other event and change its contents. Of the two events
one is open on the first of the two dates and one on the second with a condition nobody
meets, so granted, rejected and late claims all occur; one of the bodies stores a null
condition and one takes a reward's event away. `MaxCrashes` and `MaxDbFaults`
bound restarts and errors to one each in a behaviour; one of either, at every place and
together, covers an error before a restart and a restart before an error. Two dates let the clock, the operator or both
move between a request's instant and its query. The theorems
do not depend on any of these bounds. `auth_users` needs a login before an administrator
can call at all; two further calls race: registrations under one name, assignments to
one user or to the administrator who calls, or a login with either. Requests
at the gateway share nothing but the restart, so one at a time is enough for what
concerns an answer; `gateway` takes every call there is instead. `claims_end_to_end` has
one restart of the gateway and one of the event server, so that each may lose what the
other still has.

**Symmetry** is used for requests, users, rewards and events only where the instance
does not tell them apart, and in no run with a liveness property.

**Fairness.** `FairSpec` assumes weak fairness of each request's own steps: Node runs
every continuation whose await has settled, and the driver settles every call it was
given, with a result or an error. Nothing assumes that a user submits a request, that
an operator acts or that time passes. That errors happen is
never assumed either; `ReadFails` and `WriteFails` are outside the fair actions.
`AuthFairSpec` assumes the same of the start and of each call of the auth server, and of
nothing else: not even the index is needed to listen, and nobody has to start a server
again that has exited. `GatewayFairSpec` assumes only that
the timer of a forwarded call fires (`proxy.controller.ts:64`); a service may stay silent.
`SystemFairSpec` assumes both, the steps of a request that has arrived and the timer of
one that was forwarded, and neither that a client asks nor that a forwarded request
arrives. `UndisturbedSpec` has the fairness of `FairSpec` and leaves errors and restarts
out; it is proved about and no run needs it, since `LedgerFairSpec` lets a grant be
abandoned when its request fails, and only then.

**Mutants.** Each property of a passing run is paired with a plausible slip of the code
that it catches: the slips are the definitions marked "Slip", and
the section "Slips" of `RewardClaim`. No action uses them.

## 4. Theorems

All are about the modules as they are, with the constants unconstrained but for the
assumptions the modules name (`CatalogAssumption`, `ClaimAssumption`,
`QueryAssumption`, `SystemAssumption`, `AuthAssumption`, `GatewayAssumption`): the
sets have the types the schemas and DTOs give them, paths are sequences of segments,
markers such as `NoDoc` are no documents, an initial reward has an event, names are in
lower case after `toLowerCase`. TLC evaluates them on every run.

* `EventCatalogProofs` proves `CatalogTypeOK` and `RewardsBelongToEvents`. The second
  is not inductive by itself: a call between its lookup and its write must still find
  its event there. `PendingRewardsBelongToEvents` says so, and holds because an event,
  once stored, is never removed (`EventsStay`). The same invariant, with the fact that a
  call has no answer before it is done (`AtomicInv`), proves the refinement of
  `AtomicCatalog` (`CatalogIsAtomic`), one case per action: the lookups are stutters,
  and each write or refusal is the step that takes effect.
* `RewardClaimProofs` rests on `ClaimInv`: `TypeOK`; for each request, what it has read
  and stored at each step (`Progress`: no document before the save, an approved one
  between the two saves); and the status and key of what it stored (`Stored`). The
  step lemma first narrows
  every change of `claims` to three writes (`RequestWrites`), then treats one request's
  steps and everybody else's separately (`OthersUntouched`).
  From it: `TypeCorrect`, `ClaimsAdvance` (`[][...]_vars`), and with `AnswerInv` on top,
  `AnswersAreTrue` and `ApprovedAccounted`: a 409 stays true because a live claim
  stays live (`LiveStays`).
* `ClaimsImplementLedger` proves that every step of `RewardClaim` is a step of
  `ClaimLedger` or a stutter, under the mapping `considered <- Considered`,
  `granted <- Granted`, `paid <- Paid`, `abandoned <- Abandoned`, with no assumption on
  the database: a passed duplicate check is `Consider`, the first save is `Grant` (one
  that is carried out and reported as an error abandons the grant at once), the second is
  `Pay`, and errors and restarts are `GiveUpOn`.
* `ClaimsKeepCatalogue` shows that every step of `RewardClaim` is one of the catalogue
  or leaves it alone, so the refinement of `AtomicCatalog` holds below the claims
  (`ClaimsKeepCatalogueAtomic`) and behind the gateway (`SystemCatalogueIsAtomic`).
* `RewardClaimHistoryProofs` proves the three properties of the history: nobody who
  arrives after a grant is granted the same again (`NeverGrantedAgain`); a claim is
  decided on one version of its event, active at the request's instant
  (`OneVersionDecides`) and records the reward of its event (`RewardOfEventRecorded`).
  The invariant says that what a request has read is among what it saw. With it,
  404 always has a reason (`NotFoundReasoned`).
* `RewardClaimProofs` has two more on top of `ClaimInv`: `ErrorsExplained` (a 500 needs
  a failed database call or a null that was read) and `ClaimsRefer` (the event and the
  reward a request has read are still there, since neither is ever removed).
* `ClaimQueriesProofs` first shows that claims beside listings are a behaviour of
  `RewardClaim` (`QueryClaims`), which carries all of the above over. `QueryInv` adds
  what is known of a listing: its rows hold, but for payments (`RowsInv`: rows come from
  the query, and one that waits for no reference has them all), and explain the answers
  given before it (`ToldInv`). `ListingStays` is the one lemma for every step that is
  not the listing's own: `ClaimsAdvance` keeps its rows, `AnswersAreTrue` its answers.
* `RewardSystemProofs` does the same for the gateway's side: `SystemClaims`, then
  `WholeInv`, which relates `gate` and `told` to where the request is at the event
  server (nothing there before `Ask`, nothing told while forwarded, a relayed status is
  the response). From it `ToldIsTrue` and the refinement of `Gateway`
  (`SystemImplementsGateway`), one case per action: `Arrive` and the steps on the way
  are stutters of `Gateway`, the last one is its `Serve`. The ledger's theorem is
  carried over by `SystemClaims`. `TwiceOnlyIfGivenUp` bounds what `duplicate_claims`
  finds: `RepeatInv` says of a request and its repetition that, unless the gateway gave
  the first one up, it had stored what it ever stores before the second was asked, so
  that the second one's duplicate check sees it.
* `UndisturbedProofs` proves what the liveness properties of claims say apart from
  fairness. `StepsLeft` counts the steps a request has before it:
  `RequestsOnlyAdvance` says that nothing ever raises it and each step of the request
  lowers it, so only a request that is not run at all fails to end. Under
  `UndisturbedSpec` a claim is approved
  and unpaid only while its request is about to pay it (`ApprovedAwaitsPayment`), so no
  grant is ever abandoned, and
  what `ImplementsFairLedger` adds to `UndisturbedLedger` is that this one save is
  made. Its invariant, `CalmInv`, says that no error has occurred, no request is lost, and
  one answered 500 has left no claim.
* `AuthUsersProofs` rests on `AuthInv`: the types, what a call has read and been
  answered at each step (`CallInv`), what the start has done at each step (`StartInv`:
  no call is in flight before the server is up, an account that is about to be made is
  not there), and distinct names under the index. Accounts are never removed or renamed
  (so answers stay true), an insert under the index meets no account of that name, and
  roles are set only by a save whose version matched (`NoLostRoles`). Versions only
  grow, so an assignment that another one overtook stays overtaken, which is why the
  reason of a 500 is still there later (`FailuresExplained`). `OnceIndexedOneAccount` and
  `StartAndCallsAdvance` say that names are distinct for good once the index exists, which
  here is a plain unique one that MongoDB accepts, and that a start and calls only
  advance, a start that fails ending in `"exited"`.
* `GatewayProofs` rests on `GatewayInv`: nothing has been sent while a call is
  forwarded, work is under way only for calls that passed `GuardStatus`, and an outcome
  of 200 is of work that was carried out. Which roles that takes is settled by going
  through the registry's and the handlers' entries (`Permission`, `HandlerOf`,
  `Documented`), for any path. `RefusalsHaveReasons` is the other direction: an entry
  that equals the path is the one the lookup finds (`OwnEntryIsFound`), no public route
  has a parameter (`PublicRoutes`), so a refusal is due to the caller's roles or to a
  path that has no entry of its own. For the handlers, `TablesAgree` compares the two
  tables of routes: a role the registry names is one of the handler's, but for the own
  profile.

Model-checked only: what needs fairness (`EveryRequestEnds`, `ApprovedSettles`,
`EveryAskEnds`, `EveryForwardedCallEnds`, `EveryCallEnds`, `ServerComesUp`,
`ImplementsFairLedger`), since TLAPS does not prove formulas with `ENABLED`. Of
`EveryRequestEnds`, `EveryCallEnds` and `ServerComesUp` the part that is about the code is
proved (`RequestsOnlyAdvance`, `StartAndCallsAdvance`); that a step which can be taken is
taken stays with TLC.

## 5. Plan

Done, in this order: the catalogue, the claims, their history, the ledger, and the
proofs of all of their safety properties; users and login, the registry and the
gateway; nulls of the catalogue; listings; the whole system behind the gateway; and the
proofs of every safety property of all of them; then the catalogue as its operators see
it, what refuses and what fails in terms of its reasons, and the safety that the liveness
properties rest on. What could come next:

1. Access: a session that uses one token against both servers while an administrator
   takes its role away, as a composition of `AuthUsers` and `Gateway`, with the hour a
   token lives.
2. Listings of events and rewards, which populate an event's rewards by a second query.

## 6. Not modelled

How long a token lives, which at the gateway is a token valid or expired at any time,
and its signature. The listings of events and rewards (`findAll`), which change no state;
of the listings of claims their order (`createdAt`), and that a query reads a collection
over some time rather than at one moment. Nulls in a `POST` body:
only `status` and `isActive` may be null there, and an update gets an event into the same
state. How Mongoose casts an id given as a string
when a reward is moved to another event: it is taken to be the id. Bodies and headers the gateway passes on, other than the caller's roles. What `claimedRewardDetails` and
`notes` say beyond which contents of the reward were recorded. The actual granting of
points and items, and the actual test of a condition: the code does neither
(`README.md:57`, `:59`). Password hashing, logging, health endpoints, configuration,
containers. Two auth servers that start together over one database: `docker-compose.yml`
runs one of each. Bodies that the validation turns away, and ids in paths and queries of the listings
and in the bodies of claims that are not ObjectIds: those are answered with 400 or 404
before any state is read (the ids in the paths of updates are not, see EventCatalog).
