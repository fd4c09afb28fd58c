# Verified models of WorkersFoodClub

TLA+ models of the parts of this repository that keep money, goods and
authority right while requests race, retry and die. TLC checks the models on
small instances; TLAPS proves the central safety properties for every value of
the constants. Everything is translated from the code; where a document, comment
or evidence file says something the code does not keep, a property states it and
a counterexample shows the behaviour.

- [The system](#the-system)
- [The modules](#the-modules)
- [Runs](#runs)
- [Disagreements between text and code](#disagreements-between-text-and-code)
- [Fairness](#fairness)
- [Proofs](#proofs)
- [Abstractions](#abstractions)
- [Not modelled](#not-modelled)
- [Plan](#plan)

## The system

The application is a set of stateless serverless handlers (`api/*.js`, Vercel)
over one PostgreSQL database reached through Neon's HTTP driver, TypeScript
packages with the domain rules (`packages/`), and SQL migrations with tables,
constraints and a few stored functions (`packages/durability/sql/`). Handlers
share nothing but the database. There are three styles of persistence, and they
fail in three different ways:

1. **one large statement** in READ COMMITTED (the order requests): atomic, but it
   mixes a snapshot with rows that are re-read after a lock wait;
2. **several autocommitted statements** (authority, enrolment, release codes): each
   is atomic, the request is not;
3. **SERIALIZABLE transactions with retries** (the durable command store): atomic,
   but the answer may be lost, and process memory is not rolled back.

| Component | State | Operations | Hard behaviour | What makes it correct |
|---|---|---|---|---|
| Payment policy `lib/qualified-demand-policy.js`, SQL CASEs | none | tier of a paid total; split of paid value at the deadline | integer rounding, in two languages | both forms agree; value is conserved; paying more never hurts |
| Order requests `api/commit-sandbox.js`, `pay-sandbox.js`, `process-payment-deadlines.js`, `fulfillment-plan-schedule.js`, `fulfillment-ready.js`, `accept-fulfillment.js`, `authorize-refund.js`, `complete-refund.js`, `catalog-offers.js` | offer, commitment, payments, prepaid ledger, plan, fulfilment, exception, remedy, version, event log, idempotency keys | commit, pay, deadline, schedule, ready, accept, authorize refund, complete refund, edit offer | overlapping statements, stale totals, repeated requests, offer edits under open orders | a gapless log that tells the rows; one effect per request id; the deadline decides once; no refund that was not paid in |
| Durable command store `packages/durability/src/postgres.ts` | command rows with lease, owner and fence; in-memory fences; events; versions | claim, replay, commit, abandon, domain commit | crash between claim and commit, lease takeover, lost answers, rollback after memory was written | one outcome per key and per command; answers agree; a stale holder cannot commit; nobody waits for ever |
| Authority `api/owner-bootstrap.js`, `authority-*.js`, `employee-session*.js`, `packages/authority/src/hierarchy.ts` | participants, identity bindings, grants, invitations, sessions | bootstrap, mint, lock, invite, cancel, redeem, revoke | crash or interference between any two statements, stale authority | authority is rooted in Owners; one live grant per invitation; nobody revokes above their tier |
| Membership enrolment `api/enrollment-*.js`, `membership-*.js`, `sql/031`–`033` | applications, challenges with attempts and sends, memberships, sessions | apply, decide, resend, verify, replay, delivery failure | verification racing decision, codes and answers that cross | a membership is earned once and never lost; a code decides once |
| Subscription and renewal `api/membership-*-sandbox.js`, `membership-renewal-cron.js`, `sql/035`–`038` | invoices, evidence, standing, sponsorship | bill, pay, settle, grace, restrict, sponsor, end | a three-phase job that overlaps itself and payments, and dies | money and invoices agree; a payment stands; standing is bought; overdue has consequences |
| Communications outbox `packages/communications` | preferences, consents, messages with leases, receipts | change preferences, produce, claim, send, mark, receive | two dispatchers, lease expiry, failure after the send | duplicates only for a reason on record; consent for every message |
| Pilot operations `packages/pilot-operations` | requests by id, audit records | mutate, recover, probe | reused ids, a mutation that fails after its effect, recoveries of recoveries | an effect at most once, authorised; the audit tells the requests |
| Command bus and checkout `packages/application`, `pilot-checkout`, `demand`, `authority` | proofs by key and by command, carts, spent authorisations, commitments | execute, open, change, check out | every `await` lets another execution or checkout in | one proof per key; nothing is bought twice |
| Inventory, fulfilment, remedies `packages/inventory`, `lineage`, `fulfillment`, `remedy`, `resolution`, `transfer`, `pilot-*` | lots, allocations, handovers, acceptances, exceptions, remedies, resolution ledger | receive, transform, allocate, release, pick, hand over, accept, record, promise, complete | long sequences over ledgers that do not know each other | goods are conserved; nothing is resolved twice; title follows acceptance |
| Browser `public/auth.js`, `governed-fetch-extension.js`, `employee.js`, `member-auth.js` | session, levels, lent authority; armed actions; member session and unpaid request ids | sign in, sign out, expire, elevate, click, mint, check status, pay | everything that happens between a request and its answer | a session is one credential's; a click is spent once; an invoice is paid under one request |
| Lineage store `packages/durability/src/lineage.ts` | edges | insert under SERIALIZABLE | two edges closing a cycle | acyclic |
| Member sign-in, workforce, support, promotions, release codes | challenges, tasks, cases, codes | single statements | attempt limits | a code is used once |

Interaction: order requests and the command store share the tables
`durable_command_execution`, `aggregate_version` and `canonical_event`; authority
gates operator requests through `lib/application-principal-binding.js`, which only
reads; membership gates commits and sign-in; enrolment creates the membership that
renewal then bills; the bus runs consequential commands through the command store.
A request that fails authentication has no effect and is the absence of a request in
the models. All components, modelled or not, are listed in `PROJECT.json`.

## The modules

```
OrderPolicy ── OrderPolicyCheck                 (arithmetic)
     │                └──────────────┐
   Orders ─── OrderProperties ─── OrdersProofs
                   │    └─ MCOrders
                   └─ INSTANCE ObligationLifecycle
DurableCommands ── DurableProperties ── MCDurable
                        │     └─ INSTANCE ExactlyOnce
                        └─ DurableProofs
Authority ── AuthorityProperties ── MCAuthority
                    └─ AuthorityProofs
Membership ── MembershipProperties ── MCMembership
                    └─ MembershipProofs
Enrolment ── EnrolmentProperties ── MCEnrolment
                    └─ EnrolmentProofs
Outbox ── OutboxProperties ── MCOutbox
             │      └─ INSTANCE MessageLifecycle
             └─ OutboxProofs
PilotOperations ── MCPilot ── INSTANCE PilotCheckout
                      └─ PilotProofs
PilotFulfillment ── PilotFulfillmentProperties ── MCPilotFulfillment
                             └─ PilotProofs
WebSession ── WebPages ── INSTANCE EmployeePage, MemberPage
                 └─ WebProofs
```

**OrderPolicy** holds the tier and disposition arithmetic twice: as the JavaScript
functions compute it (rounded-up required amounts) and as the SQL of the handlers
does (cross-multiplication, `floor`).

**Orders** has one variable per table and two derived sums (`allocated`, `paid`) the
statements compute by subquery. A statement whose outcome depends on rows it does
not lock is two actions: `BeginX` takes the snapshot (and makes the handler's
preceding reads and refusals), `XApply` re-reads the locked row and writes. A
statement that depends only on the rows it locks is one action (`AcceptFulfillment`,
`CompleteRefund`, `SchedulePlan`, `EditOffer`). `RefuseCall` is the statement that
writes nothing: a condition no longer holds, a unique key is taken, or the answer is
replayed. `AbandonCall` is a request that ends before its statement.
`DeadlinePasses` is the clock. `ObligationLifecycle` is the abstract promise to the
member (phases, one disposition, one refund); `OrderProperties!Lifecycle` reads its
state off the tables.

**DurableCommands** models both classes of `postgres.ts`. Every transaction is one
action with three outcomes: acknowledged, rolled back, committed with a lost answer.
`activeFences` is process memory, written before the transaction ends. `ExactlyOnce`
is the promise; the refinement mapping reads outcomes off committed rows and effects
off the event log. `holder` is a history field used by properties only.

**Authority** has one action per SQL statement; what a request remembers between
statements is its record in `calls`. Ids drawn with `randomUUID()` are named by the
drawing call, so a grant's id says who made it. `Die` ends a request anywhere and
leaves what it wrote. `BindConflict` is the unique violation on (issuer, subject),
which ends the handler after its grant is already stored.

**Membership** has the rows of the annual subscription: one invoice per member and
year, the evidence that pays it, the standing of the member. Each endpoint is one
transaction and one action; the daily job is four kinds of action per invocation
(`StartJob` reads the candidates, `BillNext` bills one of them, `FindOverdue` and
`GraceOverdue` are the snapshot and the write of one UPDATE, `RestrictLapsed` the
last), and `JobDies` ends an invocation between any two. The fee a job bills is the
one it read at its start. `DueDatePasses`, `GraceEnds` and `NewYear` are the clock.

**Enrolment** models the form, the reviewer, the one-time codes and
`verify_and_provision_enrollment`. A request that sends a code runs in steps, named by
its challenge (`at`): what the contact resolves to, the insertion, the delivery. A
verification is one transaction and one action, and may meet another verification, a
decision, a resend or the late news that the code was never delivered. The replay of an accepted code is the
branch of `033`, which hands out a token of its own.

**Outbox** models the producer, the preferences, the table with its leases and the
dispatcher of `postgres.ts`, whose claim, send and mark are separate actions of a
worker, so that a lease may run out in between. `provider` counts what an adapter
accepted and is never read by the code. `MessageLifecycle` is the state machine of
the in-memory service, which the rows are shown to live. The composition of that
service with the repository is written only in the repository's tests and
traceability document.

**PilotOperations** is the operations service: one action per public call, whole, as
nothing in it awaits; a mutation may fail after its effect. **PilotCheckout** splits
the command bus and the checkout at their awaits; commands executed for one key may
run their handlers side by side, as in the code. The two share no state; `MCPilot`
chooses in its initial state which one a behaviour is about.

**PilotFulfillment** composes inventory, lineage, fulfilment, remedies, the shared
resolution ledger and the evaluation of transfer, one action per call of the pilot
services with every call it makes on the packages below. The order history rebuilt
from the event stream is kept beside the ledger (`rows`). The sums the ledgers take over
their records are cardinalities: `SumOver(S, f)` counts the units of the items of `S`.
`MCPilotFulfillment` assumes, and TLC evaluates, that this is the fold that adds them up.

**WebSession**, **EmployeePage** and **MemberPage** are the three stateful pages of
the browser, one action per event handler up to its first `await`, and one per
answer. The endpoints are the environment: `StatusAnswers` is every membership answer
the script tells apart, `MayElevate` whether an elevation may be granted. `overlapped`
is a history variable that records that a sign-in overlapped another one or the end of
a session. **WebPages** is a tab, which shows one of them; the fetch extension is part
of `WebSession`.

Naming: SQL tables and columns and JavaScript functions keep their names where TLA+
allows it. Definitions called *Mutation* in a comment stand for plausible bugs; the
specifications never use them. They are there to show that each property would notice.

## Runs

| Run | Instance | Distinct states | What it shows |
|---|---|---|---|
| `order_policy` | 8 prices, 4 quantities, 6 qualification thresholds (`Bps`), every paid total up to price + 2 | 1 920 | both forms of the policy agree at every rounding boundary, goods match money, paying more never lowers tier, goods or applied value |
| `orders` | 1 obligation, 2 concurrent requests, 2 payments of 2 or 5 on a price of 9, 5 request ids shared across commands, 2 offer versions (one closed) | 405 000 | gapless log, log and rows agree, one effect per request id, a tier is earned whatever is edited, dispositions coherent, refunds backed, deadline decides once, answers final, refinement of `ObligationLifecycle` |
| `durable` | 3 attempts, 2 sharing an instance, keys and commands crossing | 142 605 | refinement of `ExactlyOnce`, log matches results, answers agree, stale owners refused, waiting clients decided |
| `authority` | 6 requests of 2 identities, 2 deaths | 309 000 | rootedness, one live grant per invitation, revocation rules, usable grants, finality of decisions |
| `membership` | 1 applicant, 1 employee, 2 overlapping jobs, 3 years, one sandbox request and one receipt | 760 000 | money and invoices agree row for row, payments stand, only a payment restores |
| `membership_consequences` | the same without the employee, 2 years, with fairness | 15 315 | an overdue invoice leads to GRACE, and GRACE to payment or RESTRICTED |
| `enrolment` | 2 contacts, 2 applications, 2 challenges, 2 verifications, a campaign of 1 | 1 417 446 | every membership is earned, contacts and campaign stay within bounds, a code decides once |
| `outbox` | a payment notice and a promotion, 3 channels, 2 dispatchers, 3 claims, 2 preference changes | 423 000 | duplicates only for a reason on record, consent for every message, refinement of `MessageLifecycle` |
| `pilot` | 3 request ids with 2 bodies; 3 commands on 2 keys, 2 executions, 2 carts, 2 checkouts | 1 389 168 | effects accounted for, the audit tells the requests; one proof per key, nothing bought twice |
| `fulfillment` | 3 lots of 2, 1 order of 2, 2 allocations, 2 exceptions, 2 remedies | 610 000 | goods conserved; no quantity resolved twice; title follows acceptance |
| `web` | 3 credentials, every status answer, 2 clicks, 2 invoices, 2 tasks in flight, 3 request ids | 291 558 | a session is one credential's; authority is mixed only by an overlap; a click is spent once; an invoice is paid under one request |
| `orders_double_compensation` | one order, one payment | (violation) | see below |

*Why the bounds suffice.* Two workers produce every overlap of two statements, the
only kind of conflict the properties speak of; a third would only queue behind the
same row. Payments of 2 and 5 on 9 reach every tier, an overpayment, a deadline that
fulfils one of two units with a remainder, and a refund that rounds a half up. Five
request ids shared between commands give repeats under the same id, under a new id,
and the same id for another command. Three attempts are the least with claim,
takeover and late commit, and with the abandon that resets a fence in between. In
`authority` each call may be one of a few kinds (`MCKindsOf`): bootstrap, invitation
and two redemptions are needed for the claim race, a revocation or cancellation for
interference, and two deaths for a retry after a crash between grant and claim.

Three years are the least in which a member has a paid, an overdue and a current
invoice; two jobs give a stale phase of one after all phases of the other. `MaxFee` is
1, so the fee is unset and then set and never changes again between two amounts: a
larger fee multiplies the states, and what the amount decides (evidence of another
amount is refused) is reached with receipts of 1 and 2. Two verifications in `enrolment`
are a first one and its replay, and two challenges an old code and a newer one; a
challenge survives no wrong code there (a wrong code that leaves it open changes its
count alone; with two attempts the same properties hold of 4 044 406 states, in three
minutes). Three claims of the outbox are a first delivery, one more after a lease ran
out, and a late mark by the first dispatcher. Three commands on two keys are a retry
under a key and a stranger. Three lots are an input, an output and a bystander; two
exceptions and two remedies overlap on one order. Three credentials are a first sign-in,
one that overlaps it, and one after both; every credential is used once, as Google mints
a new one each time. The theorems remove these bounds for the properties they cover.

Deadlock checking is off everywhere because each instance has finitely many requests
to send and then properly stops; hazards of waiting are checked as liveness. Symmetry
is used over workers, obligations, jobs, identities and browser credentials in runs
without liveness properties.

The configurations `orders_capacity.cfg`, `authority_last_owner.cfg`,
`membership_no_way_back.cfg` and `enrolment_dead_token.cfg` are not in the list of runs:
they reproduce, with `tlc -config X.cfg M`, counterexamples of the next section.

## Disagreements between text and code

The first is a listed run, whose finding in `PROJECT.json` quotes the text. The others
are properties that the modules state and TLC violates, with the configuration where
one is kept.

| Property | Reproduced by | Behaviour |
|---|---|---|
| `NoDoubleCompensation` | run `orders_double_compensation` | goods are made ready for an order the deadline turned into prepaid balance, found short, and refunded as well |
| `CommitWithinCapacity` | `orders_capacity.cfg` (MCOrders) | two commits overlap; the second waited for the offer row, but its sum of commitments is older than the lock, and the capacity is exceeded (INV-028) |
| `PaymentQualifies` | `orders.cfg` with `OneOffer` and the property | two payments overlap; each adds itself to a total that lacks the other, and the tier stays below what is paid |
| `DeadlineCountsEveryPayment` | `orders.cfg` with `OneOffer` and the property | a payment commits while the deadline waits for its row; it is in no destination |
| `PlannedGoodsBecomeReady` | `orders.cfg` with `OneOffer`, `ReadyIdsOnly`, one request at a time, no symmetry, `FairSpec` and the property | an order paid in two payments can never become ready: one fulfilment per payment row meets a unique obligation |
| `OnlyHolderCommits` | `durable.cfg` with stores s1, s2, s3, `SharedStoreOf`, `SharedOwnerOf` and the property | abandon deletes the row, so fences start again at 1; a stale holder with the same owner token then commits under the new claim |
| `LastOwnerProtected` | `authority_last_owner.cfg` | two overlapping bootstraps make two Owners, who revoke each other at once, and nobody is left |
| `RestrictedCanReturn` | `membership_no_way_back.cfg` | a RESTRICTED member whose session ended cannot sign in to pay; and two overdue invoices refuse each other's settlement, whichever is tried first (`036`: "needs a working path back out"; `037:124-129`) |
| `TokenOpensSession` | `enrolment_dead_token.cfg` | a replay with another code of a USED challenge answers "USED" without fields, and the handler, looking at the state alone, hands out a token no session stands behind (`033:156-158`, `enrollment-verify-complete.js:36-42`) |
| `CommitmentStands` | `pilot.cfg` with the property | two carts check out under one obligation id; both pass the duplicate test before either commits, and one commitment overwrites the other |
| `PromisesCanBeKept` | `fulfillment.cfg` with the property | remedies are promised for an exception whose order has meanwhile been performed; they can never be completed |
| `AccessOfTheSignedIn` | `web.cfg` with the property | two sign-ins overlap and the first one's operator access arrives under the second one's session (`auth.js:726-727`) |
| `LevelsNest` | `web.cfg` with the property | operator access is granted to somebody without member access (`auth.js:189-191`) |

Further behaviour the models reach, which no text of the repository denies and no
property forbids:

- *Membership.* One employee without a member number ends the renewal job every day
  before its later phases (`JobCanBill` names this as the condition of
  `OverdueHasConsequences`, although the job's header promises otherwise). A former
  employee in INITIAL_FEE_DUE with state ACTIVE can neither sign in nor settle. An
  ACTIVE member cannot pay the renewal before the grace period. A job that read
  before a payment moves the payer to GRACE after it. The first settlement does not
  look at older invoices.
- *Enrolment.* While a paper application is pending, an enrolment code for the same
  contact cannot be verified. A raw telephone number is normalised only at the
  approval, so one contact may get two memberships that way; `EnrolmentsBounded`
  therefore speaks of the form alone.
- *Outbox.* The in-memory service's `markFailed` takes a DELIVERED message to FAILED,
  which `MessageLifecycle` does not allow; the frequency cap counts the in-memory
  store only, so it starts again with the process.
- *Operations.* A retry runs the original mutation under the authority of the
  recovery; the original stays REJECTED after its recovery succeeded; the id of a
  failed recovery is spent.
- *Bus and checkout.* Two commands under one key may both be answered ACCEPTED, with
  one result; a cart whose obligation id exists already stays CHECKING_OUT; `isAccepted`
  does not look at the terms it is given.
- *Fulfilment.* A handover does not look at what is resolved already; a remedied
  exception still counts when another is recorded; quality does not follow a lot
  through a transform; replacement goods have no lineage.
- *Browser.* With the endpoints of this commit nobody who signs in with Google has any
  level: `/api/membership-status` accepts a member session only, and
  `/api/employee-session` wants a header that `auth.js` does not send
  (`NobodyIsAdmitted` holds of `web.cfg` with `StatusAnswers = {"none"}` and
  `MayElevate = FALSE`). A sign-out or an expiry during a sign-in leaves the access
  that arrives later; "Try a different account" keeps the token and shows "Signed in";
  a modal opened before the configuration stays at "Loading". On the employee page a
  role picked by one person stays selected for the next, and a failed mint drops the
  armed action. On the member page a check that answers after a sign-out leaves
  `memberAccess` set without a token.

## Fairness

- `orders`, `authority`, `membership`, `enrolment`, `outbox`, `pilot`, `fulfillment` and
  `web` state no fairness: a request may die, a client or a visitor may give up, and
  every property checked there is safety.
- `durable` uses `Fairness`: leases run out (they are timestamps compared with the
  clock of the next claimer) and a waiting client keeps asking, with strong fairness
  because another client may hold the claim in between. Nothing is assumed of the
  holder, who may crash. An abandoned attempt is not assumed to come back.
- `membership_consequences` uses `JobFairness`: the platform starts the job every day,
  so every phase that some invocation reaches again and again is at some time carried
  out by one of them (strong fairness of the phase, of no particular invocation, which
  may die); and a grace period ends (`GraceEnds`, a date). Nobody is assumed to pay.
- `EagerSpec` adds a member who signs in and pays whenever the code allows it. It
  serves the counterexample of `RestrictedCanReturn` alone: not even such a member
  gets back. `ReadinessFairness` does the same for `PlannedGoodsBecomeReady`.

## Proofs

All proofs hold for any number of obligations, requests, payments, instances,
identities, members, messages, workers, commands, carts, credentials, lots and operation
ids, and any amounts and limits, under the assumptions the modules name
(`OrdersAssumption`, `PolicyAssumption`, `DurableAssumption`, `AuthorityAssumption`,
`MembershipAssumption`, `EnrolmentAssumption`, `OutboxAssumption`,
`PilotOperationsAssumption`, `CheckoutAssumption`, `WebSessionAssumption`,
`WebPagesAssumption`, `PilotFulfillmentAssumption`). They give the constants their types
and keep ids and the values that stand for "none" apart, and the ledgers that are summed
over are finite, as in memory; TLC evaluates each of them on the instance of a run.

The proofs share a form. What a step can do to one row, or to one pair of tables, is
named as a move (`LedgerMove`, `RowMove`, `Follows`, `LogMoves`, `EffectMoves`); one lemma per
action reduces it to a move; and the moves, which are few, carry the invariant.

**Orders.** `OrderInv` (in `OrderProperties`) adds to `TypeOK` what types do not say:
no row of an obligation before its commitment, payments of committed obligations
only, what a call remembers still bounded by the rows (its paid total is at most what
is paid; payment rows it saw are still confirmed), and the delivery tables agreeing.
It is needed even for `TypeOK`, which says that released quantities and prepaid
balances are natural numbers. On it rest
`TypeCorrect`, `LogAlwaysGapless` (each version logged, none twice; the only way to
append is one or two consecutive versions), `AcceptanceStands`,
`DeadlineDecisionStands`, `QualificationAlwaysEarned` (a call's tier is earned by its
total, totals only grow, and the thresholds are monotone in the total),
`RefundAlwaysBacked`, and `OrdersImplementLifecycle`, the refinement of
`ObligationLifecycle`. Three more invariants stand on it:

- `ToldInv`: an obligation has an event of a type exactly when its rows say so
  (`RowsTold`), and types later in the life cycle have later versions (`OrderTold`). An
  append gives its event the next version, so only the absence of later types at that
  moment has to be shown, and that is what the guards on the rows establish:
  `LogAlwaysTellsTheRows`.
- `EffectsInv`: the ids recorded are finitely many and as many as the effects of the
  five commands. Every action adds one element to the ids and to exactly one of the
  five sets, or nothing to any: `EffectsAlwaysCounted`, without assuming that there are
  finitely many obligations.
- `DispositionInv`: what the deadline wrote, as a predicate of the rows of one
  obligation, with the arithmetic of the split as a lemma of the policy:
  `DispositionAlwaysCoherent`.

**Policy.** `ThresholdFormsAgree`, `TierFormsAgreeAlways`, `PrepaidBalanceConserves`,
`GoodsAddUp` and `MorePaidIsNoWorse`: the two forms agree, the deadline split loses
nothing, what is planned and what is released add up, and of two totals the larger earns
no less, for all naturals. The last needs the rounding down of a product to be monotone
(the remainder is bounded by the divisor). From them the properties of the run,
`FormsAlwaysAgree` and `PayingMoreIsSafe`, for every order paid minor unit by minor
unit.

**Durable commands.** `DurableInv` says that a claim carries its holder's owner token,
a command is in one row only, the log is gapless and each event was written by the
stored result. `StaleOwnersRefused` needs the token; without a token of one's own the
statement is false (`OnlyHolderCommits`, above). Then
`AnswersAlwaysAgree`, `LogAlwaysMatchesResults` and `StoreImplementsPromise`, the
refinement of `ExactlyOnce`.

**Authority.** `AuthorityInv` says of each handler what it may rely on at each of its
statements: the person it acts for, the sponsoring grant it read, the grant it stored
and that its identity can use it, the tier a revoker has been seen to hold. These
survive what others do because rows only grow: a grant is never rewritten (at most
revoked), a binding never changes its person, an invitation keeps its terms
(`RowsGrow`, `OthersInv`). Four lemmas carry the invariant over the four kinds of
write (insert a grant, bind, change an invitation, revoke), one more over steps that
write none of them, and every action is reduced to one. From it: `AuthorityIsRooted`,
`OneLiveGrantPerInvitation`, `RevokersAlwaysOutrank`, `HoldersStayReachable`,
`ScopesAlwaysCover`, `DecisionsStand`, `RevocationsStand`, `BindingsStand`, and from
these the properties of the run, `GrantsStayUsable` and `DecisionsStayFinal`.

**Membership.** The invoices and the evidence form one ledger that moves in five ways:
an invoice is issued, falls due, is reconciled with a receipt, is paid with its
evidence, or nothing happens. `MembershipTypes` is the type invariant with the snapshots
of the jobs; `LineageHolds` needs nothing beyond the types, because the only move
that consumes evidence writes both rows; `PaymentsStand` follows move by move.
`PaymentRestores` is about standing: the phases of a job write GRACE and RESTRICTED only
from the rows they re-read, and the settlements write ACTIVE only with a payment.

**Enrolment.** `EnrolInv` says of the rows what explains them: application ids are
given in order; a row of the form's waits for its code or was verified, a paper row is a
member's when it was approved; no contact has two rows of the form's; a campaign has
room for its rows; a request has a challenge from the insertion on, of a member unless
it enrols; a spent challenge has its membership; and a member of the form's has a spent
challenge. A contact's second form resumes the first because a live row is looked for
by the guard of a new one; the campaign's count grows by one, under its maximum. Every
step moves a challenge in one of a few ways (`Follows`, `IsSpent`), none of which leaves
USED or REVOKED: `CodesAlwaysDecideOnce`. `EnrolmentsAlwaysSound` includes both bounds.
The sign-in form takes the latest of a contact's applications, whose existence
(`LatestExists`) is shown through a minimal set, as the prover has no induction.

**Outbox.** `OutboxInv` bounds what a provider has accepted by the claims of a row, less
those of the workers that have claimed and not sent (`SendsClaimed`, a cardinality), and
the claims by the failures and lapses on record (`ClaimsEarned`); it says of a worker
that it holds a claim it may still report (`RunsOK`), of a row that is SENT that a
provider issued its id, and of a row and of a producer under way that a consent on record
allowed them (`ConsentInv`: what the producer read may be old, but it was a consent).
From it `DuplicatesAreAccounted`, `ConsentIsOnRecord`, and `OutboxImplementsLife`, the
refinement of `MessageLifecycle`, whose step cases are those of a row's moves.

**Bus and checkout.** `BusInv`: the registry holds nothing or the result of the key,
each result names an event the key's handlers emitted, and an execution under way
carries an event of its own key. `CartInv`: `BoughtOnce` with what a checkout between its
awaits may rely on (`CheckoutSound`: the cart it holds and the authorisation it
has consumed) and that no two rely on the same (`Apart`). From them `ProofsAlwaysAgree`
and `AlwaysBoughtOnce`.

**Browser.** `TabInv` has one part per page. On an operator page (`OperatorInv`) the
token, the identity and the timer are set together, what is shown is the access there is
unless a sign-in is under way, and as long as no sign-in overlapped another there is at
most one under way, and what it has gathered is for its own credential
(`SessionsAreOneCredentials`, `AuthorityMixesByOverlap`). On the employee page every
click under way is carried by one credential (`ClicksSound`, hence
`ClicksAlwaysSpentOnce`). On the member page a request id, stored or sent, belongs to one
invoice, and the store keeps the id of every invoice with a payment sent
(`RequestsSound`, hence `InvoicesAlwaysPaidUnderOneRequest`).

**Operations service.** `OperationsInv` adds to `TypeOK` what a stored request and its
recovery rely on (`RequestsCoherent`: a request that is not stored has no effect, a
request that failed is REJECTED, an accepted reconciliation names a stored request), and
the two properties of the run. Every public call is reduced to one of two shapes of the
audit (an answer to an id that is known, a judgement of a new one) and one of two shapes
of the effect (none, or one of a request whose effect was missing), and the shapes carry
the invariant: `OperationsInvAlways`, `EffectsAlwaysAccounted`, `AuditAlwaysTells`, for
any number of ids, bodies and calls.

**Goods and orders.** What a fold adds up can only be shown by induction, which the
prover cannot instantiate; what a set of units holds follows from the theorems about
cardinality. So the lemmas about sums (`SumLeq`, `SumSame`, `SumAdd`, `SumPlus`) compare
sets of units: by inclusion, by equality, by the units one item gains, and by renumbering
the units of a second quantity after those of the first. `FulfillmentInv` adds three
facts to the two properties of the run. An allocation that no one answered has accepted
nothing, and works and accepts within what was allocated; otherwise an acceptance could
be counted twice, and title could pass for goods not handed over. Orders are not
allocated more than they ask for (`AllocatedWithin`), which bounds the handovers. And a
remedy names a declared exception, so that what it completes belongs to one order. Each
call writes at most one record of a ledger, and a lemma per sum says how the sum moves
with it (`LotSumMoves` to `CompletedSumMoves`); only `transform` writes many lots at
once, and there the sums of what was there, what is left, what goes in and what comes
out are related by `SumPlus`. From it `GoodsAlwaysConserved` and
`ResolutionAlwaysSound`, for any orders and exceptions, finite sets of lots, allocations
and remedies, and any quantities.

**Only model-checked:** liveness (`WaitingClientDecided`, `OverdueHasConsequences`),
which is outside what the prover does, like ENABLED and induction over data. That
counting units is adding up is such an induction too: TLC evaluates it
(`SumsAreSums`) for the instance.

## Abstractions

- Quantities and amounts are natural numbers (`numeric` and `integer` columns; the
  handlers reject others). There is one offer; obligations of other offers touch none
  of its rows.
- READ COMMITTED is modelled by snapshot plus re-read of the locked row. Lock waits
  are not states: a statement that waits is one that has begun and not applied.
- A lock cycle between two statements, which PostgreSQL ends by aborting one, is
  covered by `AbandonCall`.
- SERIALIZABLE transactions are atomic; retries inside `tx` are invisible.
- Leases and deadlines expire at any moment, so no clock is assumed to agree with
  another. In `Authority` the expiry a redemption judges is the one of its own
  `nowIso`, as in the code.
- Foreign keys are not conditions of the actions: the same request inserts or reads
  each row it refers to before, and such rows are never deleted.
- Names, evidence ids, tokens, target prefixes, wording of answers and timestamps
  other than their order are left out.
- SQL functions that take an advisory lock or a row lock before they decide
  (`Enrolment`, `Membership` settlement) are one action each.
- Members of a membership are named by their applications, sessions by the request
  that draws them, messages by event and channel, as the unique keys of the tables do.
- In the pilot packages authority and evidence are those of callers that have them; a
  call without them is refused and changes nothing. Units, places and times match.
- Modules of one process or one browser tab that share no state (`MCPilot`,
  `WebPages`) are not interleaved: a behaviour is one of theirs.
- Endpoints are the environment of the browser and may answer whatever the script
  tells apart, in any order, late, or not at all.

## Not modelled

`PROJECT.json` gives the reason per component. In short:

- *Enrolment*: household invitations and activations (`api/household-invite.js`,
  `household-activate.js`), where overlapping invitations can exceed the two places the
  comment on line 6 promises; rate limits; the Preview session.
- *Pilot packages*: payments, recorded payment evidence, savings, substitutions and the
  ratification of transfer policies; the catalog, which only lists.
- *Communications*: broadcasts and the notification page.
- *Lineage store*: its locks; the rules it shares with `packages/lineage` are in
  `PilotFulfillment`.
- *In-memory command store, release codes, support cases, promotions, the task board,
  offer listings*: one guarded statement or one synchronous call per operation, with
  nothing in between for another actor to do.
- *Views and projections* only read; *request authentication* is stateless; the *live
  payment provider* is disabled; *shopping credit* is retired and its endpoints say so.
- *Web pages* that show what an endpoint answered, *scripts* and *canon* are
  presentation or text. The journey guard enters through its sign-out alone.

Three hazards have no property that holds: the capacity race, the two Owners and the
split payment go wrong, as described above. One more has none because the model leaves
the answer out: a payment answer rebuilt after a lost unique-key race is not checked
against its obligation (`api/pay-sandbox.js:152`). The grants a redemption leaves behind
when it dies between grant and claim are visible in the model (they stay live);
`InvitationGrantsOnce` and `GrantsUsable` speak of requests that ran to their end.

## Plan

Done: every module of the list above with its run, and proofs of every safety property
that a run checks. In this order:

1. Foreign keys of **Authority** as an invariant of `people`.
2. Household invitations in **Enrolment**, substitutions in **PilotFulfillment**.
