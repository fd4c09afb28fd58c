------------------------------- MODULE Outbox -------------------------------
(***************************************************************************)
(* Member communications: domain events and subscription reminders become  *)
(* messages under the member's preferences, the messages are stored once   *)
(* in communication_outbox, and dispatchers claim them under a lease, call *)
(* the channel's provider and record what it answered.                     *)
(*                                                                         *)
(* A message is an event and a channel: its dedupe key (one version of a   *)
(* template).  Every repository method is one transaction or statement and *)
(* is one action; between two of them a dispatcher may crash, its lease    *)
(* may run out and another may claim the row.  A provider may accept a     *)
(* message and still answer with an error.  One member.  The clock is      *)
(* abstracted to "live" (lease_until is ahead) and "available"; all the    *)
(* promotional messages fall into one window of the frequency cap.  Left   *)
(* out: texts and templates, SUPPRESSED (nothing sets it), reading inboxes.*)
(***************************************************************************)
EXTENDS Naturals, FiniteSets, FiniteSetsExt

CONSTANTS
  Offered,    \* the events that may occur: records of an id and a type
  Channels,   \* CommunicationChannel
  InApp,      \* the channel that needs no provider
  Adapters,   \* the channels a delivery adapter is configured for
  Profiles,   \* the preferences a member may save
  Workers,    \* dispatchers, each with a worker token of its own
  Cap,        \* promotionalFrequencyCap
  BatchLimit, \* the limit of a claim
  MaxVersion, \* bound: consent versions
  MaxClaims,  \* bound: how often rows are claimed, all together
  Nobody      \* NULL

ASSUME OutboxAssumption ==
  /\ InApp \in Channels
  /\ Adapters \subseteq Channels \ {InApp}
  /\ Profiles \subseteq [optIn : BOOLEAN, transactional : SUBSET Channels,
                         promotional : SUBSET Channels, suppressed : SUBSET Channels]
  /\ IsFiniteSet(Workers)
  /\ Cap \in Nat /\ BatchLimit \in Nat \ {0} /\ MaxVersion \in Nat /\ MaxClaims \in Nat
  /\ Nobody \notin Workers \cup Profiles

VARIABLES
  preferences, \* member_communication_preferences: version and profile
  consents,    \* member_communication_consent_event
  producer,    \* the preferences the producer has read, and its in-memory store
  outbox,      \* communication_outbox
  workers,     \* where each dispatcher's run is
  provider     \* how many messages the providers have accepted, per dedupe key

vars == <<preferences, consents, producer, outbox, workers, provider>>

Messages == Offered \X Channels
Versions == 1..MaxVersion

PreferenceRows == [version : 0..MaxVersion, profile : Profiles \cup {Nobody}]
NoPreferences == [version |-> 0, profile |-> Nobody]

(* "ref" is provider_message_id, "claims" and "lapses" are history.        *)
Rows == [status : {"NONE", "QUEUED", "SENT", "DELIVERED", "FAILED"},
         owner : Workers \cup {Nobody}, live : BOOLEAN, available : BOOLEAN,
         ref : Nat, retries : Nat, claims : Nat, lapses : Nat]
NoRow == [status |-> "NONE", owner |-> Nobody, live |-> FALSE, available |-> FALSE,
          ref |-> 0, retries |-> 0, claims |-> 0, lapses |-> 0]

Runs == [at : {"idle", "next", "sent", "failing"}, todo : SUBSET Messages,
         message : Messages \cup {Nobody}, ref : Nat]
Resting == [at |-> "idle", todo |-> {}, message |-> Nobody, ref |-> 0]

TypeOK ==
  /\ preferences \in PreferenceRows
  /\ consents \in [Versions -> Profiles \cup {Nobody}]
  /\ producer \in [read : PreferenceRows, store : SUBSET Messages]
  /\ outbox \in [Messages -> Rows]
  /\ \A m \in Messages :
       outbox[m].live => /\ outbox[m].owner # Nobody
                         /\ outbox[m].status \in {"QUEUED", "FAILED"}
  /\ workers \in [Workers -> Runs]
  /\ provider \in [Messages -> Nat]

Init ==
  /\ preferences = NoPreferences
  /\ consents = [v \in Versions |-> Nobody]
  /\ producer = [read |-> NoPreferences, store |-> {}]
  /\ outbox = [m \in Messages |-> NoRow]
  /\ workers = [w \in Workers |-> Resting]
  /\ provider = [m \in Messages |-> 0]

-----------------------------------------------------------------------------
(* Events.                                                                 *)

Promotional == {"DEAL_AVAILABLE", "DISCOUNT_AVAILABLE", "DEMAND_COMMITMENT_PROGRESS"}

(* communicationEventFromCanonical: the type a domain event is announced   *)
(* as; incomplete evidence of money is an error, other events are silent.  *)
Projected(kind, complete) ==
  CASE kind = "FULFILLMENT_READY" -> {"ORDER_READY"}
    [] kind \in {"PAYMENT_FAILED", "FULFILLMENT_EXCEPTION"} -> {kind}
    [] kind \in {"PAYMENT_CONFIRMED", "REFUND_PROCESSING"} /\ complete -> {kind}
    [] kind \in {"REFUND_AUTHORIZED", "REMEDY_AUTHORIZED"} /\ complete -> {"REFUND_AUTHORIZED"}
    [] kind \in {"REFUND_COMPLETED", "REMEDY_COMPLETED"} /\ complete -> {"REFUND_COMPLETED"}
    [] OTHER -> {}
DomainKinds == {"PAYMENT_CONFIRMED", "PAYMENT_FAILED", "FULFILLMENT_READY",
                "FULFILLMENT_EXCEPTION", "REFUND_AUTHORIZED", "REMEDY_AUTHORIZED",
                "REFUND_PROCESSING", "REFUND_COMPLETED", "REMEDY_COMPLETED", "OTHER"}

(* subscriptionReminderEvents: three days before it is due, and from a day *)
(* after; not in between, nor once it is paid or cancelled.                *)
Reminders(status, phase) ==
  CASE status \in {"PAID", "CANCELLED"} -> {}
    [] phase = "soon" -> {"SUBSCRIPTION_DUE"}
    [] phase = "overdue" -> {"SUBSCRIPTION_OVERDUE"}
    [] OTHER -> {}

Announceable ==
  Promotional
  \cup UNION {Projected(kind, complete) : kind \in DomainKinds, complete \in BOOLEAN}
  \cup UNION {Reminders(status, phase) :
                status \in {"ACTIVE", "PAST_DUE", "PAID", "CANCELLED"},
                phase \in {"early", "soon", "due", "overdue"}}

-----------------------------------------------------------------------------
(* Preferences, and the messages an event is turned into under them.       *)

(* Mutation: the version need not advance. *)
AdvancesAnyVersion(version) == TRUE
Advances(version) == version > preferences.version

SavePreferences(version, profile) ==
  /\ Advances(version)
  /\ consents[version] = Nobody
  /\ consents' = [consents EXCEPT ![version] = profile]
  /\ preferences' = [version |-> version, profile |-> profile]
  /\ UNCHANGED <<producer, outbox, workers, provider>>

ReadPreferences ==
  /\ preferences.version > 0
  /\ producer' = [producer EXCEPT !.read = preferences]
  /\ UNCHANGED <<preferences, consents, outbox, workers, provider>>

CapReached ==
  Cardinality({m \in producer.store : m[1].type \in Promotional}) >= Cap

(* The channels a profile allows an event of the type, suppression last.   *)
(* Mutation: the channels are filtered before the class chooses them. *)
AllowedUnsuppressed(type, profile) ==
  IF type \in Promotional
  THEN IF profile.optIn THEN profile.promotional ELSE {}
  ELSE profile.transactional
Allowed(type, profile) ==
  (IF type \in Promotional
   THEN IF profile.optIn THEN profile.promotional ELSE {}
   ELSE profile.transactional) \ profile.suppressed

(* MemberCommunicationsService.enqueue, then the repository's enqueue of   *)
(* what it returns; the transaction may fail when the store has changed.   *)
Produce(e, commits) ==
  LET new == {<<e, c>> : c \in Allowed(e.type, producer.read.profile)}
  IN /\ e.type \in Announceable
     /\ producer.read.version > 0
     /\ e.type \in Promotional => ~CapReached
     /\ producer' = [producer EXCEPT !.store = @ \cup new]
     /\ outbox' = IF ~commits THEN outbox ELSE [m \in Messages |->
          IF m \in new /\ outbox[m].status = "NONE"
          THEN [NoRow EXCEPT !.status = "QUEUED", !.available = TRUE] ELSE outbox[m]]
     /\ UNCHANGED <<preferences, consents, workers, provider>>

ProducerRestarts ==
  /\ producer' = [read |-> NoPreferences, store |-> {}]
  /\ UNCHANGED <<preferences, consents, outbox, workers, provider>>

-----------------------------------------------------------------------------
(* CommunicationDispatcher.run.                                            *)

Unsent(m) == outbox[m].status \in {"QUEUED", "FAILED"}
Owns(w, m) == Unsent(m) /\ outbox[m].owner = w

(* Mutation: the lease of another dispatcher is not respected. *)
ClaimableLeased(m) == Unsent(m) /\ outbox[m].available
Claimable(m) == Unsent(m) /\ outbox[m].available /\ ~outbox[m].live

Claims == MapThenSumSet(LAMBDA m : outbox[m].claims, Messages)

(* SKIP LOCKED: any of the claimable rows may be missing from a batch.     *)
Claim(w) ==
  \E batch \in SUBSET {m \in Messages : Claimable(m)} :
    /\ workers[w].at = "idle"
    /\ batch # {} /\ Cardinality(batch) <= BatchLimit
    /\ Claims + Cardinality(batch) <= MaxClaims
    /\ outbox' = [m \in Messages |-> IF m \notin batch THEN outbox[m] ELSE
         [outbox[m] EXCEPT !.owner = w, !.live = TRUE, !.claims = @ + 1]]
    /\ workers' = [workers EXCEPT ![w] = [Resting EXCEPT !.at = "next", !.todo = batch]]
    /\ UNCHANGED <<preferences, consents, producer, provider>>

Settled(row, status, ref) ==
  [row EXCEPT !.status = status, !.ref = ref, !.owner = Nobody, !.live = FALSE]
Retried(row) ==
  [Settled(row, "FAILED", row.ref) EXCEPT !.retries = @ + 1, !.available = FALSE]

(* Mutation: any lease will do. *)
MarkSentByAny(w, m, ref) ==
  Unsent(m) /\ outbox' = [outbox EXCEPT ![m] = Settled(@, "SENT", ref)]
MarkSent(w, m, ref) ==
  Owns(w, m) /\ outbox' = [outbox EXCEPT ![m] = Settled(@, "SENT", ref)]
MarkFailed(w, m) ==
  Owns(w, m) /\ outbox' = [outbox EXCEPT ![m] = Retried(@)]

Proceed(w, m) ==
  workers' = [workers EXCEPT ![w] = IF workers[w].todo = {m} THEN Resting ELSE
                [Resting EXCEPT !.at = "next", !.todo = workers[w].todo \ {m}]]
Abort(w) == workers' = [workers EXCEPT ![w] = Resting] /\ UNCHANGED outbox

(* A message without a provider is settled at once; a lost lease is an     *)
(* error that ends the run.                                                *)
SettleInApp(w, m) ==
  /\ workers[w].at = "next" /\ m \in workers[w].todo /\ m[2] = InApp
  /\ IF Owns(w, m) THEN MarkSent(w, m, 0) /\ Proceed(w, m) ELSE Abort(w)
  /\ UNCHANGED <<preferences, consents, producer, provider>>

SettleWithoutAdapter(w, m) ==
  /\ workers[w].at = "next" /\ m \in workers[w].todo /\ m[2] \notin Adapters \cup {InApp}
  /\ IF Owns(w, m) THEN MarkFailed(w, m) /\ Proceed(w, m) ELSE Abort(w)
  /\ UNCHANGED <<preferences, consents, producer, provider>>

Send(w, m, accepted, answered) ==
  /\ workers[w].at = "next" /\ m \in workers[w].todo /\ m[2] \in Adapters
  /\ answered => accepted
  /\ provider' = IF accepted THEN [provider EXCEPT ![m] = @ + 1] ELSE provider
  /\ workers' = [workers EXCEPT ![w] = [@ EXCEPT
                    !.at = IF answered THEN "sent" ELSE "failing", !.message = m,
                    !.ref = IF answered THEN provider[m] + 1 ELSE 0]]
  /\ UNCHANGED <<preferences, consents, producer, outbox>>

(* A failing markSent is caught like a failing send.                       *)
RecordSent(w) ==
  LET m == workers[w].message IN
  /\ workers[w].at = "sent"
  /\ \/ MarkSent(w, m, workers[w].ref) /\ Proceed(w, m)
     \/ /\ ~Owns(w, m)
        /\ workers' = [workers EXCEPT ![w] = [@ EXCEPT !.at = "failing", !.ref = 0]]
        /\ UNCHANGED outbox
  /\ UNCHANGED <<preferences, consents, producer, provider>>

RecordFailure(w) ==
  LET m == workers[w].message IN
  /\ workers[w].at = "failing"
  /\ IF Owns(w, m) THEN MarkFailed(w, m) /\ Proceed(w, m) ELSE Abort(w)
  /\ UNCHANGED <<preferences, consents, producer, provider>>

Crash(w) ==
  /\ workers[w].at # "idle"
  /\ Abort(w)
  /\ UNCHANGED <<preferences, consents, producer, provider>>

-----------------------------------------------------------------------------
(* The provider's receipt, and time.                                       *)

MarkDelivered(m, ref) ==
  /\ outbox[m].status = "SENT" /\ outbox[m].ref = ref
  /\ outbox' = [outbox EXCEPT ![m].status = "DELIVERED"]
  /\ UNCHANGED <<preferences, consents, producer, workers, provider>>

LeaseRunsOut(m) ==
  /\ outbox[m].live
  /\ outbox' = [outbox EXCEPT ![m] =
                   [outbox[m] EXCEPT !.live = FALSE, !.lapses = @ + 1]]
  /\ UNCHANGED <<preferences, consents, producer, workers, provider>>

BecomesAvailable(m) ==
  /\ outbox[m].status = "FAILED" /\ ~outbox[m].available
  /\ outbox' = [outbox EXCEPT ![m].available = TRUE]
  /\ UNCHANGED <<preferences, consents, producer, workers, provider>>

DispatcherStep(w) ==
  \/ Claim(w) \/ RecordSent(w) \/ RecordFailure(w) \/ Crash(w)
  \/ \E m \in Messages : \/ SettleInApp(w, m) \/ SettleWithoutAdapter(w, m)
                         \/ \E accepted, answered \in BOOLEAN : Send(w, m, accepted, answered)

Next ==
  \/ \E version \in Versions, profile \in Profiles : SavePreferences(version, profile)
  \/ ReadPreferences \/ ProducerRestarts
  \/ \E e \in Offered, commits \in BOOLEAN : Produce(e, commits)
  \/ \E w \in Workers : DispatcherStep(w)
  \/ \E m \in Messages : \/ LeaseRunsOut(m) \/ BecomesAvailable(m)
                         \/ \E ref \in 0..provider[m] : MarkDelivered(m, ref)

Spec == Init /\ [][Next]_vars
=============================================================================
