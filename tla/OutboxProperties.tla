-------------------------- MODULE OutboxProperties --------------------------
(***************************************************************************)
(* What must hold of messages while preferences change, events repeat,     *)
(* leases run out and providers answer late or wrongly.                    *)
(***************************************************************************)
EXTENDS Outbox

(* A message is sent again only for a reason: providers have accepted it   *)
(* at most once more than there were failures recorded and leases run out. *)
(* And what the row says was sent, a provider accepted: the message id it  *)
(* names is one that a provider issued for this very message.  Every row   *)
(* is of its type.                                                         *)
DuplicatesAccounted ==
  /\ TypeOK
  /\ \A m \in Messages :
       /\ provider[m] <= 1 + outbox[m].retries + outbox[m].lapses
       /\ (outbox[m].status \in {"SENT", "DELIVERED"} /\ m[2] # InApp) =>
            outbox[m].ref \in 1..provider[m]

(* Consent is on record: the preferences are those of the latest consent   *)
(* event, and every message of the outbox was allowed, class, channel and  *)
(* suppression, by some consent the member has given.                      *)
ConsentOnRecord ==
  /\ preferences.version > 0 =>
       /\ consents[preferences.version] = preferences.profile
       /\ \A v \in Versions : consents[v] # Nobody => v <= preferences.version
  /\ \A m \in Messages : outbox[m].status # "NONE" =>
       \E v \in Versions :
         LET p == consents[v] IN
         /\ p # Nobody
         /\ m[2] \notin p.suppressed
         /\ IF m[1].type \in Promotional THEN p.optIn /\ m[2] \in p.promotional
                                         ELSE m[2] \in p.transactional

(* The durable outbox implements the in-memory service's life of a message *)
(* ("delivery state transitions are ordered QUEUED -> SENT -> DELIVERED",  *)
(* docs/traceability/SW1-RC2-member-communications.json): a failed row is  *)
(* queued again by the claim that takes it.                                *)
StatusOf(m) ==
  IF outbox[m].status = "FAILED" /\ outbox[m].owner # Nobody THEN "QUEUED"
                                                             ELSE outbox[m].status
Life(m) == INSTANCE MessageLifecycle WITH status <- StatusOf(m)
ImplementsLife ==
  /\ \A m \in Messages : Life(m)!Init
  /\ [][\A m \in Messages : [Life(m)!Next]_(StatusOf(m))]_vars
=============================================================================
