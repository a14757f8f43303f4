------------------------------ MODULE Billing ------------------------------
(***************************************************************************)
(* The subscriptions of registered companies: the provider's webhooks      *)
(* create and update the row, one transaction each.  (A checkout hands out *)
(* the address of a hosted session and changes nothing: what becomes of it *)
(* is an event of the provider, and so is what the code accepts without    *)
(* one.)                                                                   *)
(*                                                                         *)
(* The provider is not part of the code.  It repeats an event until it is  *)
(* answered with success, and the code does not look at an event's age, so *)
(* what becomes of the row depends on how the provider delivers: "in       *)
(* order" waits for success before the next event, "one at a time" repeats *)
(* and reorders, "overlapping" does not even wait.                         *)
(***************************************************************************)
EXTENDS Accounts, Sequences

CONSTANTS
  Plans,          \* plans of the catalog
  Statuses,       \* members of SubscriptionStatus a provider reports
  Unknown,        \* a plan that is not in the catalog
  Deliveries,     \* webhook requests that may be in progress
  None,           \* no row, no company
  MaxEvents,      \* bound on events of the provider
  MaxDeliveries   \* bound on webhook requests

ASSUME BillingAssumption ==
  /\ Unknown \notin Plans /\ None \notin Registrations
  /\ None \notin [plan : Plans \cup {Unknown}, quota : Plans \cup {"none"},
                 status : Statuses, period : Nat]
  /\ MaxEvents \in Nat /\ MaxDeliveries \in Nat

VARIABLES
  delivery,       \* how the provider delivers
  events,         \* what the provider has reported so far
  acknowledged,   \* events answered with success
  subscriptions,  \* subscriptions rows, by company
  wpc, event,     \* per webhook: next step and the event it carries
  existing,       \* per webhook: the row as it was read
  delivered,
  outdated,       \* history: webhooks that have read their row before another's commit to it
  mixed           \* history: companies whose row was last written by one of these

billingVars ==
  <<delivery, events, acknowledged, subscriptions, wpc, event, existing, delivered, outdated, mixed>>
vars == <<commitsFirst, accountVars, faults, billingVars>>

\* The quota an event without one stands for: _PLAN_SHIPMENTS_PER_MONTH.get(plan, 0).
Quota(plan) == IF plan \in Plans THEN plan ELSE "none"

\* The columns an event writes; its period and reference vary with the event.
Columns(n) ==
  [plan |-> events[n].plan, quota |-> Quota(events[n].plan), status |-> events[n].status, period |-> n]

InitBilling ==
  /\ delivery \in {"in order", "one at a time", "overlapping"}
  /\ events = <<>>
  /\ acknowledged = {}
  /\ subscriptions = [c \in Registrations |-> None]
  /\ wpc = [d \in Deliveries |-> "idle"]
  /\ event = [d \in Deliveries |-> 0]
  /\ existing = [d \in Deliveries |-> None]
  /\ delivered = 0
  /\ outdated = {} /\ mixed = {}

\* The provider, of a company that is registered: a checkout is completed, a payment fails,
\* a plan is changed or cancelled.
Report(c) ==
  /\ c \in users /\ Len(events) < MaxEvents
  /\ \E p \in Plans \cup {Unknown}, s \in Statuses :
       events' = Append(events, [company |-> c, plan |-> p, status |-> s])
  /\ UNCHANGED <<delivery, acknowledged, subscriptions, wpc, event, existing, delivered, outdated, mixed>>

MayDeliver(n) ==
  /\ delivery # "overlapping" => \A d \in Deliveries : wpc[d] # "upsert"
  /\ delivery = "in order" => n \notin acknowledged /\ 1..(n - 1) \subseteq acknowledged

\* handle_webhook: the signature is good; upsert reads the row.
Receive(d, n) ==
  /\ wpc[d] = "idle" /\ delivered < MaxDeliveries /\ n \in DOMAIN events /\ MayDeliver(n)
  /\ delivered' = delivered + 1
  /\ wpc' = [wpc EXCEPT ![d] = "upsert"]
  /\ event' = [event EXCEPT ![d] = n]
  /\ existing' = [existing EXCEPT ![d] = subscriptions[events[n].company]]
  /\ UNCHANGED <<delivery, events, acknowledged, subscriptions, outdated, mixed>>

EndWebhook(d) ==
  /\ wpc' = [wpc EXCEPT ![d] = "idle"]
  /\ event' = [event EXCEPT ![d] = 0]
  /\ existing' = [existing EXCEPT ![d] = None]

Acknowledge(d) == acknowledged' = acknowledged \cup {event[d]}

\* An UPDATE sets the columns that differ from the row as it was read.
UpdatedRow(current, old, new) ==
  [f \in DOMAIN new |-> IF new[f] = old[f] THEN current[f] ELSE new[f]]

\* Mutant: an event for a company that has a row changes its plan and forgets its period.
UpsertedPlan(d) ==
  LET c == events[event[d]].company
      new == Columns(event[d]) IN
  IF subscriptions[c] = None THEN new
  ELSE [subscriptions[c] EXCEPT !.plan = new.plan, !.quota = new.quota]

\* Mutant: insert on conflict do nothing.
UpsertedOnce(d) ==
  LET c == events[event[d]].company IN
  IF subscriptions[c] = None THEN Columns(event[d]) ELSE subscriptions[c]

Upserted(d) ==
  IF existing[d] = None THEN Columns(event[d])
  ELSE UpdatedRow(subscriptions[events[event[d]].company], existing[d], Columns(event[d]))

\* Webhooks of one company wait for the row another has written and not yet committed.
RowLocked(d) ==
  \E e \in Deliveries \ {d} :
    wpc[e] = "answered" /\ events[event[e]].company = events[event[d]].company

Collides(d) == existing[d] = None /\ subscriptions[events[event[d]].company] # None

\* The row is written (flush), and the answer goes out before the commit.
AnswerEarly(d) ==
  /\ wpc[d] = "upsert" /\ ~commitsFirst /\ ~RowLocked(d) /\ ~Collides(d)
  /\ Acknowledge(d)
  /\ wpc' = [wpc EXCEPT ![d] = "answered"]
  /\ UNCHANGED <<delivery, events, subscriptions, event, existing, delivered, outdated, mixed>>

\* The history of d's commit: the others that have read the same row have read an older one.
Record(d) ==
  LET c == events[event[d]].company IN
  /\ mixed' = IF d \in outdated THEN mixed \cup {c} ELSE mixed \ {c}
  /\ outdated' = {e \in Deliveries \ {d} :
       e \in outdated \/ (wpc[e] # "idle" /\ events[event[e]].company = c)}

\* The row is written and committed, then the webhook answered; the answer may be lost.
CommitWebhook(d) ==
  /\ \/ /\ wpc[d] = "upsert" /\ commitsFirst /\ ~RowLocked(d) /\ ~Collides(d)
        /\ Acknowledge(d) \/ UNCHANGED acknowledged
     \/ wpc[d] = "answered" /\ UNCHANGED acknowledged
  /\ subscriptions' = [subscriptions EXCEPT ![events[event[d]].company] = Upserted(d)]
  /\ EndWebhook(d)
  /\ Record(d)
  /\ UNCHANGED <<delivery, events, delivered>>

\* Two first events: the second INSERT meets the unique company_id and is answered 500.
InsertCollides(d) ==
  /\ wpc[d] = "upsert" /\ ~RowLocked(d) /\ Collides(d)
  /\ EndWebhook(d)
  /\ outdated' = outdated \ {d}
  /\ UNCHANGED <<delivery, events, acknowledged, subscriptions, delivered, mixed>>

WebhookFails(d) ==
  /\ wpc[d] # "idle" /\ faults < MaxFaults
  /\ faults' = faults + 1
  /\ EndWebhook(d)
  /\ outdated' = outdated \ {d}
  /\ UNCHANGED <<delivery, events, acknowledged, subscriptions, delivered, mixed>>

Billed ==
  \/ \E c \in Registrations : Report(c)
  \/ \E d \in Deliveries :
       \/ \E n \in DOMAIN events : Receive(d, n)
       \/ CommitWebhook(d) \/ AnswerEarly(d) \/ InsertCollides(d)

Init == InitAccounts /\ InitBilling

Next ==
  \/ \E h \in Registrations : Register(h) /\ UNCHANGED <<commitsFirst, form, billingVars>>
  \/ Billed /\ UNCHANGED <<commitsFirst, accountVars, faults>>
  \/ \E d \in Deliveries : WebhookFails(d) /\ UNCHANGED <<commitsFirst, accountVars>>

Spec == Init /\ [][Next]_vars

-----------------------------------------------------------------------------
TypeOK ==
  /\ AccountsTypeOK
  /\ acknowledged \subseteq DOMAIN events
  /\ \A c \in Registrations : subscriptions[c] # None => c \in users
  /\ \A d \in Deliveries : event[d] \in {0} \cup DOMAIN events /\ (event[d] = 0 <=> wpc[d] = "idle")
  /\ outdated \subseteq Deliveries /\ mixed \subseteq Registrations

EventsOf(c) == {n \in DOMAIN events : events[n].company = c}

\* The provider waits for answers, and an answer for its commit.
OneAtATime == delivery # "overlapping" /\ commitsFirst
InOrder == delivery = "in order" /\ commitsFirst

\* However webhooks are repeated, reordered and overlap, and whenever they are answered,
\* every column of a row is one of an event of its company; and all are of one event, its
\* quota that of its plan, unless the last commit was of a webhook that had read an older
\* row.  A provider that waits for answers, and they for the commit, never causes that.
RowIsOneEvent ==
  /\ \A c \in Registrations : subscriptions[c] # None =>
       /\ \A f \in DOMAIN subscriptions[c] :
            \E n \in EventsOf(c) : subscriptions[c][f] = Columns(n)[f]
       /\ c \notin mixed => \E n \in EventsOf(c) : subscriptions[c] = Columns(n)
  /\ OneAtATime => mixed = {}

\* A provider that delivers in order is followed: a company's row is its newest event that
\* was answered with success, or the next one, whose answer was lost.
SubscriptionFollowsWebhooks ==
  InOrder =>
    \A n \in acknowledged :
      \E m \in EventsOf(events[n].company) :
        subscriptions[events[n].company] = Columns(m) /\ m >= n
=============================================================================
