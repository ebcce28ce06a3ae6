------------------------ MODULE NotificationDelivery ------------------------
(***************************************************************************)
(* services/notification: a notify event fans out to the subscriptions of  *)
(* a tenant, each of which is owed one delivery row. The consumer of the   *)
(* event makes the first attempt at a row, pollers make the retries;       *)
(* both work on the row through Attempter. Users create, disable and       *)
(* delete subscriptions meanwhile.                                         *)
(*                                                                         *)
(* A database statement, a call to Vault and a POST or mail are steps of   *)
(* their own. The time until a retry is due is abstracted to whether it    *)
(* has passed.                                                             *)
(***************************************************************************)
EXTENDS Naturals, FiniteSets

CONSTANTS
  Subs,          \* subscription ids
  Kind,          \* [Subs -> {"webhook", "email"}]
  Filter,        \* [Subs -> set of event types]; {} is every event
  Messages,      \* events on the notify stream
  Events,        \* the event types that may be published
  Consumers, Pollers,   \* one of each per replica
  MaxAttempts,   \* 5 in the code
  MaxDeliver,    \* deliveries of one message, 4 in the code
  BatchSize,     \* rows of one claim, 100 in the code
  MaxRows,       \* bound on delivery rows
  MaxEdits,      \* bound on users' changes to a subscription they created
  MaxFaults      \* bound on crashes and failed calls

EventTypes == {"scan.completed", "findings.new_critical", "campaign.failed",
               "report.ready"}
Actors == Consumers \cup Pollers
Ids == 1..MaxRows

ASSUME NotifyAssumption ==
  /\ Kind \in [Subs -> {"webhook", "email"}]
  /\ Filter \in [Subs -> SUBSET EventTypes]
  /\ Consumers \cap Pollers = {}
  /\ MaxAttempts \in Nat \ {0, 1} /\ MaxDeliver \in Nat \ {0}
  /\ BatchSize \in Nat \ {0} /\ MaxRows \in Nat
  /\ MaxEdits \in Nat /\ MaxFaults \in Nat

VARIABLES
  sub,        \* subscription row: none; new (no secret yet), put (secret stored,
              \* its path not), ready; unsigned (Create died between); deleted
  enabled,    \* the subscriptions whose enabled column is true
  event,      \* the event type of a message
  msg,        \* unsent, ready, out, acked, dead (on the DLQ), spent
  delivered,  \* deliveries of the message so far
  row,        \* delivery rows by id, 0 attempts where there is none
  nextId,
  handling,   \* per consumer: the message, and
  todo,       \* the subscriptions it matched, as read, and has not come to
  batch,      \* per poller: claimed rows it has not come to
  task,       \* per actor: the attempt it is making
  posts,      \* how often a delivery went out, by row id
  edits, faults,
  steady,     \* per message: subscribers since before it was published
  enqueued,   \* <<message, subscription>> that ever got a row
  missed,     \* <<message, subscription>> whose insert failed
  stranded    \* rows whose poller died or could not record

subVars  == <<sub, enabled, edits>>
msgVars  == <<event, msg, delivered, handling, todo>>
rowVars  == <<row, nextId>>
history  == <<posts, steady, enqueued, missed, stranded>>
notifyVars == <<subVars, msgVars, rowVars, batch, task, faults, history>>

NoRow  == [status |-> "none", attempt |-> 0, retry |-> "null", sub |-> 0]
Idle   == [stage |-> "idle"]
Nothing == 0

Fault == faults < MaxFaults /\ faults' = faults + 1
UserEdit == edits < MaxEdits /\ edits' = edits + 1

NotifyInit ==
  /\ sub = [s \in Subs |-> "none"] /\ enabled = {}
  /\ event = [m \in Messages |-> "none"]
  /\ msg = [m \in Messages |-> "unsent"] /\ delivered = [m \in Messages |-> 0]
  /\ row = [d \in Ids |-> NoRow] /\ nextId = 1
  /\ handling = [c \in Consumers |-> Nothing]
  /\ todo = [c \in Consumers |-> {}]
  /\ batch = [p \in Pollers |-> {}]
  /\ task = [a \in Actors |-> Idle]
  /\ posts = [d \in Ids |-> 0] /\ edits = 0 /\ faults = 0
  /\ steady = [m \in Messages |-> {}]
  /\ enqueued = {} /\ missed = {} /\ stranded = {}

(***************************************************************************)
(* Subscriptions: the HTTP handlers                                        *)
(***************************************************************************)
Live(s) == sub[s] \in {"new", "put", "ready", "unsigned"}
\* The secret_ref a reader finds: the path in Vault, or the placeholder.
Ref(s) == IF sub[s] = "ready" THEN "path" ELSE "placeholder"

\* The insert of Create. A webhook's row is visible before its secret exists.
Create(s) ==
  /\ sub[s] = "none"
  /\ sub' = [sub EXCEPT ![s] = IF Kind[s] = "webhook" THEN "new" ELSE "ready"]
  /\ enabled' = enabled \cup {s}
  /\ UNCHANGED <<edits, msgVars, rowVars, batch, task, faults, history>>

\* DELETE FROM subscriptions: the deliveries go with it.
DeleteSubscription(s) ==
  /\ sub' = [sub EXCEPT ![s] = "deleted"]
  /\ enabled' = enabled \ {s}
  /\ row' = [d \in Ids |-> IF row[d].sub = s THEN NoRow ELSE row[d]]
  /\ steady' = [m \in Messages |-> steady[m] \ {s}]
  /\ UNCHANGED <<nextId, posts, enqueued, missed, stranded>>

\* vault.Put; if it fails the subscription is removed again.
StoreSecret(s) ==
  /\ sub[s] = "new"
  /\ \/ /\ sub' = [sub EXCEPT ![s] = "put"]
        /\ UNCHANGED <<enabled, rowVars, faults, history>>
     \/ Fault /\ DeleteSubscription(s)
  /\ UNCHANGED <<edits, msgVars, batch, task>>

\* SetSubscriptionSecretRef. If it fails, or the handler dies before it, the
\* subscription keeps the placeholder.
SetSecretRef(s) ==
  /\ \/ sub[s] = "put" /\ sub' = [sub EXCEPT ![s] = "ready"] /\ UNCHANGED faults
     \/ sub[s] \in {"new", "put"} /\ sub' = [sub EXCEPT ![s] = "unsigned"] /\ Fault
  /\ UNCHANGED <<enabled, edits, msgVars, rowVars, batch, task, history>>

SetEnabled(s, on) ==
  /\ Live(s) /\ on # (s \in enabled) /\ UserEdit
  /\ enabled' = IF on THEN enabled \cup {s} ELSE enabled \ {s}
  /\ steady' = [m \in Messages |-> steady[m] \ {s}]
  /\ UNCHANGED <<sub, msgVars, rowVars, batch, task, faults,
                 posts, enqueued, missed, stranded>>

\* The secret is removed from Vault after the row.
Delete(s) ==
  /\ Live(s) /\ UserEdit
  /\ DeleteSubscription(s)
  /\ UNCHANGED <<msgVars, batch, task, faults>>

(***************************************************************************)
(* Attempter: one attempt at one row, for the consumer and for the pollers *)
(***************************************************************************)
HasEmailForm(e) == e # "report.ready"
Wants(s, e) == Filter[s] = {} \/ e \in Filter[s]
\* The rows as they are now; the handler works from this copy.
Matching(m) == {<<s, Ref(s)>> : s \in {t \in enabled : Wants(t, event[m])}}

Verdict(status, n) == [status |-> status, attempt |-> n,
                       retry |-> IF status = "pending" THEN "later" ELSE "null"]

\* What is recorded for attempt n, by what the receiver (or the mail server)
\* answered: ok; refused (a 4xx, a blocked address); later (a 5xx, 408 or 429,
\* no answer: for all we know it may have arrived).
Classify(answer, n) ==
  CASE answer = "ok"      -> Verdict("delivered", n)
    [] answer = "refused" -> Verdict("dead_lettered", n)
    [] OTHER -> Verdict(IF n >= MaxAttempts THEN "dead_lettered" ELSE "pending", n)

Working(a, d, s, ref, n) ==
  task' = [task EXCEPT ![a] = [stage |-> "send", id |-> d, sub |-> s,
                               ref |-> ref, attempt |-> n]]
Decide(a, verdict) ==
  task' = [task EXCEPT ![a] = [stage |-> "record", id |-> task[a].id,
                               verdict |-> verdict]]

\* The secret is resolved by the reference read with the subscription.
Resolvable(t) == t.ref = "path"

\* No secret, no POST: our own misconfiguration is not retried. The secret of a
\* subscription that is being deleted may be gone.
GiveUp(a) ==
  /\ task[a].stage = "send"
  /\ Kind[task[a].sub] = "webhook"
  /\ \/ (~Resolvable(task[a]) \/ ~Live(task[a].sub)) /\ UNCHANGED faults
     \/ Fault
  /\ Decide(a, Verdict("dead_lettered", task[a].attempt))
  /\ UNCHANGED <<subVars, msgVars, rowVars, batch, history>>

Send(a, answer) ==
  /\ task[a].stage = "send"
  /\ Kind[task[a].sub] = "webhook" => Resolvable(task[a])
  /\ Kind[task[a].sub] = "email" => answer # "refused"
  /\ posts' = [posts EXCEPT ![task[a].id] = @ + 1]
  /\ Decide(a, Classify(answer, task[a].attempt))
  /\ UNCHANGED <<subVars, msgVars, rowVars, batch, faults,
                 steady, enqueued, missed, stranded>>

\* UPDATE deliveries ... WHERE id = $1, whatever the row has become. A row
\* whose update fails keeps the status it has.
RecordAttempt(a) ==
  /\ task[a].stage = "record"
  /\ \/ /\ LET d == task[a].id  v == task[a].verdict IN
             row' = [row EXCEPT ![d] =
               IF @ = NoRow THEN @
               ELSE [@ EXCEPT !.status = v.status, !.attempt = v.attempt,
                              !.retry = v.retry]]
        /\ UNCHANGED <<faults, stranded>>
     \/ /\ Fault
        /\ stranded' = IF a \in Pollers THEN stranded \cup {task[a].id} ELSE stranded
        /\ UNCHANGED row
  /\ task' = [task EXCEPT ![a] = Idle]
  /\ UNCHANGED <<subVars, msgVars, nextId, batch, posts, steady, enqueued, missed>>

(***************************************************************************)
(* Consumer.handle: fan-out, and the first attempt at each row             *)
(***************************************************************************)
Publish(m, e) ==
  /\ msg[m] = "unsent"
  /\ event' = [event EXCEPT ![m] = e]
  /\ msg' = [msg EXCEPT ![m] = "ready"]
  /\ steady' = [steady EXCEPT ![m] = {s \in enabled : Wants(s, e)}]
  /\ UNCHANGED <<subVars, delivered, handling, todo, rowVars, batch, task,
                 faults, posts, enqueued, missed, stranded>>

Redelivered(m) == IF delivered[m] < MaxDeliver THEN "ready" ELSE "spent"

\* An event this build does not know is terminal. MatchingSubscriptions failing
\* is retried, until the last delivery sends the event to the DLQ.
Receive(c, m) ==
  /\ handling[c] = Nothing /\ msg[m] = "ready"
  /\ delivered' = [delivered EXCEPT ![m] = @ + 1]
  /\ \/ /\ event[m] \notin EventTypes
        /\ msg' = [msg EXCEPT ![m] = "dead"]
        /\ UNCHANGED <<handling, todo, faults>>
     \/ /\ event[m] \in EventTypes
        /\ msg' = [msg EXCEPT ![m] = "out"]
        /\ handling' = [handling EXCEPT ![c] = m]
        /\ todo' = [todo EXCEPT ![c] = Matching(m)]
        /\ UNCHANGED faults
     \/ /\ event[m] \in EventTypes /\ Fault
        /\ msg' = [msg EXCEPT ![m] =
                     IF delivered[m] + 1 < MaxDeliver THEN "ready" ELSE "dead"]
        /\ UNCHANGED <<handling, todo>>
  /\ UNCHANGED <<subVars, event, rowVars, batch, task, history>>

\* EnqueueDelivery: a pending row that is due at once, which this consumer then
\* attempts itself. One subscription's failure does not stop the others.
Enqueue(c, s, ref) ==
  /\ handling[c] # Nothing /\ task[c] = Idle /\ <<s, ref>> \in todo[c]
  /\ Kind[s] = "email" => HasEmailForm(event[handling[c]])
  /\ todo' = [todo EXCEPT ![c] = @ \ {<<s, ref>>}]
  /\ \/ /\ nextId \in Ids /\ Live(s)
        /\ row' = [row EXCEPT ![nextId] = [status |-> "pending", attempt |-> 1,
                                           retry |-> "null", sub |-> s]]
        /\ nextId' = nextId + 1
        /\ Working(c, nextId, s, ref, 1)
        /\ enqueued' = enqueued \cup {<<handling[c], s>>}
        /\ UNCHANGED <<faults, missed>>
     \/ /\ ~Live(s)
        /\ UNCHANGED <<rowVars, task, faults, enqueued, missed>>
     \/ /\ Fault
        /\ missed' = missed \cup {<<handling[c], s>>}
        /\ UNCHANGED <<rowVars, task, enqueued>>
  /\ UNCHANGED <<subVars, event, msg, delivered, handling, batch, posts, steady, stranded>>

\* An event without an email form is skipped.
SkipEmail(c, s, ref) ==
  /\ handling[c] # Nothing /\ task[c] = Idle /\ <<s, ref>> \in todo[c]
  /\ Kind[s] = "email" /\ ~HasEmailForm(event[handling[c]])
  /\ todo' = [todo EXCEPT ![c] = @ \ {<<s, ref>>}]
  /\ UNCHANGED <<subVars, event, msg, delivered, handling, rowVars, batch, task,
                 faults, history>>

\* handle returned nil. The ack is good also after the ack wait has passed.
Ack(c) ==
  /\ handling[c] # Nothing /\ task[c] = Idle /\ todo[c] = {}
  /\ msg' = [msg EXCEPT ![handling[c]] = "acked"]
  /\ handling' = [handling EXCEPT ![c] = Nothing]
  /\ UNCHANGED <<subVars, event, delivered, todo, rowVars, batch, task, faults, history>>

\* The ack wait passes while the consumer is still at it.
AckWaitPasses(c) ==
  /\ handling[c] # Nothing /\ msg[handling[c]] = "out"
  /\ msg' = [msg EXCEPT ![handling[c]] = Redelivered(handling[c])]
  /\ UNCHANGED <<subVars, event, delivered, handling, todo, rowVars, batch,
                 task, faults, history>>

(***************************************************************************)
(* Poller.tick                                                             *)
(***************************************************************************)
\* Slip: only rows with a retry time are looked at.
DueWithTime(d) == row[d].status = "pending" /\ row[d].retry = "due"

Due(d) == row[d].status = "pending" /\ row[d].retry \in {"null", "due"}

\* The time of the next retry comes.
BackoffPasses(d) ==
  /\ row[d].retry = "later"
  /\ row' = [row EXCEPT ![d].retry = "due"]
  /\ UNCHANGED <<subVars, msgVars, nextId, batch, task, faults, history>>

\* Slip: the claim only reads.
ReadDue(p, S) ==
  /\ batch[p] = {} /\ task[p] = Idle
  /\ Cardinality(S) \in 1..BatchSize /\ \A d \in S : Due(d)
  /\ batch' = [batch EXCEPT ![p] = {[id |-> d, sub |-> row[d].sub,
                                     attempt |-> row[d].attempt] : d \in S}]
  /\ UNCHANGED <<subVars, msgVars, rowVars, task, faults, history>>

\* claim_due_deliveries: the rows change status in the statement that selects
\* them. SKIP LOCKED may pass over a row that is due.
ClaimDue(p, S) ==
  /\ batch[p] = {} /\ task[p] = Idle
  /\ Cardinality(S) \in 1..BatchSize /\ \A d \in S : Due(d)
  /\ row' = [d \in Ids |-> IF d \in S THEN [row[d] EXCEPT !.status = "processing"]
                                      ELSE row[d]]
  /\ batch' = [batch EXCEPT ![p] = {[id |-> d, sub |-> row[d].sub,
                                     attempt |-> row[d].attempt] : d \in S}]
  /\ UNCHANGED <<subVars, msgVars, nextId, task, faults, history>>

\* GetSubscription for the next row of the batch: gone or unreadable, the row is
\* dead-lettered; otherwise the next attempt is made, enabled or not.
Lookup(p, claim) ==
  /\ claim \in batch[p] /\ task[p] = Idle
  /\ batch' = [batch EXCEPT ![p] = @ \ {claim}]
  /\ \/ /\ Live(claim.sub)
        /\ Working(p, claim.id, claim.sub, Ref(claim.sub), claim.attempt + 1)
        /\ UNCHANGED faults
     \/ /\ (~Live(claim.sub) /\ UNCHANGED faults) \/ Fault
        /\ task' = [task EXCEPT ![p] = [stage |-> "record", id |-> claim.id,
                      verdict |-> Verdict("dead_lettered", claim.attempt)]]
  /\ UNCHANGED <<subVars, msgVars, rowVars, history>>

(***************************************************************************)
(* Crashes. What a consumer was handling is redelivered; nothing takes up  *)
(* the rows a poller had claimed.                                          *)
(***************************************************************************)
CrashConsumer(c) ==
  /\ handling[c] # Nothing /\ Fault
  /\ msg' = [msg EXCEPT ![handling[c]] = IF @ = "out" THEN Redelivered(handling[c]) ELSE @]
  /\ handling' = [handling EXCEPT ![c] = Nothing]
  /\ todo' = [todo EXCEPT ![c] = {}]
  /\ task' = [task EXCEPT ![c] = Idle]
  /\ UNCHANGED <<subVars, event, delivered, rowVars, batch, history>>

Holds(a, d) ==
  \/ task[a] # Idle /\ task[a].id = d
  \/ a \in Pollers /\ \E claim \in batch[a] : claim.id = d

CrashPoller(p) ==
  /\ task[p] # Idle \/ batch[p] # {}
  /\ Fault
  /\ stranded' = stranded \cup {d \in Ids : Holds(p, d)}
  /\ batch' = [batch EXCEPT ![p] = {}]
  /\ task' = [task EXCEPT ![p] = Idle]
  /\ UNCHANGED <<subVars, msgVars, rowVars, posts, steady, enqueued, missed>>

-----------------------------------------------------------------------------
Answers == {"ok", "later", "refused"}

UserStep == \E s \in Subs :
  \/ Create(s) \/ Delete(s) \/ \E on \in BOOLEAN : SetEnabled(s, on)
HandlerStep == \E s \in Subs : StoreSecret(s) \/ SetSecretRef(s)
AttemptStep(a) == GiveUp(a) \/ RecordAttempt(a) \/ \E answer \in Answers : Send(a, answer)
ConsumerStep(c) ==
  \/ \E m \in Messages : Receive(c, m)
  \/ \E s \in Subs, ref \in {"placeholder", "path"} : Enqueue(c, s, ref) \/ SkipEmail(c, s, ref)
  \/ AttemptStep(c) \/ Ack(c)
PollerStep(p) ==
  \/ \E S \in SUBSET Ids : ClaimDue(p, S)
  \/ \E claim \in batch[p] : Lookup(p, claim)
  \/ AttemptStep(p)
FaultStep ==
  \/ \E c \in Consumers : CrashConsumer(c) \/ AckWaitPasses(c)
  \/ \E p \in Pollers : CrashPoller(p)

NotifyNext ==
  \/ UserStep \/ HandlerStep \/ FaultStep
  \/ \E m \in Messages, e \in Events : Publish(m, e)
  \/ \E c \in Consumers : ConsumerStep(c)
  \/ \E p \in Pollers : PollerStep(p)
  \/ \E d \in Ids : BackoffPasses(d)

NotifySpec == NotifyInit /\ [][NotifyNext]_notifyVars

-----------------------------------------------------------------------------
(***************************************************************************)
(* Properties                                                              *)
(***************************************************************************)
Verdicts == [status : {"pending", "delivered", "dead_lettered"},
             attempt : 1..MaxAttempts, retry : {"null", "later"}]
Tasks == {Idle}
  \cup [stage : {"send"}, id : Ids, sub : Subs, ref : {"placeholder", "path"},
        attempt : 1..MaxAttempts]
  \cup [stage : {"record"}, id : Ids, verdict : Verdicts]
Claims == [id : Ids, sub : Subs, attempt : 1..(MaxAttempts - 1)]
Rows == {NoRow} \cup [status : {"pending", "processing", "delivered", "dead_lettered"},
                      attempt : 1..MaxAttempts, retry : {"null", "later", "due"},
                      sub : Subs]

\* The state is well formed: in particular no row is due, and no attempt is
\* made, beyond MaxAttempts (webhook.go:223, Classify and ShouldDeadLetter).
NotifyTypeOK ==
  /\ sub \in [Subs -> {"none", "new", "put", "ready", "unsigned", "deleted"}]
  /\ enabled \subseteq {s \in Subs : Live(s)}
  /\ event \in [Messages -> Events \cup {"none"}]
  /\ msg \in [Messages -> {"unsent", "ready", "out", "acked", "dead", "spent"}]
  /\ delivered \in [Messages -> 0..MaxDeliver]
  /\ row \in [Ids -> Rows] /\ nextId \in 1..(MaxRows + 1)
  /\ handling \in [Consumers -> Messages \cup {Nothing}]
  /\ todo \in [Consumers -> SUBSET (Subs \X {"placeholder", "path"})]
  /\ batch \in [Pollers -> SUBSET Claims]
  /\ task \in [Actors -> Tasks]
  /\ posts \in [Ids -> Nat] /\ edits \in 0..MaxEdits /\ faults \in 0..MaxFaults
  /\ steady \in [Messages -> SUBSET Subs]
  /\ enqueued \subseteq Messages \X Subs /\ missed \subseteq Messages \X Subs
  /\ stranded \subseteq Ids

\* However consumers, pollers and late updates overlap, no delivery is ever
\* worked on by three actors at once, and by two only while the row cannot be
\* claimed: the claim (0002_delivery_worker.sql:50) and the unconditional update
\* (store.go:205) pass on at most the two turns that the insert starts with.
AtMostTwoAttempts ==
  \A d \in Ids :
    /\ \A a, b, c \in Actors :
         Holds(a, d) /\ Holds(b, d) /\ Holds(c, d) => a = b \/ b = c \/ a = c
    /\ row[d].status = "pending" =>
         \A a, b \in Actors : Holds(a, d) /\ Holds(b, d) => a = b

\* A receiver sees one delivery at most 2 * MaxAttempts - 1 times: late updates
\* may take the attempt counter back, but only by one schedule's worth.
PostsBounded == \A d \in Ids : posts[d] <= 2 * MaxAttempts - 1

\* An event that the consumer acked has a delivery row for everyone who
\* subscribed before it was published and has not been switched off since,
\* other than those whose insert failed and email for events without a mail
\* (consumer.go:75).
AckedEventIsOwed ==
  \A m \in Messages, s \in Subs :
    /\ msg[m] = "acked" /\ s \in steady[m]
    /\ Kind[s] = "email" => HasEmailForm(event[m])
    => <<m, s>> \in enqueued \cup missed

\* No delivery is forgotten: a row that is neither delivered nor dead-lettered is
\* in somebody's hands or will be due again, unless the poller that claimed it
\* died or could not write (poller.go:50, 0002_delivery_worker.sql:51).
NoDeliveryForgotten ==
  \A d \in Ids : row[d].status \in {"pending", "processing"} =>
    \/ \E a \in Actors : Holds(a, d)
    \/ row[d].status = "pending" /\ (Due(d) \/ row[d].retry = "later")
    \/ d \in stranded

\* No delivery is worked on by three actors at once, or by two while it can be
\* claimed, and a receiver sees it a bounded number of times (Attempt,
\* claim_due_deliveries).
DeliveryIsBounded == NotifyTypeOK /\ AtMostTwoAttempts /\ PostsBounded

\* An event that was acked has a row for everyone who subscribed, and no row is
\* forgotten (handle, tick, claim_due_deliveries).
EveryoneIsServed == AckedEventIsOwed /\ NoDeliveryForgotten
=============================================================================
