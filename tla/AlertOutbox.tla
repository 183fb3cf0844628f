------------------------------ MODULE AlertOutbox ------------------------------
(***************************************************************************)
(* Alerts and their notifications (services/alert_service.py, the alert    *)
(* handlers of api/v1/alerts.py).  A run of alert_check_daily first adds   *)
(* an event for every alert whose condition is met, then sends the oldest  *)
(* pending events to the webhook in one request and marks them after the   *)
(* answer.  Runs of different workers and markets overlap; alerts are      *)
(* created and deleted meanwhile.                                          *)
(***************************************************************************)
EXTENDS Integers, FiniteSets

CONSTANTS
  Alerts,         \* ids of alerts, each used once
  Checks,         \* runs of alert_check_daily that may overlap
  AlertDays,      \* bound: trading days that bring a price
  PerPost,        \* how many events one delivery takes (100)
  MaxNotify,      \* MAX_NOTIFY_ATTEMPTS
  MaxDeaths,      \* bound: crashes of a run
  HasUrl          \* whether ALERT_WEBHOOK_URL is set

ASSUME AlertAssumption ==
  /\ AlertDays \in Nat /\ PerPost \in Nat \ {0} /\ MaxNotify \in Nat \ {0}
  /\ MaxDeaths \in Nat /\ HasUrl \in BOOLEAN

VARIABLES
  unborn,         \* alerts not created yet
  alerts,         \* alerts in the table
  priceDay,       \* trading day of the newest prices
  outbox,         \* alert_events: id |-> row; who is older has the lower id
  given,          \* how many ids alert_events has given away
  check,          \* per run, its locals
  triggered,      \* ghost: how often a run counted and reported a trigger, per alert and day
  deaths

alertVars == <<unborn, alerts, priceDay, outbox, given, check, triggered, deaths>>

Resting == [step |-> "rest"]

\* uq_alert_events_daily.
KeyOf(e) == <<e.alert, e.day>>
Known(key) == \E i \in DOMAIN outbox : KeyOf(outbox[i]) = key

Taken(key) == Known(key)

\* The prices of a day arrive; what they are, and their corrections, decide whether a
\* condition is met: at any moment it may be or not.
NewPrices ==
  /\ priceDay < AlertDays
  /\ priceDay' = priceDay + 1
  /\ UNCHANGED <<unborn, alerts, outbox, given, check, triggered, deaths>>

CreateAlert(a) ==
  /\ a \in unborn
  /\ unborn' = unborn \ {a} /\ alerts' = alerts \cup {a}
  /\ UNCHANGED <<priceDay, outbox, given, check, triggered, deaths>>

\* The events go with the alert.
DeleteAlert(a) ==
  /\ a \in alerts
  /\ alerts' = alerts \ {a}
  /\ outbox' = [i \in {j \in DOMAIN outbox : outbox[j].alert # a} |-> outbox[i]]
  /\ UNCHANGED <<unborn, priceDay, given, check, triggered, deaths>>

\* check_alerts reads the active alerts of the market.
StartRun(r) ==
  /\ check[r] = Resting
  /\ check' = [check EXCEPT ![r] = [step |-> "look", todo |-> alerts, reload |-> FALSE]]
  /\ UNCHANGED <<unborn, alerts, priceDay, outbox, given, triggered, deaths>>

\* One alert of the loop: its latest value, and whether today's event exists.
\* After a rollback the alert is read again, and it may be gone.
CheckAlert(r) ==
  /\ check[r].step = "look"
  /\ \E a \in check[r].todo :
       LET rest == [check[r] EXCEPT !.todo = @ \ {a}] IN
       IF check[r].reload /\ a \notin alerts
       THEN check' = [check EXCEPT ![r] = Resting]
       ELSE \/ check' = [check EXCEPT ![r] = rest]
            \/ /\ priceDay > 0 /\ ~Known(<<a, priceDay>>)  \* _condition_met
               /\ check' = [check EXCEPT ![r] =
                    [step |-> "insert", todo |-> rest.todo, reload |-> rest.reload,
                     alert |-> a, day |-> priceDay]]
  /\ UNCHANGED <<unborn, alerts, priceDay, outbox, given, triggered, deaths>>

NewEvent(a, d) ==
  [alert |-> a, day |-> d, status |-> "pending", attempts |-> 0, posts |-> 0, heard |-> FALSE]

\* The event is committed, or an IntegrityError rolls it back: somebody else's
\* event of the day is there, or the alert is not.
InsertEvent(r) ==
  LET x == check[r]
      fails == x.alert \notin alerts \/ Taken(<<x.alert, x.day>>)
  IN
  /\ x.step = "insert"
  /\ check' = [check EXCEPT ![r] =
       [step |-> "look", todo |-> x.todo, reload |-> x.reload \/ fails]]
  /\ IF fails THEN UNCHANGED <<outbox, given, triggered>>
     ELSE /\ given' = given + 1
          /\ outbox' = [i \in DOMAIN outbox \cup {given + 1} |->
               IF i = given + 1 THEN NewEvent(x.alert, x.day) ELSE outbox[i]]
          /\ triggered' = [triggered EXCEPT ![<<x.alert, x.day>>] = @ + 1]
  /\ UNCHANGED <<unborn, alerts, priceDay, deaths>>

Pending == {i \in DOMAIN outbox : outbox[i].status = "pending"}
Oldest == {i \in Pending : Cardinality({j \in Pending : j < i}) < PerPost}

\* deliver_pending_notifications reads its batch, and what it keeps over the await is the
\* count of attempts of each event; with nothing pending the run is over.
Collect(r) ==
  /\ check[r].step = "look" /\ check[r].todo = {}
  /\ check' = [check EXCEPT ![r] =
       IF Pending = {} THEN Resting
       ELSE [step |-> "post", batch |-> [i \in Oldest |-> outbox[i].attempts]]]
  /\ UNCHANGED <<unborn, alerts, priceDay, outbox, given, triggered, deaths>>

Posted(e, ok) ==
  [e EXCEPT !.posts = IF @ < MaxNotify THEN @ + 1 ELSE @, !.heard = @ \/ ok]

\* send_alert_notifications: one request for the whole batch, awaited.  Without a
\* URL nothing is sent and nothing has failed.
Post(r) ==
  /\ check[r].step = "post"
  /\ \E ok \in BOOLEAN :
       /\ check' = [check EXCEPT ![r] =
            [step |-> "mark", batch |-> check[r].batch, ok |-> ok \/ ~HasUrl]]
       /\ outbox' = [i \in DOMAIN outbox |->
            IF HasUrl /\ i \in DOMAIN check[r].batch THEN Posted(outbox[i], ok) ELSE outbox[i]]
  /\ UNCHANGED <<unborn, alerts, priceDay, given, triggered, deaths>>

\* Mutant: a failed batch is tried for ever.
NeverGivesUp(e, read, ok) ==
  [e EXCEPT !.attempts = read + (IF read < MaxNotify THEN 1 ELSE 0),
            !.status = IF ok THEN "sent" ELSE @]

\* Mutant: more than the limit instead of the limit.
GivesUpLate(e, read, ok) ==
  [e EXCEPT !.attempts = read + 1,
            !.status = IF ok THEN "sent" ELSE IF read >= MaxNotify THEN "failed" ELSE @]

\* Mutant: a batch that was sent counts as sent whatever the answer.
AssumesSent(e, read, ok) == [e EXCEPT !.attempts = read + 1, !.status = "sent"]

\* The UPDATE of one event: attempts from the value read before the await, and a
\* status only where it changes.
Marked(e, read, ok) ==
  [e EXCEPT !.attempts = read + 1,
            !.status = IF ok THEN "sent"
                       ELSE IF read + 1 >= MaxNotify THEN "failed" ELSE @]

\* One COMMIT for the batch; an event deleted meanwhile is an UPDATE without a row,
\* and the whole batch stays as it is.
Mark(r) ==
  LET batch == check[r].batch IN
  /\ check[r].step = "mark"
  /\ outbox' = IF ~(DOMAIN batch \subseteq DOMAIN outbox) THEN outbox
               ELSE [i \in DOMAIN outbox |->
                 IF i \in DOMAIN batch THEN Marked(outbox[i], batch[i], check[r].ok) ELSE outbox[i]]
  /\ check' = [check EXCEPT ![r] = Resting]
  /\ UNCHANGED <<unborn, alerts, priceDay, given, triggered, deaths>>

RunDies(r) ==
  /\ check[r] # Resting /\ deaths < MaxDeaths
  /\ check' = [check EXCEPT ![r] = Resting]
  /\ deaths' = deaths + 1
  /\ UNCHANGED <<unborn, alerts, priceDay, outbox, given, triggered>>

AlertInit ==
  /\ unborn = Alerts /\ alerts = {} /\ priceDay = 0
  /\ outbox = [i \in {} |-> 0] /\ given = 0
  /\ triggered = [key \in Alerts \X (1 .. AlertDays) |-> 0] /\ deaths = 0
  /\ check = [r \in Checks |-> Resting]

RunStep(r) ==
  StartRun(r) \/ CheckAlert(r) \/ InsertEvent(r) \/ Collect(r) \/ Post(r) \/ Mark(r)

AlertNext ==
  \/ NewPrices
  \/ \E a \in Alerts : CreateAlert(a) \/ DeleteAlert(a)
  \/ \E r \in Checks : RunStep(r) \/ RunDies(r)

\* The daily run comes again and again, and none of its awaits lasts for ever.
AlertFairness == \A r \in Checks : WF_alertVars(RunStep(r))

AlertSpec == AlertInit /\ [][AlertNext]_alertVars /\ AlertFairness

-----------------------------------------------------------------------------
Events ==
  [alert : Alerts, day : 1 .. AlertDays, status : {"pending", "sent", "failed"},
   attempts : 0 .. MaxNotify, posts : 0 .. MaxNotify, heard : BOOLEAN]

Batches == UNION {[ids -> 0 .. MaxNotify] : ids \in SUBSET (1 .. given)}

AlertTypeOK ==
  /\ unborn \subseteq Alerts /\ alerts \subseteq Alerts \ unborn
  /\ priceDay \in 0 .. AlertDays
  /\ given \in Nat /\ DOMAIN outbox \subseteq 1 .. given
  /\ outbox \in [DOMAIN outbox -> Events] /\ triggered \in [Alerts \X (1 .. AlertDays) -> Nat]
  /\ check \in [Checks -> {Resting}
       \cup [step : {"look"}, todo : SUBSET Alerts, reload : BOOLEAN]
       \cup [step : {"insert"}, todo : SUBSET Alerts, reload : BOOLEAN,
             alert : Alerts, day : 1 .. AlertDays]
       \cup [step : {"post"}, batch : Batches]
       \cup [step : {"mark"}, batch : Batches, ok : BOOLEAN]]
  /\ deaths \in 0 .. MaxDeaths

(* "The same alert triggers only once on one trading day" (the module's        *)
(* docstring, alert_service.py:1), whatever runs look for it at the same time.  *)
TriggeredOncePerDay == \A key \in DOMAIN triggered : triggered[key] <= 1

(* With a webhook configured an event marked sent was in a request that the     *)
(* webhook accepted (alert_service.py:91): the mark comes after the await and    *)
(* from another run's reading, yet it never rests on an answer nobody got.         *)
SentWasHeard ==
  HasUrl => \A i \in DOMAIN outbox : outbox[i].status = "sent" => outbox[i].heard

(* An event is given up only after MAX_NOTIFY_ATTEMPTS real requests: overlapping *)
(* deliveries overwrite each other's count (alert_service.py:94), but only        *)
(* downwards, and a crash before the mark is not counted either.                  *)
FailedWasTried ==
  HasUrl => \A i \in DOMAIN outbox :
    /\ outbox[i].attempts <= outbox[i].posts
    /\ outbox[i].status = "failed" => outbox[i].posts >= MaxNotify

(* What the table of events says is true, however runs overlap and die.           *)
OutboxHonest == TriggeredOncePerDay /\ SentWasHeard /\ FailedWasTried

(* No event waits for ever behind older ones that cannot be delivered: each is    *)
(* in the end sent or given up, although counts go down when deliveries overlap   *)
(* and a batch of which an event was deleted is put back whole.                   *)
EventsSettle == []<>(Pending = {})
=============================================================================
