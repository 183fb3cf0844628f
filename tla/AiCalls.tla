-------------------------------- MODULE AiCalls --------------------------------
(***************************************************************************)
(* Calls of the AI provider: the router's chains of models                 *)
(* (providers/ai/router.py), the attempts and repairs of one model         *)
(* (providers/ai/gemini.py) and the quota they draw on                     *)
(* (core/rate_limiter.py).                                                 *)
(*                                                                         *)
(* Time.  Rows are counted by age, in ticks: log[m][a] is the number of    *)
(* usage rows of model m whose created_at is a ticks ago.  created_at is   *)
(* PostgreSQL's now(), the start of the transaction that inserts the row,  *)
(* so a reservation is as old as its session's transaction (opened).  Rows *)
(* that count for neither the minute nor the day are forgotten.            *)
(*                                                                         *)
(* The token limit depends on amounts that are not modelled: where rows of *)
(* the minute have used tokens it may refuse.  A prompt alone stays below. *)
(***************************************************************************)
EXTENDS Integers, Sequences, FiniteSetsExt

CONSTANTS
  Models, Rpm, Rpd,     \* the models of quotas.yaml and their limits
  Premium, Routine,     \* PREMIUM_CHAIN and ROUTINE_CHAIN
  Kinds,                \* what is asked for: "text", "batch", "briefing", "trade"
  Procs,                \* coroutines, threads or processes that call the router
  MaxAttempts,          \* gemini_max_retries + 1
  Minute, Day,          \* the rolling window and the provider's day, in ticks
  Cleanup,              \* STALE_RESERVATION_MINUTES, in ticks
  Flight,               \* the longest an attempt waits for its response
  Slack,                \* how long a transaction is open before its call is made
  MaxOrphans            \* bound on reservations of dead processes at a time

Oldest == IF Day > Cleanup + 1 THEN Day ELSE Cleanup + 1
Ages == 0 .. Oldest
None == -1

ASSUME CallsAssumption ==
  /\ Rpm \in [Models -> Nat] /\ Rpd \in [Models -> Nat]
  /\ {Premium, Routine} \subseteq Seq(Models) \ {<<>>}
  /\ Kinds \subseteq {"text", "batch", "briefing", "trade"}
  /\ {MaxAttempts, Minute, Day} \subseteq Nat \ {0}
  /\ {Flight, Slack, MaxOrphans} \subseteq Nat
  /\ Cleanup \in Nat /\ Minute <= Cleanup /\ Flight + Slack <= Cleanup
  /\ IsFiniteSet(Procs)

VARIABLES
  phase,    \* ticks since the provider's day began
  log,      \* [Models -> [Ages -> Nat]]: rows of ai_usage_log
  orphans,  \* the same for reservations whose process has died
  served,   \* the same for requests the provider took on, by their sending (history)
  call      \* [Procs -> Call]: the call in progress; row is its reservation

callVars == <<phase, log, orphans, served, call>>

-----------------------------------------------------------------------------
(* Counting *)

NoRows == [m \in Models |-> [a \in Ages |-> 0]]

Older(a) == IF a = None \/ a = Oldest THEN a ELSE a + 1

Model(c) == c.chain[c.at]

Between(rows, low, high) ==
  LET upTo[a \in low - 1 .. high] == IF a < low THEN 0 ELSE upTo[a - 1] + rows[a]
  IN  upTo[high]

\* Live reservations of model m with an age in the window.
Live(m, low, high) ==
  Cardinality({p \in Procs : /\ call[p].row \in low .. high
                             /\ Model(call[p]) = m})

\* Mutant: counts completed calls only.
UsedCompleted(m, age) == Between(log[m], 0, age)

\* Usage rows and reservations created at most age ticks ago.
Used(m, age) ==
  Between(log[m], 0, age) + Between(orphans[m], 0, age) + Live(m, 0, age)

\* ensure_quota: what it may answer.
Verdicts(m) ==
  IF Used(m, phase) >= Rpd[m] THEN {"rpd"}
  ELSE IF Used(m, Minute) >= Rpm[m] THEN {"rpm"}
  ELSE {"ok"} \cup {v \in {"tpm"} : Used(m, Minute) > 0}

Counted(rows, m, age) == [rows EXCEPT ![m][age] = @ + 1]

-----------------------------------------------------------------------------
(* One call: chain of models, attempts, repairs *)

Idle == [pc |-> "idle", kind |-> "text", chain |-> Routine, at |-> 1, attempt |-> 1,
         round |-> "first", have |-> FALSE, opened |-> None, row |-> None,
         out |-> None, why |-> "none"]

Batch(c) == c.kind \in {"batch", "trade"}
Tail503(c) == c.at = Len(c.chain)

\* The router goes on with the next model; the last failure ends the call.
NextModel(c, why) ==
  IF c.at < Len(c.chain)
  THEN [c EXCEPT !.at = @ + 1, !.pc = "check", !.attempt = 1, !.round = "first",
                 !.have = FALSE]
  ELSE [c EXCEPT !.pc = "failed", !.why = why]

\* What was decoded is the result; nothing valid is a failure of the model.
Result(c) == IF c.have THEN [c EXCEPT !.pc = "answered"] ELSE NextModel(c, "upstream")

\* A failed request ends the model, except the targeted repair of a batch.
CallFails(c, why) == IF c.round = "targeted" THEN Result(c) ELSE NextModel(c, why)

Repair(c, round, have) ==
  [c EXCEPT !.round = round, !.have = have, !.pc = "reserve", !.attempt = 1]

\* The text of a batch: whether it decodes, whether some report in it is valid and
\* whether some symbol failed without a valid report.
Texts == [decodes : BOOLEAN, valid : BOOLEAN, failures : BOOLEAN]

AfterBatch(c, t) ==
  CASE c.round = "first" /\ ~t.decodes             -> Repair(c, "whole", FALSE)
    [] c.round = "first" /\ t.decodes /\ t.failures -> Repair(c, "targeted", t.valid)
    [] c.round = "whole" /\ ~t.decodes             -> NextModel(c, "upstream")
    [] OTHER -> Result([c EXCEPT !.have = @ \/ (t.decodes /\ t.valid)])

AfterText(c, valid) ==
  CASE valid                        -> Result([c EXCEPT !.have = TRUE])
    [] ~valid /\ c.round = "first"  -> Repair(c, "whole", FALSE)
    [] OTHER                        -> NextModel(c, "upstream")

Update(p, c) == call' = [call EXCEPT ![p] = c]

\* The prompt is ready.  The first SELECT it took has opened the session's transaction,
\* a while ago when feeds were awaited since.
Starts(p, kind) ==
  /\ call[p].pc = "idle"
  /\ \E age \in 0 .. Slack :
       Update(p, [Idle EXCEPT !.pc = "check", !.kind = kind, !.opened = age,
                  !.chain = IF kind \in {"briefing", "trade"} THEN Premium
                            ELSE Routine])
  /\ UNCHANGED <<phase, log, orphans, served>>

Begin(p) == \E kind \in Kinds : Starts(p, kind)

Opened(c) == IF c.opened = None THEN 0 ELSE c.opened

Check(p) ==
  /\ call[p].pc = "check"
  /\ \E v \in Verdicts(Model(call[p])) :
       Update(p, LET c == [call[p] EXCEPT !.opened = Opened(call[p])]
                 IN  IF v = "ok" THEN [c EXCEPT !.pc = "reserve"] ELSE NextModel(c, v))
  /\ UNCHANGED <<phase, log, orphans, served>>

\* One step: the advisory lock of the model is held from the counting to the commit.
Reserve(p) ==
  /\ call[p].pc \in {"reserve", "sleep"}
  /\ \E v \in Verdicts(Model(call[p])) :
       Update(p, LET c == [call[p] EXCEPT !.opened = Opened(call[p])]
                 IN  IF v = "ok"
                     THEN [c EXCEPT !.pc = "sent", !.row = c.opened, !.opened = None,
                                    !.out = 0]
                     ELSE CallFails(c, v))
  /\ UNCHANGED <<phase, log, orphans, served>>

Outcomes == {"unsent timeout", "unsent", "late", "broken", "overload", "limited",
             "limited long", "text"}

\* What counts for the provider: it took the request on.
Served == {"late", "broken", "overload", "text"}

\* Mutant: a rate-limited request is sent again without counting the attempt.
RetriedForever(c, o) ==
  IF o = "limited" THEN [c EXCEPT !.pc = "sleep"]
  ELSE [c EXCEPT !.pc = "sleep", !.attempt = @ + 1]

Retried(c, o) == [c EXCEPT !.pc = "sleep", !.attempt = @ + 1]

MayRetry(c, o) ==
  /\ c.attempt < MaxAttempts
  /\ \/ o \in {"unsent timeout", "late", "limited"}
     \/ o = "overload" /\ Tail503(c)

\* Mutant: a request that timed out is taken for one that never arrived.
ChargedWhenAnswered(c, o) ==
  \/ o \in {"broken", "overload", "limited long", "text"}
  \/ o = "limited" /\ ~MayRetry(c, o)

\* Requests that never arrived, and rate-limited ones that are repeated, are released.
Charged(c, o) ==
  \/ o \in {"late", "broken", "overload", "limited long", "text"}
  \/ o = "limited" /\ ~MayRetry(c, o)

\* finalize_quota keeps the created_at of the reservation.
Settled(c, rows) == Counted(rows, Model(c), c.row)

Respond(p) ==
  /\ call[p].pc = "sent"
  /\ \E o \in Outcomes :
       LET c == [call[p] EXCEPT !.row = None, !.out = None]
           after == CASE MayRetry(c, o) -> {Retried(c, o)}
                      [] ~MayRetry(c, o) /\ o \in {"limited", "limited long"} ->
                           {CallFails(c, "upstream 429")}
                      [] o = "text" /\ Batch(c) ->
                           {AfterBatch(c, t) : t \in Texts} \cup {CallFails(c, "upstream")}
                      [] o = "text" /\ ~Batch(c) ->
                           {AfterText(c, v) : v \in BOOLEAN} \cup {CallFails(c, "upstream")}
                      [] OTHER -> {CallFails(c, "upstream")}
       IN /\ \E d \in after : Update(p, d)
          /\ log' = IF Charged(c, o) /\ call[p].row # None THEN Settled(call[p], log) ELSE log
          /\ served' = IF o \in Served THEN Counted(served, Model(c), call[p].out)
                       ELSE served
  /\ UNCHANGED <<phase, orphans>>

Return(p) ==
  /\ call[p].pc \in {"answered", "failed"}
  /\ Update(p, Idle)
  /\ UNCHANGED <<phase, log, orphans, served>>

\* The task is cancelled at an await: the finally clause releases the reservation.
Cancel(p) ==
  /\ call[p].pc \in {"sent", "sleep"}
  /\ Update(p, Idle)
  /\ UNCHANGED <<phase, log, orphans, served>>

\* The process dies: its reservation stays.
Die(p) ==
  /\ call[p].pc = "sent" /\ call[p].row # None
  /\ MapThenSumSet(LAMBDA m : Between(orphans[m], 0, Oldest), Models) < MaxOrphans
  /\ orphans' = Counted(orphans, Model(call[p]), call[p].row)
  /\ served' = Counted(served, Model(call[p]), call[p].out)
  /\ Update(p, Idle)
  /\ UNCHANGED <<phase, log>>

-----------------------------------------------------------------------------
(* Time and maintenance *)

\* Between awaits no time passes; an attempt is over within its timeouts.
TimeMayPass ==
  \A p \in Procs :
    CASE call[p].pc \in {"check", "reserve", "answered", "failed"} -> FALSE
      [] call[p].pc = "sent"    -> call[p].out < Flight
      [] OTHER -> TRUE

\* Rows move to the next age; those in keep stay at Oldest.
Aged(rows, keep) ==
  [m \in Models |-> [a \in Ages |->
     IF a \notin keep THEN 0
     ELSE (IF a = 0 THEN 0 ELSE rows[m][a - 1])
            + (IF a = Oldest THEN rows[m][a] ELSE 0)]]

Tick ==
  /\ TimeMayPass
  /\ phase' = (phase + 1) % Day
  /\ log' = Aged(log, 0 .. phase' \cup 0 .. Minute)
  /\ served' = Aged(served, 0 .. Minute - Slack)
  /\ orphans' = Aged(orphans, Ages)
  /\ call' = [p \in Procs |->
                [call[p] EXCEPT !.opened = Older(@), !.row = Older(@), !.out = Older(@)]]

\* Mutant: hours instead of minutes.
StaleNever(age) == age > 60 * Cleanup

Stale(age) == age > Cleanup

\* cleanup_expired_records deletes reservations by age alone, whosever they are.
DropReservations ==
  /\ \/ \E m \in Models, a \in Ages : Stale(a) /\ orphans[m][a] > 0
     \/ \E p \in Procs : Stale(call[p].row)
  /\ orphans' = [m \in Models |->
                   [a \in Ages |-> IF Stale(a) THEN 0 ELSE orphans[m][a]]]
  /\ call' = [p \in Procs |->
                IF Stale(call[p].row) THEN [call[p] EXCEPT !.row = None] ELSE call[p]]
  /\ UNCHANGED <<phase, log, served>>

-----------------------------------------------------------------------------
CallsInit ==
  /\ phase = 0
  /\ log = NoRows /\ orphans = NoRows /\ served = NoRows
  /\ call = [p \in Procs |-> Idle]

CallSteps(p) ==
  Check(p) \/ Reserve(p) \/ Respond(p)

Clock == Tick \/ DropReservations

\* Coroutines are resumed, responses or timeouts come, time passes, and maintenance runs.
CallsFairness ==
  /\ \A p \in Procs : WF_callVars(CallSteps(p) \/ Return(p))
  /\ SF_callVars(Tick)
  /\ WF_callVars(DropReservations)

-----------------------------------------------------------------------------
(* Properties *)

Pcs == {"idle", "check", "reserve", "sent", "sleep", "answered", "failed"}

Call ==
  [pc : Pcs, kind : {"text", "batch", "briefing", "trade"}, chain : {Premium, Routine},
   at : Nat \ {0}, attempt : 1 .. MaxAttempts, round : {"first", "whole", "targeted"},
   have : BOOLEAN, opened : Ages \cup {None}, row : Ages \cup {None},
   out : Ages \cup {None},
   why : {"none", "rpd", "rpm", "tpm", "upstream", "upstream 429"}]

\* A call never answers with nothing: an empty or wholly invalid batch is a failure of
\* its model, after whatever repairs were tried (comment in _generate_batch).
NeverEmptyAnswer == \A p \in Procs : call[p].pc = "answered" => call[p].have

\* Every variable keeps its type, a call stands at a model of its chain, and an
\* answered call has something to answer with.
CallsTypeOK ==
  /\ phase \in 0 .. Day - 1
  /\ {log, orphans, served} \subseteq [Models -> [Ages -> Nat]]
  /\ call \in [Procs -> Call]
  /\ \A p \in Procs : call[p].at \in 1 .. Len(call[p].chain)
  /\ NeverEmptyAnswer

\* The cleanup never takes the reservation of a request that is still under way
\* (comment of STALE_RESERVATION_MINUTES).
FlightKeepsReservation == \A p \in Procs : call[p].pc = "sent" => call[p].row # None

\* The quota of a day holds for the rows that ensure_quota counts, in spite of several
\* callers and of a cleanup within the day: usage, reservations in flight and those of
\* dead processes never exceed the RPD, and no request in flight goes uncounted because
\* the cleanup took its reservation.  It is no bound on what the provider serves in a
\* day: the cleanup forgets what the dead have sent, a cancelled request gives its quota
\* back, and a request whose transaction began before midnight is yesterday's.
WithinDay ==
  /\ FlightKeepsReservation
  /\ \A m \in Models :
       Between(log[m], 0, phase) + Between(orphans[m], 0, phase) + Live(m, 0, phase)
         <= Rpd[m]

\* However late requests are settled, in no window does the provider take on more of a
\* model's requests than its RPM (ensure_quota).  The window is shorter than a minute
\* by as long as a transaction may be open before its request.  A request that was
\* cancelled is not counted: the code gives its quota back (_release_reservation).
WithinMinute ==
  \A m \in Models :
    Between(served[m], 0, Minute - Slack)
      + Cardinality({p \in Procs : /\ call[p].out \in 0 .. Minute - Slack
                                   /\ Model(call[p]) = m}) <= Rpm[m]

\* Every call of the router comes to an end, whatever the provider answers.
CallsEnd == \A p \in Procs : []<>(call[p].pc = "idle")

\* Quota held by a process that died comes back.
QuotaComesBack == []<>(orphans = NoRows)

=============================================================================
