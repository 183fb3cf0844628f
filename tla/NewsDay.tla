-------------------------------- MODULE NewsDay --------------------------------
(***************************************************************************)
(* The daily news research of one market (news_research_daily in           *)
(* scheduler/jobs.py, run_news_research in services/news_service.py) on    *)
(* top of AiCalls, beside other callers that draw on the same quota.       *)
(***************************************************************************)
EXTENDS AiCalls

CONSTANTS
  Stocks,         \* how many stocks are AI-managed; they are taken in a fixed order
  Newsroom,       \* the process that runs the job
  NewsRetries     \* NEWS_QUOTA_RETRIES

ASSUME NewsAssumption == Stocks \in Nat /\ Newsroom \in Procs /\ NewsRetries \in Nat \ {0}

VARIABLE news     \* the locals of news_research_daily

vars == <<callVars, news>>

Turn == [pc : {"next", "asking"}, left : 0 .. Stocks,
         tries : 1 .. NewsRetries,
         researched : Nat, skipped : Nat, failed : Nat]

\* The stock at hand is done with: the loop goes on to the next one.
Over(n) == [n EXCEPT !.left = @ - 1, !.tries = 1, !.pc = "next"]

\* Today's report exists, or the feed has no headlines: no model is asked.
WithoutModel ==
  /\ news.pc = "next" /\ news.left > 0
  /\ news' = [Over(news) EXCEPT !.researched = @ + 1]
  /\ UNCHANGED callVars

FeedFails ==
  /\ news.pc = "next" /\ news.left > 0
  /\ news' = [Over(news) EXCEPT !.failed = @ + 1]
  /\ UNCHANGED callVars

\* The lookup of today's report opens the transaction, the feed is awaited in it.
Ask ==
  /\ news.pc = "next" /\ news.left > 0
  /\ news' = [news EXCEPT !.pc = "asking"]
  /\ Starts(Newsroom, "text")

\* Mutant: an answer does not leave the loop of retries.
AnsweredAgain(n) == [n EXCEPT !.researched = @ + 1, !.pc = "next"]

Answered(n) == [Over(n) EXCEPT !.researched = @ + 1]

\* There is an answer, but the COMMIT of the report fails.
Unstored(n) == [Over(n) EXCEPT !.failed = @ + 1]

\* generate_structured turns every refusal of its models into an UpstreamError.
Raised(why) == "upstream"

\* The except clauses of the loop.
Handled(n, error) ==
  CASE error \in {"rpd", "upstream 429"} ->
         [n EXCEPT !.pc = "next", !.left = 0, !.skipped = @ + n.left]  \* the rest too
    [] error \in {"rpm", "tpm"} /\ n.tries < NewsRetries ->
         [n EXCEPT !.pc = "next", !.tries = @ + 1]  \* after a while
    [] error \in {"rpm", "tpm"} /\ n.tries = NewsRetries ->
         [Over(n) EXCEPT !.skipped = @ + 1]
    [] OTHER -> [Over(n) EXCEPT !.failed = @ + 1]

Told ==
  /\ news.pc = "asking"
  /\ \/ /\ call[Newsroom].pc = "answered"
        /\ news' \in {Answered(news), Unstored(news)}
     \/ /\ call[Newsroom].pc = "failed"
        /\ news' = Handled(news, Raised(call[Newsroom].why))
  /\ Update(Newsroom, Idle)
  /\ UNCHANGED <<phase, log, orphans, served>>

-----------------------------------------------------------------------------
NewsInit ==
  /\ CallsInit
  /\ news = [pc |-> "next", left |-> Stocks, tries |-> 1,
             researched |-> 0, skipped |-> 0, failed |-> 0]

Others == Procs \ {Newsroom}

NewsLoop == WithoutModel \/ FeedFails \/ Ask \/ Told

NewsNext ==
  \/ NewsLoop
  \/ UNCHANGED news /\ (\/ \E p \in Procs : CallSteps(p)
                        \/ \E p \in Others : Begin(p) \/ Return(p) \/ Cancel(p) \/ Die(p)
                        \/ Clock)

NewsSpec ==
  /\ NewsInit /\ [][NewsNext]_vars
  /\ CallsFairness /\ WF_vars(NewsLoop)

-----------------------------------------------------------------------------
(* Properties *)

\* Every managed stock is accounted for exactly once: researched, failed or skipped,
\* however calls end and quotas run out.
EveryStockOnce ==
  news.researched + news.failed + news.skipped + news.left = Stocks

\* Every variable keeps its type, and the counts of the loop add up.
NewsTypeOK == CallsTypeOK /\ news \in Turn /\ EveryStockOnce

\* A stock refused by the window of a minute is tried again or skipped, and never
\* given up as failed (docstring of news_research_daily).
QuotaIsNotFailure ==
  [][news'.failed = news.failed + 1 => call[Newsroom].why \notin {"rpm", "tpm"}]_vars

=============================================================================
