---------------------------- MODULE AdviceLedger ----------------------------
(***************************************************************************)
(* The recommendations of ai-service to the founder: the ledger            *)
(* (recommendation-ledger.service.ts), the jobs of the leader-locked       *)
(* scheduler that write it (the opportunity analysis, the expiry sweep and *)
(* the outcome snapshots), and the page of a recommendation in the admin   *)
(* console.                                                                *)
(*                                                                         *)
(* Every replica ticks, every job can be forced, and the routes of         *)
(* ai-service run the same code without the lock.  What an analysis finds  *)
(* in a zone is external: enough evidence, or not.                         *)
(***************************************************************************)
EXTENDS FaultBudget

CONSTANTS
  Pages,      \* browsers with the page of a recommendation
  MaxAdvice,  \* bound: recommendations written
  MaxJobs,    \* bound: runs of a job
  MaxDays     \* bound: days, which name the windows of the analysis
ASSUME AdviceBoundsAssumption == MaxAdvice \in Nat /\ MaxJobs \in Nat /\ MaxDays \in Nat \ {0}

VARIABLES
  advice,     \* ai_recommendations, by number
  day,        \* today
  due,        \* the jobs whose interval has passed since ai_scheduler_state
  lock,       \* the jobs with a key ai:scheduler:lock:<job>
  jobs,       \* runs under way
  jobsBegun,  \* their number so far
  adviceOn,   \* per page, the recommendation it shows and how it last saw it
  asks        \* requests of a page at ai-service, with the status they read

alVars == <<advice, day, due, lock, jobs, jobsBegun, adviceOn, asks>>
Scheduling == <<due, lock, jobsBegun>>
AtPages == <<adviceOn, asks>>
Advice == 1..MaxAdvice
JobNames == {"opportunity", "expire_sweep", "outcome_snapshots"}
Standing == {"proposed", "viewed"}
AdviceStatuses ==
  Standing \cup {"adopted", "dismissed", "expired", "outcome_pending", "outcome_scored"}
NoAdvice == [status |-> "none", day |-> 0, zoned |-> FALSE, lapsed |-> FALSE, evidence |-> FALSE]
Written(r) == advice[r].status # "none"

JobRuns ==
  [n : 1..MaxJobs, job : JobNames, how : {"tick", "forced", "direct"},
   at : {"lock", "again", "look", "work", "read", "write"}, day : 1..MaxDays,
   todo : SUBSET (Advice \X ({"none"} \cup AdviceStatuses)), seen : SUBSET JobNames]
AdviceRequests ==
  [op : {"view", "adopt", "dismiss", "score"}, page : Pages, advice : Advice,
   at : {"read", "write"}, from : {"none"} \cup AdviceStatuses]

AlTypeOK ==
  /\ advice \in [Advice -> [status : {"none"} \cup AdviceStatuses, day : 0..MaxDays,
                            zoned : BOOLEAN, lapsed : BOOLEAN, evidence : BOOLEAN]]
  /\ day \in 1..MaxDays /\ due \subseteq JobNames
  /\ lock \subseteq JobNames /\ jobsBegun \in 0..MaxJobs
  /\ jobs \subseteq JobRuns
  /\ adviceOn \in [Pages -> [advice : 0..MaxAdvice, status : {"none"} \cup AdviceStatuses,
                             evidence : BOOLEAN]]
  /\ asks \subseteq AdviceRequests

AlInit ==
  /\ advice = [r \in Advice |-> NoAdvice] /\ day = 1 /\ due = JobNames
  /\ lock = {} /\ jobs = {} /\ jobsBegun = 0 /\ asks = {}
  /\ adviceOn = [p \in Pages |-> [advice |-> 0, status |-> "none", evidence |-> FALSE]]

-----------------------------------------------------------------------------
(* The clock                                                                *)

NextDay ==
  /\ day < MaxDays /\ day' = day + 1
  /\ UNCHANGED <<advice, Scheduling, jobs, AtPages, faults>>

Lapses(r) ==
  /\ Written(r) /\ ~advice[r].lapsed /\ advice' = [advice EXCEPT ![r].lapsed = TRUE]
  /\ UNCHANGED <<day, Scheduling, jobs, AtPages, faults>>

\* Long enough passes for every job: an interval is six hours, a day or a week.
IntervalsPass ==
  /\ due # JobNames /\ due' = JobNames
  /\ UNCHANGED <<advice, day, lock, jobs, jobsBegun, AtPages, faults>>

\* The time to live of the lock exceeds any plausible run (job-config.ts).
LockExpires(j) ==
  /\ j \in lock /\ (\A c \in jobs : c.job = j => c.how = "direct") /\ lock' = lock \ {j}
  /\ UNCHANGED <<advice, day, due, jobs, jobsBegun, AtPages, faults>>

-----------------------------------------------------------------------------
(* The scheduler                                                            *)

JobGoes(c, d) == jobs' = (jobs \ {c}) \cup {d}
JobEnds(c) == jobs' = jobs \ {c}

\* maybeRun, runNow, or the route of the job itself; `now' is read once.
BeginJob(j, how) ==
  /\ jobsBegun < MaxJobs /\ jobsBegun' = jobsBegun + 1 /\ (how = "tick" => j \in due)
  /\ jobs' = jobs \cup {[n |-> jobsBegun', job |-> j, how |-> how, day |-> day, todo |-> {},
                         seen |-> {}, at |-> IF how = "direct" THEN "look" ELSE "lock"]}
  /\ UNCHANGED <<advice, day, due, lock, AtPages, faults>>

TakeLock(c) ==
  /\ c.at = "lock"
  /\ IF c.job \in lock THEN JobEnds(c) ELSE JobGoes(c, [c EXCEPT !.at = "again"])
  /\ lock' = lock \cup {c.job}
  /\ UNCHANGED <<advice, day, due, jobsBegun, AtPages, faults>>

\* Another replica may have run the job meanwhile; the lock is kept either way.  From here
\* on a run of a tick is as one that was forced.
DueAgain(c) ==
  /\ c.at = "again"
  /\ IF c.how = "forced" \/ c.job \in due
       THEN JobGoes(c, [c EXCEPT !.at = "look", !.how = "forced"]) ELSE JobEnds(c)
  /\ UNCHANGED <<advice, day, Scheduling, AtPages, faults>>

\* recordRun writes all jobs' runs as it read them.  A run of a route records nothing.
Done(c) == IF c.how = "direct" THEN JobEnds(c) ELSE JobGoes(c, [c EXCEPT !.at = "read", !.todo = {}])

ReadState(c) ==
  /\ c.at = "read" /\ JobGoes(c, [c EXCEPT !.at = "write", !.seen = due])
  /\ UNCHANGED <<advice, day, Scheduling, AtPages, faults>>

RecordRun(c) ==
  /\ c.at = "write" /\ JobEnds(c) /\ due' = (due \cup c.seen) \ {c.job}
  /\ UNCHANGED <<advice, day, lock, jobsBegun, AtPages, faults>>

\* The process dies, Redis does not answer, a query fails: the job waits for its lock.
JobFails(c) ==
  /\ JobEnds(c) /\ Fault /\ UNCHANGED <<advice, day, Scheduling, AtPages>>

-----------------------------------------------------------------------------
(* The opportunity analysis                                                 *)

IsStanding(r, d) == advice[r].day = d /\ advice[r].status \in Standing

\* The window of the analysis is that of its day: one that stands is not repeated.
LookForStanding(c) ==
  /\ c.job = "opportunity" /\ c.at = "look"
  /\ IF \E r \in Advice : IsStanding(r, c.day) THEN Done(c) ELSE JobGoes(c, [c EXCEPT !.at = "work"])
  /\ UNCHANGED <<advice, day, Scheduling, AtPages, faults>>

\* Without enough evidence it names no zone, and its outcome is never measured.
NewAdvice(d, zoned) ==
  [status |-> "proposed", day |-> d, zoned |-> zoned, lapsed |-> FALSE, evidence |-> FALSE]

\* create, with its first event.
CreateAdvice(c, r, zoned) ==
  /\ c.job = "opportunity" /\ c.at = "work" /\ Done(c)
  /\ ~Written(r) /\ (\A q \in 1..(r - 1) : Written(q))
  /\ advice' = [advice EXCEPT ![r] = NewAdvice(c.day, zoned)]
  /\ UNCHANGED <<day, Scheduling, AtPages, faults>>

-----------------------------------------------------------------------------
(* expireSweep: the rows are listed, then each is written in a transaction  *)

ListStale(c) ==
  /\ c.job = "expire_sweep" /\ c.at = "look"
  /\ JobGoes(c, [c EXCEPT !.at = "work", !.todo =
       {<<r, advice[r].status>> : r \in {q \in Advice : advice[q].status \in Standing
                                                        /\ advice[q].lapsed}}])
  /\ UNCHANGED <<advice, day, Scheduling, AtPages, faults>>

(* mutant: the row is updated by its id *)
ById(r, status) == Written(r)
StillIn(r, status) == advice[r].status = status

ExpireAdvice(c, t) ==
  /\ c.job = "expire_sweep" /\ c.at = "work" /\ t \in c.todo
  /\ JobGoes(c, [c EXCEPT !.todo = @ \ {t}])
  /\ advice' = IF StillIn(t[1], t[2]) THEN [advice EXCEPT ![t[1]].status = "expired"] ELSE advice
  /\ UNCHANGED <<day, Scheduling, AtPages, faults>>

-----------------------------------------------------------------------------
(* snapshotDue: decided recommendations without evidence are listed; each   *)
(* is then read, measured and written by its id                             *)

ListDecided(c) ==
  /\ c.job = "outcome_snapshots" /\ c.at = "look"
  /\ JobGoes(c, [c EXCEPT !.at = "work", !.todo =
       {<<r, "none">> : r \in {q \in Advice :
          advice[q].status \in {"adopted", "dismissed", "outcome_pending"}
          /\ advice[q].zoned /\ ~advice[q].evidence}}])
  /\ UNCHANGED <<advice, day, Scheduling, AtPages, faults>>

ReadDecided(c, t) ==
  /\ c.at = "work" /\ t[2] = "none" /\ (\A u \in c.todo : u[2] = "none")
  /\ JobGoes(c, [c EXCEPT !.todo = (@ \ {t}) \cup {<<t[1], advice[t[1]].status>>}])
  /\ UNCHANGED <<advice, day, Scheduling, AtPages, faults>>

\* Measuring takes a while: a decision recorded since is not looked at.
SnapshotOne(c, t) ==
  /\ c.job = "outcome_snapshots" /\ c.at = "work" /\ t[2] # "none"
  /\ JobGoes(c, [c EXCEPT !.todo = @ \ {t}])
  /\ advice' = [advice EXCEPT ![t[1]].evidence = TRUE,
                              ![t[1]].status = IF t[2] = "adopted" THEN "outcome_pending" ELSE @]
  /\ UNCHANGED <<day, Scheduling, AtPages, faults>>

\* None is left, or the others failed to be measured.
LoopEnds(c) ==
  /\ c.job # "opportunity" /\ c.at = "work" /\ Done(c)
  /\ (c.job = "expire_sweep" => c.todo = {})
  /\ UNCHANGED <<advice, day, Scheduling, AtPages, faults>>

-----------------------------------------------------------------------------
(* The page                                                                 *)

Asking(op, p, r) == [op |-> op, page |-> p, advice |-> r, at |-> "read", from |-> "none"]
Busy(p, ops) == \E c \in asks : c.page = p /\ c.op \in ops

\* A page is of one recommendation.  Fetched when it opens, and again at any time;
\* seen as proposed, it is marked viewed.
ShowAdvice(p, r) ==
  /\ Written(r) /\ adviceOn[p].advice \in {0, r}
  /\ adviceOn' = [adviceOn EXCEPT ![p] = [advice |-> r, status |-> advice[r].status,
                                          evidence |-> advice[r].evidence]]
  /\ adviceOn'[p] # adviceOn[p]
  /\ asks' = IF advice[r].status = "proposed" THEN asks \cup {Asking("view", p, r)} ELSE asks
  /\ UNCHANGED <<advice, day, Scheduling, jobs, faults>>

DecideAdvice(p, op) ==
  /\ adviceOn[p].status \in Standing /\ ~Busy(p, {"adopt", "dismiss"})
  /\ asks' = asks \cup {Asking(op, p, adviceOn[p].advice)}
  /\ UNCHANGED <<advice, day, Scheduling, jobs, adviceOn, faults>>

RecordOutcome(p) ==
  /\ adviceOn[p].evidence /\ adviceOn[p].status \in {"outcome_pending", "adopted", "dismissed"}
  /\ ~Busy(p, {"score"}) /\ asks' = asks \cup {Asking("score", p, adviceOn[p].advice)}
  /\ UNCHANGED <<advice, day, Scheduling, jobs, adviceOn, faults>>

\* STATUS_TRANSITIONS
Target(op) == CASE op = "view" -> "viewed" [] op = "adopt" -> "adopted"
                [] op = "dismiss" -> "dismissed" [] op = "score" -> "outcome_scored"
Legal(from) ==
  CASE from = "proposed" -> {"viewed", "adopted", "dismissed", "expired"}
    [] from = "viewed" -> {"adopted", "dismissed", "expired"}
    [] from = "adopted" -> {"outcome_pending", "outcome_scored"}
    [] from \in {"dismissed", "outcome_pending"} -> {"outcome_scored"}
    [] OTHER -> {}

\* transition: the row is read, and written if it still is as it was read.
ReadAdvice(c) ==
  /\ c.at = "read"
  /\ asks' = (asks \ {c}) \cup
       (IF Target(c.op) \in Legal(advice[c.advice].status)
          THEN {[c EXCEPT !.at = "write", !.from = advice[c.advice].status]} ELSE {})
  /\ UNCHANGED <<advice, day, Scheduling, jobs, adviceOn, faults>>

WriteAdvice(c) ==
  /\ c.at = "write" /\ asks' = asks \ {c}
  /\ advice' = IF StillIn(c.advice, c.from)
                 THEN [advice EXCEPT ![c.advice].status = Target(c.op)] ELSE advice
  /\ UNCHANGED <<day, Scheduling, jobs, adviceOn, faults>>

AskLost(c) ==
  /\ asks' = asks \ {c} /\ Fault /\ UNCHANGED <<advice, day, Scheduling, jobs, adviceOn>>

-----------------------------------------------------------------------------
JobStep(c) ==
  \/ TakeLock(c) \/ DueAgain(c) \/ ReadState(c) \/ RecordRun(c) \/ JobFails(c)
  \/ LookForStanding(c) \/ ListStale(c) \/ ListDecided(c) \/ LoopEnds(c)
  \/ \E r \in Advice, zoned \in BOOLEAN : CreateAdvice(c, r, zoned)
  \/ \E t \in c.todo : ExpireAdvice(c, t) \/ ReadDecided(c, t) \/ SnapshotOne(c, t)

AlNext ==
  \/ NextDay \/ (\E r \in Advice : Lapses(r))
  \/ IntervalsPass \/ (\E j \in JobNames : LockExpires(j))
  \/ \E j \in JobNames, how \in {"tick", "forced", "direct"} : BeginJob(j, how)
  \/ \E c \in jobs : JobStep(c)
  \/ \E p \in Pages, r \in Advice : ShowAdvice(p, r)
  \/ \E p \in Pages : RecordOutcome(p) \/ (\E op \in {"adopt", "dismiss"} : DecideAdvice(p, op))
  \/ \E c \in asks : ReadAdvice(c) \/ WriteAdvice(c) \/ AskLost(c)

\* The ledger by itself.
AlSpec == AlInit /\ faults = 0 /\ [][AlNext]_<<alVars, faults>>

-----------------------------------------------------------------------------
\* A decision of the founder stands: no sweep that listed the recommendation before, and
\* no other request, undoes it (expireSweep: an adopted recommendation is never clobbered
\* to expired; transition: a concurrent decision conflicts).
DecisionWins ==
  [][\A r \in Advice : advice[r].status \in {"adopted", "dismissed"} =>
       advice'[r].status \in {advice[r].status} \cup Legal(advice[r].status)]_advice

\* Legal lifecycle transitions; anything not listed is rejected (recommendation.types.ts).
OnlyLegalTransitions ==
  [][\A r \in Advice : Written(r) /\ advice'[r].status # advice[r].status =>
       advice'[r].status \in Legal(advice[r].status)]_advice
=============================================================================
