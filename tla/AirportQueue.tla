--------------------------- MODULE AirportQueue ----------------------------
(***************************************************************************)
(* The queue of drivers at the airport: AirportService of airport-service  *)
(* and the driver app's airport screen.  The sorted set queue:ewr, scored  *)
(* by the time of joining, is its members and their order: which of two    *)
(* has the lower score.  Each driver's waiting entries in the database are *)
(* counted.                                                                *)
(*                                                                         *)
(* What the screen knows of the queue is lost when it is left, and the     *)
(* service neither locks nor makes entries unique: a driver may have       *)
(* several joins and leaves under way.                                     *)
(***************************************************************************)
EXTENDS FaultBudget

CONSTANTS
  Queuers,      \* drivers at the airport
  Calls         \* joins and leaves that can be under way at one time

VARIABLES
  queue,        \* the members of queue:ewr
  ahead,        \* <<d, e>>: d has a lower score than e
  waiting,      \* per driver: airport_queue_entries rows that are waiting
  calls,        \* each join or leave: whose, how far, still awaited by the screen?
  inQueue,      \* per driver: what the airport screen believes
  popped        \* the driver just taken from the queue, if any

aqVars == <<queue, ahead, waiting, calls, inQueue, popped>>
sortedSet == <<queue, ahead>>
Nobody == "nobody"

ASSUME QueueAssumption == Nobody \notin Queuers

Joining == {"add", "create", "answer"}
Leaving == {"left", "clear", "gone"}
Idle == [by |-> Nobody, at |-> "no", awaited |-> FALSE]

AirportTypeOK ==
  /\ queue \subseteq Queuers /\ ahead \subseteq queue \X queue
  /\ waiting \in [Queuers -> Nat]
  /\ calls \in [Calls -> [by : Queuers, at : Joining \cup Leaving, awaited : BOOLEAN] \cup {Idle}]
  /\ inQueue \in [Queuers -> BOOLEAN]
  /\ popped \in Queuers \cup {Nobody}

AirportInit ==
  /\ queue = {} /\ ahead = {} /\ waiting = [d \in Queuers |-> 0]
  /\ calls = [c \in Calls |-> Idle] /\ inQueue = [d \in Queuers |-> FALSE]
  /\ popped = Nobody

Queued(d) == d \in queue
Without(d) == {p \in ahead : d \notin {p[1], p[2]}}
Zrem(d) == queue' = queue \ {d} /\ ahead' = Without(d)
\* With the present time: a member already there moves to the end.
Zadd(d) == queue' = queue \cup {d} /\ ahead' = Without(d) \cup ((queue \ {d}) \X {d})

-----------------------------------------------------------------------------
Starts(c, d, at) ==
  calls[c] = Idle /\ calls' = [calls EXCEPT ![c] = [by |-> d, at |-> at, awaited |-> TRUE]]
Moves(c, from, to) == calls[c].at = from /\ calls' = [calls EXCEPT ![c].at = to]
\* An answer, or an error, changes the screen that waits for it.
Ends(c, believes) ==
  /\ calls' = [calls EXCEPT ![c] = Idle]
  /\ inQueue' = IF calls[c].awaited THEN [inQueue EXCEPT ![calls[c].by] = believes] ELSE inQueue
InFlight(d) == \E c \in Calls : calls[c].by = d
Loading(d) == \E c \in Calls : calls[c].by = d /\ calls[c].awaited /\ calls[c].at \in Joining

\* A waiting entry refuses a second join. The screen offers none while it waits
\* for one or believes to be in the queue.
JoinQueue(d, c) ==
  /\ ~inQueue[d] /\ ~Loading(d) /\ waiting[d] = 0
  /\ Starts(c, d, "add")
  /\ UNCHANGED <<sortedSet, waiting, inQueue, popped, faults>>

AddToSet(c) ==
  /\ Moves(c, "add", "create") /\ Zadd(calls[c].by)
  /\ UNCHANGED <<waiting, inQueue, popped, faults>>

CreateEntry(c) ==
  /\ Moves(c, "create", "answer")
  /\ waiting' = [waiting EXCEPT ![calls[c].by] = @ + 1]
  /\ UNCHANGED <<sortedSet, inQueue, popped, faults>>

JoinAnswered(c) ==
  /\ calls[c].at = "answer" /\ Ends(c, TRUE)
  /\ UNCHANGED <<sortedSet, waiting, popped, faults>>

\* A join that dies on the way is an alert; the screen keeps offering it.
JoinFails(c) ==
  /\ calls[c].at \in Joining /\ calls' = [calls EXCEPT ![c] = Idle] /\ Fault
  /\ UNCHANGED <<sortedSet, waiting, inQueue, popped>>

LeaveQueue(d, c) ==
  /\ inQueue[d] /\ Starts(c, d, "left")
  /\ UNCHANGED <<sortedSet, waiting, inQueue, popped, faults>>

RemoveFromSet(c) ==
  /\ Moves(c, "left", "clear") /\ Zrem(calls[c].by)
  /\ UNCHANGED <<waiting, inQueue, popped, faults>>

ClearEntries(c) ==
  /\ Moves(c, "clear", "gone")
  /\ waiting' = [waiting EXCEPT ![calls[c].by] = 0]
  /\ UNCHANGED <<sortedSet, inQueue, popped, faults>>

\* The screen forgets the queue whether or not the request got through.
LeaveAnswered(c) ==
  /\ calls[c].at = "gone" /\ Ends(c, FALSE)
  /\ UNCHANGED <<sortedSet, waiting, popped, faults>>
LeaveFails(c) ==
  /\ calls[c].at \in Leaving /\ Ends(c, FALSE) /\ Fault
  /\ UNCHANGED <<sortedSet, waiting, popped>>

\* The screen is left and opened again: it starts from nothing, while the driver stays
\* in the queue and the requests go on.
Remount(d) ==
  /\ inQueue' = [inQueue EXCEPT ![d] = FALSE]
  /\ calls' = [c \in Calls |->
                 IF calls[c].by = d THEN [calls[c] EXCEPT !.awaited = FALSE] ELSE calls[c]]
  /\ UNCHANGED <<sortedSet, waiting, popped, faults>>

(* mutant: ZPOPMAX *)
LastIn(d) == Queued(d) /\ \A e \in queue : <<d, e>> \notin ahead
NextOut(d) == Queued(d) /\ \A e \in queue : <<e, d>> \notin ahead

\* ZPOPMIN, then the entry.
PopNext(d) ==
  /\ popped = Nobody /\ NextOut(d)
  /\ popped' = d /\ Zrem(d)
  /\ UNCHANGED <<waiting, calls, inQueue, faults>>

EntryDispatched ==
  /\ popped # Nobody /\ popped' = Nobody
  /\ waiting' = [waiting EXCEPT ![popped] = 0]
  /\ UNCHANGED <<sortedSet, calls, inQueue, faults>>

CallStep(c) ==
  \/ AddToSet(c) \/ CreateEntry(c) \/ JoinAnswered(c) \/ JoinFails(c)
  \/ RemoveFromSet(c) \/ ClearEntries(c) \/ LeaveAnswered(c) \/ LeaveFails(c)
DispatchStep == (\E d \in Queuers : PopNext(d)) \/ EntryDispatched
AirportNext ==
  \/ DispatchStep
  \/ \E c \in Calls : CallStep(c) \/ \E d \in Queuers : JoinQueue(d, c) \/ LeaveQueue(d, c)
  \/ \E d \in Queuers : Remount(d)
AqSpec == AirportInit /\ faults = 0 /\ [][AirportNext]_<<aqVars, faults>>

-----------------------------------------------------------------------------
\* First come, first served ("FIFO ordering", airport.service.ts): a driver who
\* is before another one in the queue stays before them as long as both stay, through
\* joins, rejoins, leaves and dispatches of any others; only a request of their own
\* may move them.
Before(d, e) == <<d, e>> \in ahead
KeepsPlace ==
  [][\A d, e \in Queuers :
       Before(d, e) => /\ Queued(e)' => (Before(d, e)' \/ InFlight(d) \/ popped' = d)
                       /\ popped' = e => popped = e]_aqVars

\* A driver who has a waiting entry gets no second one ("Already in EWR queue.",
\* airport.service.ts).
JoinedOnce == \A d \in Queuers : waiting[d] <= 1
=============================================================================
