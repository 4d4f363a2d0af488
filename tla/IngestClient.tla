---------------------------- MODULE IngestClient ----------------------------
(***************************************************************************)
(* The gateway's HTTP client for the ingest API (IngestClient.java).  The   *)
(* callbacks of different requests run on the HTTP client's threads and     *)
(* interleave between the atomic operations on pendingRetries; the retries  *)
(* run on one thread.  Delays are not modelled: a scheduled retry may run   *)
(* at any time.                                                             *)
(***************************************************************************)
EXTENDS Integers, FiniteSets

CONSTANTS
    Request,              \* requests to the ingest API
    ATTEMPTS,             \* IngestClient.ATTEMPTS
    MAX_PENDING_RETRIES   \* IngestClient.MAX_PENDING_RETRIES

ASSUME IngestAssumption ==
    /\ IsFiniteSet(Request)
    /\ ATTEMPTS \in Nat \ {0}
    /\ MAX_PENDING_RETRIES \in Nat

VARIABLES
    at,              \* where each request is
    attempt,         \* its attempt number, 0 before the first
    pendingRetries,  \* the AtomicInteger
    stored,          \* history: requests Django has handled at least once
    stopped          \* stop() was called

vars == <<at, attempt, pendingRetries, stored, stopped>>

(* "failed": the callback is about to count the retry; "undo": the count    *)
(* exceeded the limit; "counted": about to be scheduled; "fired": the retry *)
(* runs and was taken off the count; "lost": the executor was shut down.    *)
At == {"new", "sending", "failed", "undo", "counted", "scheduled", "fired", "done", "rejected",
       "dropped", "lost"}

Init ==
    /\ at = [r \in Request |-> "new"]
    /\ attempt = [r \in Request |-> 0]
    /\ pendingRetries = 0
    /\ stored = {}
    /\ stopped = FALSE

Move(r, l) == at' = [at EXCEPT ![r] = l]

(* post(): a body that can be serialized is sent for the first time. *)
Post(r) ==
    /\ at[r] = "new"
    /\ Move(r, "sending")
    /\ attempt' = [attempt EXCEPT ![r] = 1]
    /\ UNCHANGED <<pendingRetries, stored, stopped>>

(* Mutant of Unavailable: the limit is tested with >. *)
UnavailableOneMore(r) ==
    /\ at[r] = "sending"
    /\ Move(r, IF attempt[r] > ATTEMPTS THEN "dropped" ELSE "failed")
    /\ \/ stored' = stored
       \/ stored' = stored \cup {r}
    /\ UNCHANGED <<attempt, pendingRetries, stopped>>

(* Below 300: the request is complete. *)
Success(r) ==
    /\ at[r] = "sending"
    /\ Move(r, "done")
    /\ stored' = stored \cup {r}
    /\ UNCHANGED <<attempt, pendingRetries, stopped>>

(* Below 500: rejected for good. *)
Rejected(r) ==
    /\ at[r] = "sending"
    /\ Move(r, "rejected")
    /\ UNCHANGED <<attempt, pendingRetries, stored, stopped>>

(* 5xx, a connection error or a timeout; Django may have handled it all the *)
(* same.                                                                    *)
Unavailable(r) ==
    /\ at[r] = "sending"
    /\ Move(r, IF attempt[r] >= ATTEMPTS THEN "dropped" ELSE "failed")
    /\ \/ stored' = stored
       \/ stored' = stored \cup {r}
    /\ UNCHANGED <<attempt, pendingRetries, stopped>>

(* Mutant of Count: the value before the increment is compared. *)
GetAndIncrement(r) ==
    /\ at[r] = "failed"
    /\ pendingRetries' = pendingRetries + 1
    /\ Move(r, IF pendingRetries > MAX_PENDING_RETRIES THEN "undo" ELSE "counted")
    /\ UNCHANGED <<attempt, stored, stopped>>

(* pendingRetries.incrementAndGet() > MAX_PENDING_RETRIES *)
Count(r) ==
    /\ at[r] = "failed"
    /\ pendingRetries' = pendingRetries + 1
    /\ Move(r, IF pendingRetries + 1 > MAX_PENDING_RETRIES THEN "undo" ELSE "counted")
    /\ UNCHANGED <<attempt, stored, stopped>>

(* Mutant of Undo: the count is not taken back. *)
DropOnly(r) ==
    /\ at[r] = "undo"
    /\ Move(r, "dropped")
    /\ UNCHANGED <<attempt, pendingRetries, stored, stopped>>

(* pendingRetries.decrementAndGet() on the way out. *)
Undo(r) ==
    /\ at[r] = "undo"
    /\ pendingRetries' = pendingRetries - 1
    /\ Move(r, "dropped")
    /\ UNCHANGED <<attempt, stored, stopped>>

(* retries.schedule(): an executor that was shut down refuses. *)
Schedule(r) ==
    /\ at[r] = "counted"
    /\ Move(r, IF stopped THEN "lost" ELSE "scheduled")
    /\ UNCHANGED <<attempt, pendingRetries, stored, stopped>>

(* The retry runs, on the executor's only thread: first the count ... *)
Fire(r) ==
    /\ at[r] = "scheduled"
    /\ \A q \in Request : at[q] # "fired"
    /\ pendingRetries' = pendingRetries - 1
    /\ Move(r, "fired")
    /\ UNCHANGED <<attempt, stored, stopped>>

(* Mutant of Resend: send(request, attempt). *)
ResendUncounted(r) ==
    /\ at[r] = "fired"
    /\ Move(r, "sending")
    /\ UNCHANGED <<attempt, pendingRetries, stored, stopped>>

(* ... then send(request, attempt + 1). *)
Resend(r) ==
    /\ at[r] = "fired"
    /\ Move(r, "sending")
    /\ attempt' = [attempt EXCEPT ![r] = attempt[r] + 1]
    /\ UNCHANGED <<pendingRetries, stored, stopped>>

(* stop(): retries.shutdownNow() forgets what is scheduled. *)
Stop ==
    /\ ~stopped
    /\ stopped' = TRUE
    /\ at' = [r \in Request |-> IF at[r] = "scheduled" THEN "lost" ELSE at[r]]
    /\ UNCHANGED <<attempt, pendingRetries, stored>>

Step(r) ==
    \/ Success(r) \/ Rejected(r) \/ Unavailable(r)
    \/ Count(r) \/ Undo(r) \/ Schedule(r) \/ Fire(r) \/ Resend(r)

Next == (\E r \in Request : Post(r) \/ Step(r)) \/ Stop

Spec == Init /\ [][Next]_vars

(* Every HTTP request is answered or times out, callbacks run to their end, *)
(* and the executor runs what is due.                                       *)
FairSpec == Spec /\ \A r \in Request : WF_vars(Step(r))

-----------------------------------------------------------------------------
(* Properties *)

(* Types. *)
TypeOK ==
    /\ at \in [Request -> At]
    /\ attempt \in [Request -> 0..ATTEMPTS]
    /\ pendingRetries \in Int
    /\ stored \subseteq Request
    /\ stopped \in BOOLEAN

(* Requests that pendingRetries counts. *)
Counted == {r \in Request : at[r] \in {"undo", "counted", "scheduled", "lost"}}

(* Requests whose bodies are kept for a retry. *)
Kept == {r \in Request : at[r] \in {"counted", "scheduled", "lost"}}

(* However the callbacks interleave between increment, test and decrement,  *)
(* the counter is the number of retries that are kept or being given up: it *)
(* neither leaks (which would stop all retries in the end) nor drifts below.*)
CountExact == pendingRetries = Cardinality(Counted)

(* "Retries are kept in memory only, at most MAX_PENDING_RETRIES at a time" *)
(* (IngestClient.java), although the test and the increment race.           *)
KeptBounded == Cardinality(Kept) <= MAX_PENDING_RETRIES

(* A request that is sent ends: stored, rejected, dropped, or lost with the *)
(* executor.                                                                *)
Ends == \A r \in Request : at[r] = "sending" ~> at[r] \in {"done", "rejected", "dropped", "lost"}

Outcome(l) ==
    CASE l = "new" -> "none"
      [] l = "done" -> "stored"
      [] l = "rejected" -> "rejected"
      [] l \in {"dropped", "lost"} -> "dropped"
      [] OTHER -> "open"

D == INSTANCE IngestDelivery WITH outcome <- [r \in Request |-> Outcome(at[r])], tries <- attempt

(* The client implements IngestDelivery: neither the races for the last     *)
(* place among the retries nor stop() repeat, resume or exceed.             *)
Implements == D!Spec
=============================================================================
