---------------------------- MODULE WebhookOutbox ----------------------------
(***************************************************************************)
(* Delivery of the transactional outbox: the rows of                       *)
(* product_webhook_deliveries (internal/product/postgres.go) and the       *)
(* WebhookWorkers of the replicas (internal/product/webhook.go).           *)
(*                                                                         *)
(* A worker claims due rows in one statement, posts each of them in a      *)
(* goroutine of its own and marks each row with the outcome; it claims     *)
(* again when all its goroutines have returned.  Each SQL statement is one *)
(* action, and so is the return of client.Do.                              *)
(*                                                                         *)
(* Time is counted in ticks.  A row keeps the age of updated_at and the    *)
(* ticks left until next_attempt_at, which is all ClaimDeliveries compares *)
(* with NOW(); an attempt keeps the ticks since it was claimed.            *)
(* http.Client.Timeout ends a post within RequestTimeout; the statement    *)
(* that marks the row has no deadline in the code and is given MarkDelay.  *)
(***************************************************************************)
EXTENDS Integers, FiniteSets

CONSTANTS
    Deliveries,     \* ids of committed outbox rows
    Workers,        \* one WebhookWorker per replica
    MaxAttempts,    \* WEBHOOK_MAX_ATTEMPTS, stored in each row
    BatchSize,      \* WebhookWorker.batchSize
    Lease,          \* WEBHOOK_LEASE
    RequestTimeout, \* WEBHOOK_REQUEST_TIMEOUT
    MarkDelay,      \* longest time between client.Do returning and the mark
    BackoffCap,     \* the one minute of webhookBackoff, in ticks
    MaxFaults,      \* bound: shutdowns, crashes and failed statements
    MaxReplays      \* bound: operator replays of dead letters

(* LoadConfig refuses anything else. *)
ValidConfig ==
    /\ MaxAttempts \in Nat \ {0}
    /\ Lease \in Nat /\ RequestTimeout \in Nat \ {0}
    /\ RequestTimeout < Lease

ASSUME ConfigAssumption == ValidConfig

ASSUME BoundAssumption ==
    /\ BatchSize \in Nat \ {0} /\ BackoffCap \in Nat \ {0}
    /\ MarkDelay \in Nat /\ MaxFaults \in Nat /\ MaxReplays \in Nat

VARIABLES
    row,        \* the outbox table
    inFlight,   \* attempts between ClaimDeliveries and the mark
    accepted,   \* deliveries the receiver has answered with a 2xx
    faults, replays,
    \* History, read by the properties only.
    reclaims,   \* claims of an expired lease of each row
    outlived    \* rows one of whose attempts stayed in flight for its whole lease

history == <<reclaims, outlived>>
vars == <<row, inFlight, accepted, faults, replays, history>>

Statuses == {"pending", "processing", "delivered", "dead_letter"}

(* attempts in a row is the column; in an attempt it is the claimed copy.  *)
Rows == [status : Statuses, attempts : Nat, age : 0 .. Lease, wait : 0 .. BackoffCap]
Phases == {"posting", "succeeded", "failed"}
Attempts == [worker : Workers, id : Deliveries, attempts : Nat \ {0},
             phase : Phases, elapsed : 0 .. RequestTimeout + MarkDelay]

-----------------------------------------------------------------------------
(* Mutant: the delay is not capped at a minute. *)
webhookBackoffUncapped(attempt) ==
    2 ^ (IF attempt < 1 THEN 0 ELSE IF attempt - 1 < 6 THEN attempt - 1 ELSE 6)

(* time.Second << min(attempt-1, 6), at most a minute; never below attempt 1. *)
webhookBackoff(attempt) ==
    LET shift == IF attempt < 1 THEN 0 ELSE IF attempt - 1 < 6 THEN attempt - 1 ELSE 6
    IN  IF 2 ^ shift < BackoffCap THEN 2 ^ shift ELSE BackoffCap

(* Mutant: processing rows are claimed whatever their age. *)
DueIgnoringLease(d) ==
    \/ row[d].status = "pending" /\ row[d].wait = 0
    \/ row[d].status = "processing"

(* Mutant: an abandoned row is never claimed again. *)
DueOnlyPending(d) == row[d].status = "pending" /\ row[d].wait = 0

Due(d) ==
    \/ row[d].status = "pending" /\ row[d].wait = 0
    \/ row[d].status = "processing" /\ row[d].age >= Lease

Busy(w) == \E a \in inFlight : a.worker = w

Init ==
    /\ row = [d \in Deliveries |->
                 [status |-> "pending", attempts |-> 0, age |-> 0, wait |-> 0]]
    /\ inFlight = {}
    /\ accepted = {}
    /\ faults = MaxFaults
    /\ replays = MaxReplays
    /\ reclaims = [d \in Deliveries |-> 0]
    /\ outlived = {}

ClaimRow(r) == [r EXCEPT !.status = "processing", !.attempts = @ + 1, !.age = 0]

(* One UPDATE over the due rows; SKIP LOCKED may leave some of them out. *)
ClaimDeliveries(w, claimed) ==
    /\ ~Busy(w)
    /\ claimed # {} /\ Cardinality(claimed) <= BatchSize
    /\ \A d \in claimed : Due(d)
    /\ row' = [d \in Deliveries |-> IF d \in claimed THEN ClaimRow(row[d]) ELSE row[d]]
    /\ inFlight' = inFlight \cup
          {[worker |-> w, id |-> d, attempts |-> row[d].attempts + 1,
            phase |-> "posting", elapsed |-> 0] : d \in claimed}
    /\ reclaims' = [d \in Deliveries |->
                       IF d \in claimed /\ row[d].status = "processing"
                       THEN reclaims[d] + 1 ELSE reclaims[d]]
    /\ UNCHANGED <<accepted, faults, replays, outlived>>

(* Mutant: any answer counts as success. *)
OutcomeOfAnyAnswer(received, ok) == IF received THEN "succeeded" ELSE "failed"

(* What process makes of client.Do: success only on a 2xx it received. *)
Outcome(received, ok) == IF received /\ ok THEN "succeeded" ELSE "failed"

(* The receiver answers 2xx or not (ok), or never sees the request; the    *)
(* answer is received or lost.                                             *)
Post(a, ok, received) ==
    /\ a.phase = "posting"
    /\ inFlight' = (inFlight \ {a}) \cup {[a EXCEPT !.phase = Outcome(received, ok)]}
    /\ accepted' = IF ok THEN accepted \cup {a.id} ELSE accepted
    /\ UNCHANGED <<row, faults, replays, history>>

(* Mutant: the mark does not look at the status. *)
MarkableAlways(a) == TRUE

(* WHERE id = ... AND status = 'processing'. *)
Markable(a) == row[a.id].status = "processing"

MarkDeliverySucceeded(a) ==
    /\ a.phase = "succeeded"
    /\ row' = IF Markable(a) THEN [row EXCEPT ![a.id].status = "delivered"] ELSE row
    /\ inFlight' = inFlight \ {a}
    /\ UNCHANGED <<accepted, faults, replays, history>>

(* Mutant: the last attempt is given up one too early. *)
FailedStatusEarly(a) == IF a.attempts + 1 >= MaxAttempts THEN "dead_letter" ELSE "pending"

FailedStatus(a) == IF a.attempts >= MaxAttempts THEN "dead_letter" ELSE "pending"

MarkDeliveryFailed(a) ==
    /\ a.phase = "failed"
    /\ row' = IF Markable(a)
              THEN [row EXCEPT ![a.id].status = FailedStatus(a),
                               ![a.id].wait = webhookBackoff(a.attempts)]
              ELSE row
    /\ inFlight' = inFlight \ {a}
    /\ UNCHANGED <<accepted, faults, replays, history>>

(* The statement fails: the goroutine only logs and the row keeps its claim. *)
MarkLost(a) ==
    /\ faults > 0 /\ faults' = faults - 1
    /\ a.phase # "posting"
    /\ inFlight' = inFlight \ {a}
    /\ UNCHANGED <<row, accepted, replays, history>>

(* The replica crashes, or shuts down: the cancelled context fails both    *)
(* the post and the mark.                                                  *)
Stop(w) ==
    /\ faults > 0 /\ faults' = faults - 1
    /\ Busy(w)
    /\ inFlight' = {a \in inFlight : a.worker # w}
    /\ UNCHANGED <<row, accepted, replays, history>>

ReplayDelivery(d) ==
    /\ replays > 0 /\ replays' = replays - 1
    /\ row[d].status = "dead_letter"
    /\ row' = [row EXCEPT ![d].status = "pending", ![d].attempts = 0, ![d].wait = 0]
    /\ UNCHANGED <<inFlight, accepted, faults, history>>

(* How long an attempt may stay in flight.  The client's timeout is        *)
(* counted from the claim: the time between the claim and the start of the *)
(* post is taken to be none.                                               *)
Deadline(a) == IF a.phase = "posting" THEN RequestTimeout ELSE RequestTimeout + MarkDelay

TickRow(r) ==
    [r EXCEPT !.age = IF r.status = "processing" /\ @ < Lease THEN @ + 1 ELSE @,
              !.wait = IF r.status = "pending" /\ @ > 0 THEN @ - 1 ELSE @]

Tick ==
    /\ \A a \in inFlight : a.elapsed < Deadline(a)
    /\ row' = [d \in Deliveries |-> TickRow(row[d])]
    /\ inFlight' = {[a EXCEPT !.elapsed = @ + 1] : a \in inFlight}
    /\ outlived' = outlived \cup {a.id : a \in {b \in inFlight' : b.elapsed >= Lease}}
    /\ UNCHANGED <<accepted, faults, replays, reclaims>>

Next ==
    \/ \E w \in Workers : \E claimed \in SUBSET Deliveries : ClaimDeliveries(w, claimed)
    \/ \E a \in inFlight : \E ok, received \in BOOLEAN : Post(a, ok, received)
    \/ \E a \in inFlight :
          MarkDeliverySucceeded(a) \/ MarkDeliveryFailed(a) \/ MarkLost(a)
    \/ \E w \in Workers : Stop(w)
    \/ \E d \in Deliveries : ReplayDelivery(d)
    \/ Tick

(* Run polls until the replica stops, its goroutines return, time passes.  *)
Fairness ==
    /\ WF_vars(Tick)
    /\ WF_vars(\E a \in inFlight :
                   \/ \E ok, received \in BOOLEAN : Post(a, ok, received)
                   \/ MarkDeliverySucceeded(a) \/ MarkDeliveryFailed(a))
    /\ \A w \in Workers :
          WF_vars(\E claimed \in SUBSET Deliveries : ClaimDeliveries(w, claimed))

Spec == Init /\ [][Next]_vars /\ Fairness

-----------------------------------------------------------------------------
(* Type correctness: a retry waits for webhookBackoff's minute at most, and*)
(* no attempt stays in flight longer than its timeout and its mark's delay.*)
TypeOK ==
    /\ row \in [Deliveries -> Rows]
    /\ inFlight \subseteq Attempts
    /\ accepted \subseteq Deliveries
    /\ faults \in 0 .. MaxFaults
    /\ replays \in 0 .. MaxReplays

(* A row says delivered only when the receiver has accepted the webhook:   *)
(* no interleaving of claims, lost answers and late marks invents it.      *)
DeliveredWasAccepted ==
    \A d \in Deliveries : row[d].status = "delivered" => d \in accepted

(* delivered is final, and only an operator's replay leaves dead_letter:   *)
(* a late mark of an attempt that lost its claim changes neither.          *)
TerminalStatesHold ==
    [][\A d \in Deliveries :
          /\ row[d].status = "delivered" => row'[d].status = "delivered"
          /\ row[d].status = "dead_letter" =>
                row'[d].status = "dead_letter" \/ replays' < replays]_vars

(* A delivery is worked on twice at once only after an attempt outlived    *)
(* its lease: a crash, a lost mark or a shutdown never leads there.        *)
OneLiveAttempt ==
    \A a, b \in inFlight : a.id = b.id /\ a # b => a.id \in outlived

(* "retain exhausted work as a dead letter": a row is dead-lettered only   *)
(* after MaxAttempts claims since it was created or last replayed.         *)
DeadLetterIsExhausted ==
    \A d \in Deliveries : row[d].status = "dead_letter" => row[d].attempts >= MaxAttempts

(* The retry budget, and what a late worker can do to it: a row is claimed *)
(* beyond MaxAttempts only as often as a lease of it expired, and is given *)
(* up before only when an attempt outlived its lease.                      *)
RetryBudget ==
    \A d \in Deliveries :
        /\ row[d].attempts <= MaxAttempts + reclaims[d]
        /\ row[d].status = "dead_letter" /\ d \notin outlived =>
              row[d].attempts >= MaxAttempts

(* Every delivery is eventually delivered or dead-lettered: a crashed      *)
(* worker's rows are taken over, failures are retried and retries end.     *)
EveryDeliverySettles ==
    \A d \in Deliveries :
        row[d].status \in {"pending", "processing"}
            ~> row[d].status \in {"delivered", "dead_letter"}
=============================================================================
