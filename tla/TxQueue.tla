-------------------------------- MODULE TxQueue --------------------------------
(***************************************************************************)
(* The transaction queue of the wallet service (wallet/src/queue), its     *)
(* callers, its one worker and the ledger account it submits for.          *)
(*                                                                         *)
(* A caller runs addTransactionToQueue: it checks the spending limits,     *)
(* then adds a job, then listens for the job's outcome.  The worker takes  *)
(* jobs in the order of the queue, one at a time; a job that is retried    *)
(* goes back to the end of the queue after its back-off.  A step is what   *)
(* happens between two awaits that another party can observe.              *)
(*                                                                         *)
(* BullMQ, Redis, the RPC server and the ledger are external: an answer    *)
(* may be an error or may be lost, a transaction that was sent stays       *)
(* pending until the ledger applies it or its 30 seconds are over, and a   *)
(* transaction is applied only if it carries the account's next sequence   *)
(* number.  A job whose process died runs again with the same attempt      *)
(* number, because BullMQ counts failures.                                 *)
(***************************************************************************)
EXTENDS SpendLimits, Sequences, FiniteSets

CONSTANTS
    Job,
    Requests,       \* [amount, delegation, memoValid, identified] arguments tried;
                    \* identified: the request names its user and wallet
    MaxAttempts,    \* defaultJobOptions.attempts
    MaxCrashes      \* bound: crashes of the wallet process

ASSUME TxQueueConstants ==
    /\ Requests \subseteq [amount : Nat, delegation : STRING \cup {None},
                           memoValid : BOOLEAN, identified : BOOLEAN]
    /\ MaxAttempts \in Nat \ {0} /\ MaxCrashes \in Nat
    /\ None \notin Job

VARIABLES
    pc,             \* where the caller of each job is
    amount,         \* job.data: the amount to record for a known wallet, else 0
    state,          \* the BullMQ state of each job
    queue,          \* the waiting jobs in order
    made,           \* job.attemptsMade of unfinished jobs
    worker,         \* the execution going on: [job, phase, seq, sees]
    cache,          \* the cached sequence number seq:<sourceAddress>, 0 if none
    ledgerSeq,      \* external: the account's sequence number
    pending,        \* external: transactions sent that may be applied
    paid,           \* external: transactions of each job that were applied
    applied,        \* external: the amounts applied today, this week and ever
    crashes,        \* bound
    begun,          \* observation only: the jobs executed so far
    lost,           \* observation only: executions that sent and never learned
    uncounted,      \* observation only: the amounts of executions that sent and added
                    \* nothing to the counters although it may have been applied
    overlap,        \* observation only: a payment was begun while another was in flight
    checked,        \* observation only: the delegation of the last payment allowed,
                    \* None after an overlap or a check that was skipped
    bypassed        \* observation only: a limit check was skipped

callerVars == <<pc, amount>>
jobVars == <<state, queue, made>>
ledgerVars == <<ledgerSeq, pending, paid, applied>>
observed == <<begun, lost, uncounted, overlap, checked, bypassed>>
vars == <<limitVars, callerVars, jobVars, worker, cache, ledgerVars, crashes, observed>>

Idle == [job |-> None, phase |-> "idle", seq |-> 0, sees |-> "nothing"]

Init ==
    /\ LimitsInit
    /\ pc = [j \in Job |-> "new"] /\ amount = [j \in Job |-> 0]
    /\ state = [j \in Job |-> "none"] /\ queue = <<>> /\ made = [j \in Job |-> 0]
    /\ worker = Idle /\ cache = 0 /\ crashes = 0
    /\ ledgerSeq = 0 /\ pending = {} /\ paid = [j \in Job |-> 0]
    /\ applied = NothingSpent
    /\ begun = {} /\ lost = [j \in Job |-> 0] /\ uncounted = 0
    /\ overlap = FALSE /\ checked = None /\ bypassed = FALSE

Ended(j) == state[j] \in {"completed", "failed"}
InFlight(j) ==
    \/ pc[j] = "checked"
    \/ state[j] \in {"waiting", "delayed", "active"}
    \/ \E t \in pending : t.job = j

-----------------------------------------------------------------------------
(* The callers: POST /transactions/submit and addTransactionToQueue.       *)

\* The route hands on neither amount, delegation, user nor wallet.
FromRoute(r) == [r EXCEPT !.amount = 0, !.delegation = None, !.identified = FALSE]

\* assertValidMemo refuses before anything is looked up.
RefuseMemo(j) ==
    /\ pc[j] = "new"
    /\ \E r \in Requests : ~r.memoValid
    /\ pc' = [pc EXCEPT ![j] = "refused"]
    /\ UNCHANGED <<limitVars, amount, jobVars, worker, cache, ledgerVars, crashes, observed>>

\* The answer of checkSpendLimit to r.  If the database fails, the wallet is
\* not looked up or the limits are not read, and the payment goes on.
Checked(j, r, allowed) ==
    \/ /\ allowed \in CheckSpendLimit(r.delegation, r.amount)
       /\ amount' = [amount EXCEPT ![j] = r.amount]
       /\ UNCHANGED bypassed
    \/ /\ allowed
       /\ amount' = [amount EXCEPT ![j] = IF r.identified THEN r.amount ELSE 0]
       /\ bypassed' = TRUE

\* The counters are read.  From here on the payment is in flight.
CheckLimits(j, r) ==
    /\ pc[j] = "new" /\ r.memoValid
    /\ overlap' = (overlap \/ \E k \in Job : InFlight(k))
    /\ \E allowed \in BOOLEAN :
        /\ Checked(j, r, allowed)
        /\ pc' = [pc EXCEPT ![j] = IF allowed THEN "checked" ELSE "refused"]
        /\ checked' = IF overlap' \/ bypassed' THEN None
                      ELSE IF allowed THEN r.delegation ELSE checked
    /\ UNCHANGED <<limitVars, jobVars, worker, cache, ledgerVars, crashes, begun, lost,
                   uncounted>>

\* The job is added.  If that fails, the caller is told so, and the job may have been
\* added nevertheless.
AddJob(j) ==
    /\ pc[j] = "checked"
    /\ \E place \in {"added", "refused"} :
        /\ pc' = [pc EXCEPT ![j] = place]
        /\ \/ /\ state' = [state EXCEPT ![j] = "waiting"]
              /\ queue' = Append(queue, j)
           \/ place = "refused" /\ UNCHANGED <<state, queue>>
    /\ UNCHANGED <<limitVars, amount, made, worker, cache, ledgerVars, crashes, observed>>

\* The listeners are registered once the answer to the addition is there.
Listen(j) ==
    /\ pc[j] = "added"
    /\ pc' = [pc EXCEPT ![j] = "waiting"]
    /\ UNCHANGED <<limitVars, amount, jobVars, worker, cache, ledgerVars, crashes, observed>>

\* GET /api/v1/queue/jobs/:jobId; a completed job is removed.
JobStatus(j) ==
    CASE state[j] \in {"waiting", "delayed"} -> "queued"
      [] state[j] = "active"                 -> "processing"
      [] state[j] = "failed"                 -> "failed"
      [] OTHER                               -> None

-----------------------------------------------------------------------------
(* The ledger: external.                                                   *)

Watched == \E t \in pending : t.watched

\* A transaction is applied, successfully or not; those whose sequence number
\* is used up can never be.
LedgerApplies(t) ==
    /\ t.seq = ledgerSeq + 1
    /\ ledgerSeq' = t.seq
    /\ pending' = {u \in pending : u.seq > t.seq}
    /\ \E ok \in BOOLEAN :
        /\ IF ok
           THEN /\ paid' = [paid EXCEPT ![t.job] = @ + 1]
                /\ applied' = [period \in DOMAIN applied |-> applied[period] + t.amount]
           ELSE UNCHANGED <<paid, applied>>
        /\ worker' = IF t.watched
                     THEN [worker EXCEPT !.sees = IF ok THEN "ok" ELSE "failed"]
                     ELSE worker
    /\ UNCHANGED <<limitVars, callerVars, jobVars, cache, crashes, observed>>

TxExpires(t) ==
    /\ pending' = pending \ {t}
    /\ UNCHANGED <<limitVars, callerVars, jobVars, worker, cache, ledgerSeq, paid,
                   applied, crashes, observed>>

-----------------------------------------------------------------------------
(* How an execution of a job ends.                                         *)

\* Nobody polls what was sent any more.
Forgotten(sent) == {[t EXCEPT !.watched = FALSE] : t \in sent}
WorkerDone == worker' = Idle /\ pending' = Forgotten(pending)

\* The outcome reaches a caller that listens, and no other.
JobEnds(j, outcome) ==
    /\ state' = [state EXCEPT ![j] = outcome]
    /\ pc' = [pc EXCEPT ![j] = IF @ = "waiting" THEN "answered" ELSE @]
    /\ made' = [made EXCEPT ![j] = 0]
    /\ amount' = [amount EXCEPT ![j] = 0]

\* The codes of classifySubmissionFailure.  An error thrown before the try
\* block is not classified, and BullMQ retries it.
SubmissionFailure == {"TX_SIMULATION_FAILED", "TX_AUTH_FAILURE", "TX_MALFORMED_XDR",
    "TX_SEQUENCE_CONFLICT", "TX_EXECUTION_FAILED", "TX_RPC_TRANSIENT",
    "TX_SUBMISSION_REJECTED", "TX_POLL_TIMEOUT", "TX_SUBMISSION_UNKNOWN"}
Retryable(code) ==
    code \in {"TX_SEQUENCE_CONFLICT", "TX_RPC_TRANSIENT", "TX_POLL_TIMEOUT", "UNCLASSIFIED"}

JobDelayed(j) == state' = [state EXCEPT ![j] = "delayed"] /\ UNCHANGED <<pc, amount>>

\* Faulty variant: an attempt that is retried does not count.
FailsWithUncounted(j, code) ==
    IF Retryable(code) THEN JobDelayed(j) /\ UNCHANGED made ELSE JobEnds(j, "failed")

FailsWith(j, code) ==
    IF Retryable(code) /\ made[j] + 1 < MaxAttempts
    THEN JobDelayed(j) /\ made' = [made EXCEPT ![j] = @ + 1]
    ELSE JobEnds(j, "failed")

Fails(j, code) == WorkerDone /\ FailsWith(j, code) /\ UNCHANGED queue

Completes(j) == WorkerDone /\ JobEnds(j, "completed") /\ UNCHANGED queue

\* The end of the back-off.
Promote(j) ==
    /\ state[j] = "delayed"
    /\ state' = [state EXCEPT ![j] = "waiting"]
    /\ queue' = Append(queue, j)
    /\ UNCHANGED <<limitVars, callerVars, made, worker, cache, ledgerVars, crashes, observed>>

-----------------------------------------------------------------------------
(* executeTxJob                                                            *)

At(j, phase) == worker.job = j /\ worker.phase = phase

\* Faulty variant: a retry trusts the cached sequence number.
CachedForEveryAttempt(j) == cache

\* resetCache() on a retry.
CachedForAttempt(j) == IF made[j] > 0 THEN 0 ELSE cache

NextSequence(cached) == IF cached >= ledgerSeq THEN cached + 1 ELSE ledgerSeq + 1

Begin(j) ==
    /\ worker = Idle /\ queue # <<>> /\ Head(queue) = j
    /\ queue' = Tail(queue)
    /\ begun' = begun \cup {j}
    /\ UNCHANGED <<limitVars, ledgerSeq, paid, applied, crashes, lost, uncounted, overlap,
                   checked, bypassed>>

\* The worker takes the job, reads the key from the vault and determines the
\* sequence number; the cached one may have expired.
GetNextSequenceNumber(j) ==
    /\ Begin(j)
    /\ \E cached \in {CachedForAttempt(j), 0} :
        LET next == NextSequence(cached)
        IN  /\ cache' = next
            /\ worker' = [job |-> j, phase |-> "ready", seq |-> next, sees |-> "nothing"]
    /\ state' = [state EXCEPT ![j] = "active"]
    /\ UNCHANGED <<callerVars, made, pending>>

\* The vault, Horizon or Redis fails.
PreparationFails(j) ==
    /\ Begin(j)
    /\ cache' \in {cache, CachedForAttempt(j)}
    /\ UNCHANGED <<pending, worker>>
    /\ FailsWith(j, "UNCLASSIFIED")

\* The simulation or the signature fails, or the simulation is not answered.
SimulationFails(j) ==
    /\ At(j, "ready")
    /\ \E code \in {"TX_SIMULATION_FAILED", "TX_RPC_TRANSIENT"} : Fails(j, code)
    /\ UNCHANGED <<limitVars, cache, ledgerSeq, paid, applied, crashes, observed>>

\* sendTransaction answers ERROR: the account's number has moved, or there is
\* a gap before the one used, or something else is wrong.
SendRejected(j) ==
    /\ At(j, "ready")
    /\ \/ /\ worker.seq # ledgerSeq + 1
          /\ cache' = 0
          /\ Fails(j, "TX_SEQUENCE_CONFLICT")
       \/ /\ \E code \in {"TX_SUBMISSION_REJECTED", "TX_RPC_TRANSIENT"} : Fails(j, code)
          /\ UNCHANGED cache
    /\ UNCHANGED <<limitVars, ledgerSeq, paid, applied, crashes, observed>>

\* The network accepts a number that is next, after those pending.
Acceptable(seq) == seq = ledgerSeq + 1 \/ \E t \in pending : t.seq = seq - 1
Sent(j, watched) ==
    pending \cup {[job |-> j, seq |-> worker.seq, amount |-> amount[j], watched |-> watched]}

\* The answer is PENDING, or TRY_AGAIN_LATER and nothing was accepted.
Send(j) ==
    /\ At(j, "ready")
    /\ \/ Acceptable(worker.seq) /\ pending' = Sent(j, TRUE)
       \/ UNCHANGED pending
    /\ worker' = [worker EXCEPT !.phase = "polling"]
    /\ UNCHANGED <<limitVars, callerVars, jobVars, cache, ledgerSeq, paid, applied, crashes, observed>>

NotCounted(j) == uncounted' = uncounted + amount[j]
OutcomeLost(j) == lost' = [lost EXCEPT ![j] = @ + 1] /\ NotCounted(j)
UNSEEN == {"TX_RPC_TRANSIENT", "TX_SUBMISSION_UNKNOWN"}

\* The transaction was accepted but the answer did not arrive.
SendUnanswered(j) ==
    /\ At(j, "ready")
    /\ Acceptable(worker.seq) /\ pending' = Sent(j, FALSE)
    /\ worker' = Idle
    /\ \E code \in UNSEEN : FailsWith(j, code)
    /\ OutcomeLost(j)
    /\ UNCHANGED <<limitVars, queue, cache, ledgerSeq, paid, applied, crashes, begun, overlap,
                   checked, bypassed>>

\* An error of recordSpend is swallowed.
RecordConfirmed(j) ==
    IF amount[j] > 0
    THEN \/ RecordSpend(amount[j]) /\ UNCHANGED <<limitRows, uncounted>>
         \/ NotCounted(j) /\ UNCHANGED limitVars
    ELSE UNCHANGED <<limitVars, uncounted>>

\* Faulty variant: an error of recordSpend fails the attempt.
PollSucceedsOrRecordFails(j) ==
    /\ At(j, "polling") /\ worker.sees = "ok"
    /\ \/ RecordConfirmed(j) /\ Completes(j)
       \/ Fails(j, "TX_RPC_TRANSIENT") /\ NotCounted(j) /\ UNCHANGED limitVars
    /\ UNCHANGED <<cache, ledgerSeq, paid, applied, crashes, begun, lost, overlap, checked,
                   bypassed>>

PollSucceeds(j) ==
    /\ At(j, "polling") /\ worker.sees = "ok"
    /\ RecordConfirmed(j)
    /\ Completes(j)
    /\ UNCHANGED <<cache, ledgerSeq, paid, applied, crashes, begun, lost, overlap, checked,
                   bypassed>>

PollSeesFailure(j) ==
    /\ At(j, "polling") /\ worker.sees = "failed"
    /\ Fails(j, "TX_EXECUTION_FAILED")
    /\ UNCHANGED <<limitVars, cache, ledgerSeq, paid, applied, crashes, observed>>

\* getTransaction throws.
PollThrows(j) ==
    /\ At(j, "polling")
    /\ \E code \in UNSEEN : Fails(j, code)
    /\ OutcomeLost(j)
    /\ UNCHANGED <<limitVars, cache, ledgerSeq, paid, applied, crashes, begun, overlap,
                   checked, bypassed>>

\* Horizon knows failed transactions too; any error answers false.
VerifyLedgerSubmission == {worker.sees # "nothing", FALSE}

\* Twelve polls found nothing.  They take longer than a transaction is valid,
\* so it is applied by now or never will be.  What Horizon confirms is not counted.
PollTimesOut(j) ==
    /\ At(j, "polling") /\ ~Watched
    /\ \/ /\ TRUE \in VerifyLedgerSubmission
          /\ Completes(j)
          /\ NotCounted(j)
          /\ UNCHANGED lost
       \/ /\ Fails(j, "TX_POLL_TIMEOUT")
          /\ OutcomeLost(j)
    /\ UNCHANGED <<limitVars, cache, ledgerSeq, paid, applied, crashes, begun, overlap, checked,
                   bypassed>>

-----------------------------------------------------------------------------
(* The environment.                                                        *)

\* A day or a week ends.
PeriodEnds ==
    /\ \/ NextDay /\ applied' = [applied EXCEPT !.daily = 0]
       \/ NextWeek /\ applied' = [applied EXCEPT !.daily = 0, !.weekly = 0]
    /\ UNCHANGED <<callerVars, jobVars, worker, cache, ledgerSeq, pending, paid, crashes,
                   observed>>

\* The process dies with its callers.  The job it executed is stalled and is taken up
\* again first.
Crash ==
    /\ crashes < MaxCrashes
    /\ crashes' = crashes + 1
    /\ pc' = [j \in Job |->
                IF pc[j] \in {"checked", "added", "waiting"} THEN "gone" ELSE pc[j]]
    /\ WorkerDone
    /\ IF worker = Idle
       THEN UNCHANGED <<state, queue>>
       ELSE /\ state' = [state EXCEPT ![worker.job] = "waiting"]
            /\ queue' = <<worker.job>> \o queue
    /\ IF worker.phase = "polling" THEN OutcomeLost(worker.job)
       ELSE UNCHANGED <<lost, uncounted>>
    /\ UNCHANGED <<limitVars, amount, made, cache, ledgerSeq, paid, applied, begun, overlap,
                   checked, bypassed>>

Execute(j) ==
    \/ GetNextSequenceNumber(j) \/ PreparationFails(j)
    \/ SimulationFails(j) \/ SendRejected(j) \/ Send(j) \/ SendUnanswered(j)
    \/ PollSucceeds(j) \/ PollSeesFailure(j) \/ PollThrows(j) \/ PollTimesOut(j)

LedgerMoves == \E t \in pending : LedgerApplies(t) \/ TxExpires(t)

Next ==
    \/ \E j \in Job :
        \/ RefuseMemo(j)
        \/ \E r \in Requests : CheckLimits(j, r) \/ CheckLimits(j, FromRoute(r))
        \/ AddJob(j) \/ Listen(j) \/ Promote(j) \/ Execute(j)
    \/ LedgerMoves \/ PeriodEnds \/ Crash

Spec == Init /\ [][Next]_vars

\* Every await of the worker settles (its polls are counted), back-offs end, and
\* a transaction does not stay pending.
FairSpec ==
    /\ Spec
    /\ \A j \in Job : WF_vars(Execute(j)) /\ WF_vars(Promote(j))
    /\ WF_vars(LedgerMoves)

-----------------------------------------------------------------------------

\* A job pays more than once only if an execution of it sent a transaction and
\* never learned what became of it (executeTxJob retries with a fresh sequence
\* number): attempts that failed for a known reason cannot add a payment.
PaidAgainOnlyWhenLost == \A j \in Job : paid[j] <= 1 + lost[j]

\* A retry replaces what it repeats: two transactions of a job that can both
\* still be applied carry the same sequence number, so at most one of them will
\* be.  That is what clearing the cache on a retry is for.  It does not hold
\* after a crash, nor when payments are in flight together.
RetryReplaces ==
    overlap \/ crashes > 0 \/ \A t, u \in pending : t.job = u.job => t.seq = u.seq

\* Payments made one after the other exceed the limits of the row that the last of them
\* was checked with by no more than what was sent and not counted: through days, weeks,
\* retries and crashes, what the ledger applied is in the limits but for the amounts of
\* executions whose outcome was lost (a retry may then pay a second time), that only
\* Horizon confirmed, or whose recordSpend failed.  Amounts are those named to the queue;
\* the counters are shared by all delegations, so another row may be exceeded.  No row
\* means no limit.
Kept(limit, n) == n <= 0 \/ Within(limit, n)
Fits(sums, n) ==
    \/ FindConfig(checked) = {}
    \/ \E row \in FindConfig(checked) :
        /\ Kept(row.daily, sums.daily + n)
        /\ Kept(row.weekly, sums.weekly + n)
        /\ Kept(row.lifetime, sums.lifetime + n)
LimitsHoldOneByOne == overlap \/ bypassed \/ Fits(applied, 0 - uncounted)

\* A caller that listens before its job ends is answered, or its process dies.
CallerAnswered ==
    \A j \in Job : pc[j] = "waiting" /\ ~Ended(j) ~> pc[j] \in {"answered", "gone"}

\* "Concurrency set to 1 ensures that jobs are executed in strict order": no job
\* is begun while one that was begun before it is unfinished.  It does not hold: a
\* job that failed waits for its retry, and the next one is begun.
StrictOrder ==
    [][\A k \in begun' \ begun : \A j \in begun : Ended(j)]_vars
============================================================================
