----------------------------- MODULE TxQueueProofs -----------------------------
(***************************************************************************)
(* Proofs about the transaction queue, for any number of jobs, attempts,   *)
(* amounts and limits and any bound on crashes.                            *)
(*                                                                         *)
(* What an execution sent is counted against the execution: a job has at   *)
(* most as many payments, made or pending, as executions that never        *)
(* learned what became of theirs, and one more once it ended or polls.     *)
(***************************************************************************)
EXTENDS TxQueue, FiniteSetTheorems, TLAPS

CallerPlace == {"new", "checked", "refused", "added", "waiting", "answered", "gone"}
JobState == {"none", "waiting", "delayed", "active", "completed", "failed"}
Tx == [job : Job, seq : Nat, amount : Nat, watched : BOOLEAN]
Execution == [job : Job \cup {None}, phase : {"idle", "ready", "polling"}, seq : Nat,
              sees : {"nothing", "ok", "failed"}]

\* No job has been added for this caller.
Fresh(j) == pc[j] \in {"new", "checked"}

\* Every waiting job is in the queue at most once, and no job the worker has.
PlacesInv ==
    /\ pc \in [Job -> CallerPlace] /\ state \in [Job -> JobState]
    /\ queue \in Seq(Job) /\ made \in [Job -> Nat] /\ amount \in [Job -> Nat]
    /\ \A i \in 1..Len(queue) : state[queue[i]] = "waiting"
    /\ \A i, k \in 1..Len(queue) : queue[i] = queue[k] => i = k
    /\ worker \in Execution
    /\ worker = Idle \/ (worker.job \in Job /\ worker.phase # "idle"
                         /\ state[worker.job] = "active")
    /\ \A j \in Job : Fresh(j) => state[j] = "none"

LedgerInv ==
    /\ cache \in Nat /\ ledgerSeq \in Nat /\ crashes \in Nat
    /\ pending \subseteq Tx /\ IsFiniteSet(pending)
    /\ \A t \in pending : t.watched => worker.phase = "polling"
    /\ \A t \in pending : state[t.job] # "none"
    /\ paid \in [Job -> Nat] /\ lost \in [Job -> Nat]

Of(j, txs) == {t \in txs : t.job = j}
Chance(j) == IF Ended(j) \/ At(j, "polling") THEN 1 ELSE 0
PaymentsCounted ==
    \A j \in Job : paid[j] + Cardinality(Of(j, pending)) =< lost[j] + Chance(j)

\* As long as payments are made one after the other: what is pending is of the one
\* job in flight and carries the next number, and that job has been tried before.
OneInFlight ==
    overlap \/ crashes > 0 \/
        /\ \A j, k \in Job : InFlight(j) /\ InFlight(k) => j = k
        /\ \A t \in pending :
            /\ t.seq = ledgerSeq + 1
            /\ state[t.job] \in {"waiting", "delayed"} => made[t.job] > 0
        /\ worker.phase = "ready" => worker.seq =< ledgerSeq + 1 \/ pending = {}

QueueInv == PlacesInv /\ LedgerInv /\ PaymentsCounted /\ OneInFlight

-----------------------------------------------------------------------------
(* How an execution ends.                                                  *)

\* What job j may be left as, and nothing else about the jobs.
Leaves(j) ==
    /\ pc' \in [Job -> CallerPlace] /\ state' \in [Job -> JobState] /\ made' \in [Job -> Nat]
    /\ \A k \in Job : k # j => state'[k] = state[k] /\ made'[k] = made[k]
    /\ state'[j] \in {"delayed", "completed", "failed"}
    /\ state'[j] = "delayed" => made'[j] > 0
    /\ amount' \in [Job -> Nat]
    /\ \A k \in Job : Fresh(k)' => Fresh(k)
    /\ \A k \in Job : pc'[k] = "checked" => pc[k] = "checked"

LEMMA JobEndsLeaves ==
  ASSUME PlacesInv, NEW j \in Job, NEW outcome \in {"completed", "failed"},
         JobEnds(j, outcome)
  PROVE  Leaves(j) /\ Ended(j)'
<1>1. /\ pc \in [Job -> CallerPlace] /\ state \in [Job -> JobState]
      /\ made \in [Job -> Nat] /\ amount \in [Job -> Nat]
  BY DEF PlacesInv
<1>2. /\ state' = [state EXCEPT ![j] = outcome] /\ made' = [made EXCEPT ![j] = 0]
      /\ amount' = [amount EXCEPT ![j] = 0]
  BY DEF JobEnds
<1>3. /\ pc' \in [Job -> CallerPlace]
      /\ \A k \in Job : Fresh(k)' => Fresh(k)
      /\ \A k \in Job : pc'[k] = "checked" => pc[k] = "checked"
  BY <1>1 DEF JobEnds, CallerPlace, Fresh
<1>4. /\ state' \in [Job -> JobState] /\ made' \in [Job -> Nat] /\ amount' \in [Job -> Nat]
      /\ state'[j] = outcome
      /\ \A k \in Job : k # j => state'[k] = state[k] /\ made'[k] = made[k]
  BY <1>1, <1>2 DEF JobState
<1> QED BY <1>3, <1>4 DEF Leaves, Ended

LEMMA FailsWithLeaves ==
  ASSUME PlacesInv, NEW j \in Job, NEW code, FailsWith(j, code)
  PROVE  /\ Leaves(j)
         /\ ~Retryable(code) => Ended(j)'
<1>1. CASE Retryable(code) /\ made[j] + 1 < MaxAttempts
  <2>1. /\ pc \in [Job -> CallerPlace] /\ state \in [Job -> JobState]
        /\ made \in [Job -> Nat] /\ amount \in [Job -> Nat]
        /\ state' = [state EXCEPT ![j] = "delayed"] /\ UNCHANGED <<pc, amount>>
        /\ made' = [made EXCEPT ![j] = made[j] + 1]
    BY <1>1 DEF PlacesInv, FailsWith, JobDelayed
  <2>2. /\ state' \in [Job -> JobState] /\ made' \in [Job -> Nat]
        /\ state'[j] = "delayed" /\ made'[j] > 0
        /\ \A k \in Job : k # j => state'[k] = state[k] /\ made'[k] = made[k]
    BY <2>1 DEF JobState
  <2> QED BY <1>1, <2>1, <2>2 DEF Leaves, Fresh
<1>2. CASE ~(Retryable(code) /\ made[j] + 1 < MaxAttempts)
  BY <1>2, JobEndsLeaves DEF FailsWith
<1> QED BY <1>1, <1>2

\* The places after an execution of j has ended.
LEMMA LeavesPlaces ==
  ASSUME PlacesInv, NEW j \in Job, Leaves(j), worker.job = j, worker # Idle,
         worker' = Idle, UNCHANGED queue
  PROVE  PlacesInv'
<1>1. Idle \in Execution
  BY DEF Idle, Execution
<1>2. \A i \in 1..Len(queue) : queue[i] \in Job /\ queue[i] # j
  BY DEF PlacesInv
<1>3. \A i \in 1..Len(queue') : state'[queue'[i]] = "waiting"
  BY <1>2 DEF PlacesInv, Leaves
<1>4. \A k \in Job : Fresh(k)' => state'[k] = "none"
  <2> SUFFICES ASSUME NEW k \in Job, Fresh(k)' PROVE state'[k] = "none"
    OBVIOUS
  <2>1. state[k] = "none" /\ state[j] = "active"
    BY DEF PlacesInv, Leaves
  <2> QED BY <2>1 DEF Leaves
<1> QED BY <1>1, <1>3, <1>4 DEF PlacesInv, Leaves

LEMMA ForgottenFacts ==
  ASSUME NEW txs \in SUBSET Tx, IsFiniteSet(txs)
  PROVE  /\ Forgotten(txs) \subseteq Tx /\ IsFiniteSet(Forgotten(txs))
         /\ \A u \in Forgotten(txs) : ~u.watched /\ \E t \in txs : u.job = t.job /\ u.seq = t.seq
         /\ \A u \in Forgotten(txs) : \E t \in txs : u.amount = t.amount
         /\ Cardinality(Forgotten(txs)) =< Cardinality(txs)
         /\ \A j \in Job : Cardinality(Of(j, Forgotten(txs))) =< Cardinality(Of(j, txs))
<1>1. \A t \in txs : LET u == [t EXCEPT !.watched = FALSE]
                     IN  /\ u \in Tx /\ u.job = t.job /\ u.seq = t.seq /\ ~u.watched
                         /\ u.amount = t.amount
  BY DEF Tx
<1>2. ASSUME NEW S \in SUBSET txs
      PROVE  IsFiniteSet(Forgotten(S)) /\ Cardinality(Forgotten(S)) =< Cardinality(S)
  <2> DEFINE f == [t \in S |-> [t EXCEPT !.watched = FALSE]]
  <2>1. f \in Surjection(S, Forgotten(S))
    BY DEF Surjection, Forgotten
  <2>2. IsFiniteSet(S)
    BY FS_Subset
  <2> HIDE DEF f
  <2> QED BY <2>1, <2>2, FS_Surjection
<1>3. \A j \in Job : Of(j, Forgotten(txs)) = Forgotten(Of(j, txs)) /\ Of(j, txs) \in SUBSET txs
  BY <1>1 DEF Of, Forgotten
<1>4. /\ Forgotten(txs) \subseteq Tx
      /\ \A u \in Forgotten(txs) : ~u.watched /\ \E t \in txs : u.job = t.job /\ u.seq = t.seq
      /\ \A u \in Forgotten(txs) : \E t \in txs : u.amount = t.amount
  BY <1>1 DEF Forgotten
<1>5. IsFiniteSet(Forgotten(txs)) /\ Cardinality(Forgotten(txs)) =< Cardinality(txs)
  BY <1>2
<1> QED BY <1>2, <1>3, <1>4, <1>5

LEMMA FewerTxs ==
  ASSUME NEW S, NEW T, IsFiniteSet(T), S \subseteq T, NEW j
  PROVE  /\ IsFiniteSet(S)
         /\ Cardinality(Of(j, S)) \in Nat /\ Cardinality(Of(j, T)) \in Nat
         /\ Cardinality(Of(j, S)) =< Cardinality(Of(j, T))
<1>1. Of(j, S) \subseteq Of(j, T) /\ Of(j, T) \subseteq T
  BY DEF Of
<1>2. IsFiniteSet(S) /\ IsFiniteSet(Of(j, T))
  BY <1>1, FS_Subset
<1> QED BY <1>1, <1>2, FS_Subset, FS_CardinalityType

\* An execution that polls ends its job or counts as lost.
LEMMA FinishInv ==
  ASSUME QueueInv, NEW j \in Job, worker.job = j, worker # Idle,
         Leaves(j), WorkerDone, cache' \in Nat,
         UNCHANGED <<queue, ledgerSeq, paid, crashes, overlap>>,
         lost' = lost \/ OutcomeLost(j),
         worker.phase = "polling" => Ended(j)' \/ OutcomeLost(j)
  PROVE  QueueInv'
<1>1. /\ PlacesInv /\ LedgerInv /\ worker' = Idle /\ pending' = Forgotten(pending)
      /\ state[j] = "active" /\ worker.phase # "idle"
  BY DEF QueueInv, WorkerDone, PlacesInv
<1>2. PlacesInv'
  BY <1>1, LeavesPlaces
<1>3. /\ pending' \subseteq Tx /\ IsFiniteSet(pending')
      /\ \A u \in pending' : ~u.watched /\ \E t \in pending : u.job = t.job /\ u.seq = t.seq
      /\ \A k \in Job : Cardinality(Of(k, pending')) =< Cardinality(Of(k, pending))
  BY <1>1, ForgottenFacts DEF LedgerInv
<1>4. LedgerInv'
  <2>1. \A u \in pending' : state'[u.job] # "none"
    <3>1. \A t \in pending : t.job \in Job /\ state[t.job] # "none"
      BY <1>1 DEF LedgerInv, Tx
    <3>2. \A k \in Job : state[k] # "none" => state'[k] # "none"
      BY DEF Leaves
    <3> QED BY <1>3, <3>1, <3>2
  <2> QED BY <1>1, <1>3, <2>1 DEF LedgerInv, OutcomeLost
<1>5. PaymentsCounted'
  <2> SUFFICES ASSUME NEW k \in Job
               PROVE  paid'[k] + Cardinality(Of(k, pending')) =< lost'[k] + Chance(k)'
    BY DEF PaymentsCounted
  <2>1. /\ Cardinality(Of(k, pending')) \in Nat /\ Cardinality(Of(k, pending)) \in Nat
        /\ Cardinality(Of(k, pending')) =< Cardinality(Of(k, pending))
    BY <1>1, <1>3, FewerTxs DEF LedgerInv
  <2>2. /\ paid'[k] = paid[k] /\ paid[k] \in Nat /\ lost[k] \in Nat
        /\ paid[k] + Cardinality(Of(k, pending)) =< lost[k] + Chance(k)
    BY DEF QueueInv, LedgerInv, PaymentsCounted
  <2>3. lost'[k] + Chance(k)' >= lost[k] + Chance(k)
    <3>1. CASE k = j
      <4>1. Chance(k) = IF worker.phase = "polling" THEN 1 ELSE 0
        BY <1>1, <3>1 DEF Chance, Ended, At
      <4>2. Ended(k)' => Chance(k)' = 1
        BY DEF Chance
      <4>3. Chance(k)' \in {0, 1}
        BY DEF Chance
      <4>4. lost'[k] = lost[k] \/ lost'[k] = lost[k] + 1
        BY <1>1, <3>1 DEF OutcomeLost, LedgerInv
      <4>5. OutcomeLost(j) => lost'[k] = lost[k] + 1
        BY <1>1, <3>1 DEF OutcomeLost, LedgerInv
      <4> QED BY <2>2, <3>1, <4>1, <4>2, <4>3, <4>4, <4>5
    <3>2. CASE k # j
      <4>1. state'[k] = state[k] /\ lost'[k] = lost[k] /\ ~At(k, "polling")
        BY <1>1, <3>2 DEF Leaves, OutcomeLost, LedgerInv, At
      <4>2. Chance(k)' \in {0, 1} /\ (Chance(k) = 1 => Chance(k)' = 1) /\ Chance(k) \in {0, 1}
        BY <4>1 DEF Chance, Ended
      <4> QED BY <2>2, <4>1, <4>2
    <3> QED BY <3>1, <3>2
  <2>4. Chance(k) \in {0, 1} /\ Chance(k)' \in {0, 1} /\ lost'[k] \in Nat
    BY <1>4 DEF Chance, LedgerInv
  <2> QED BY <2>1, <2>2, <2>3, <2>4
<1>6. OneInFlight'
  <2> SUFFICES ASSUME ~overlap, ~(crashes > 0) PROVE OneInFlight'
    BY DEF OneInFlight
  <2>1. \A k \in Job : InFlight(k)' => InFlight(k)
    BY <1>1, <1>3 DEF InFlight, Leaves
  <2>2. ASSUME NEW u \in pending'
        PROVE  /\ u.seq = ledgerSeq + 1
               /\ state'[u.job] \in {"waiting", "delayed"} => made'[u.job] > 0
    <3>1. PICK t \in pending : u.job = t.job /\ u.seq = t.seq
      BY <1>3
    <3>2. t.job \in Job
      BY <1>1 DEF LedgerInv, Tx
    <3> QED BY <3>1, <3>2 DEF QueueInv, OneInFlight, Leaves
  <2>3. worker'.phase # "ready"
    BY <1>1 DEF Idle
  <2> QED BY <2>1, <2>2, <2>3 DEF QueueInv, OneInFlight
<1> QED BY <1>2, <1>4, <1>5, <1>6 DEF QueueInv

LEMMA FinishingInv ==
  ASSUME QueueInv, NEW j \in Job,
         \/ SimulationFails(j) \/ SendRejected(j) \/ PollSucceeds(j)
         \/ PollSeesFailure(j) \/ PollThrows(j) \/ PollTimesOut(j)
  PROVE  QueueInv'
<1>1. PlacesInv /\ LedgerInv
  BY DEF QueueInv
<1>2. \A phase \in {"ready", "polling"} : At(j, phase) => worker.job = j /\ worker # Idle
  BY DEF At, Idle
<1>3. CASE SimulationFails(j)
  <2>1. Leaves(j)
    BY <1>1, <1>3, FailsWithLeaves DEF SimulationFails, Fails
  <2> QED BY <1>1, <1>2, <1>3, <2>1, FinishInv DEF SimulationFails, Fails, observed, At, LedgerInv
<1>4. CASE SendRejected(j)
  <2>1. Leaves(j)
    BY <1>1, <1>4, FailsWithLeaves DEF SendRejected, Fails
  <2> QED BY <1>1, <1>2, <1>4, <2>1, FinishInv DEF SendRejected, Fails, observed, At, LedgerInv
<1>5. CASE PollSucceeds(j)
  <2>1. Leaves(j) /\ Ended(j)'
    BY <1>1, <1>5, JobEndsLeaves DEF PollSucceeds, Completes
  <2> QED BY <1>1, <1>2, <1>5, <2>1, FinishInv DEF PollSucceeds, Completes, LedgerInv
<1>6. CASE PollSeesFailure(j)
  <2>1. Leaves(j) /\ Ended(j)'
    BY <1>1, <1>6, FailsWithLeaves DEF PollSeesFailure, Fails, Retryable
  <2> QED BY <1>1, <1>2, <1>6, <2>1, FinishInv DEF PollSeesFailure, Fails, observed, LedgerInv
<1>7. CASE PollThrows(j)
  <2>1. Leaves(j)
    BY <1>1, <1>7, FailsWithLeaves DEF PollThrows, Fails
  <2> QED BY <1>1, <1>2, <1>7, <2>1, FinishInv DEF PollThrows, Fails, LedgerInv
<1>8. CASE PollTimesOut(j)
  <2>1. CASE Completes(j) /\ UNCHANGED lost
    <3>1. Leaves(j) /\ Ended(j)'
      BY <1>1, <2>1, JobEndsLeaves DEF Completes
    <3> QED BY <1>1, <1>2, <1>8, <2>1, <3>1, FinishInv DEF PollTimesOut, Completes, LedgerInv
  <2>2. CASE Fails(j, "TX_POLL_TIMEOUT") /\ OutcomeLost(j)
    <3>1. Leaves(j)
      BY <1>1, <2>2, FailsWithLeaves DEF Fails
    <3> QED BY <1>1, <1>2, <1>8, <2>2, <3>1, FinishInv DEF PollTimesOut, Fails, LedgerInv
  <2> QED BY <1>8, <2>1, <2>2 DEF PollTimesOut
<1> QED BY <1>3, <1>4, <1>5, <1>6, <1>7, <1>8

-----------------------------------------------------------------------------
(* The callers, the back-off and the ledger.                               *)

\* A job that is new or delayed goes to the end of the queue.
LEMMA AppendPlaces ==
  ASSUME PlacesInv, NEW j \in Job, state[j] \in {"none", "delayed"},
         state' = [state EXCEPT ![j] = "waiting"], queue' = Append(queue, j),
         UNCHANGED <<made, worker, amount>>,
         pc' \in [Job -> CallerPlace],
         \A k \in Job : Fresh(k)' => Fresh(k) /\ k # j
  PROVE  PlacesInv'
<1>1. /\ queue \in Seq(Job) /\ state \in [Job -> JobState]
      /\ \A i \in 1..Len(queue) : queue[i] \in Job /\ queue[i] # j
  <2>1. queue \in Seq(Job) /\ state \in [Job -> JobState]
    BY DEF PlacesInv
  <2>2. ASSUME NEW i \in 1..Len(queue)
        PROVE  queue[i] \in Job /\ queue[i] # j
    <3>1. queue[i] \in Job
      BY <2>1
    <3>2. state[queue[i]] = "waiting"
      BY DEF PlacesInv
    <3> QED BY <3>1, <3>2
  <2> QED BY <2>1, <2>2
<1>2. /\ queue' \in Seq(Job) /\ Len(queue') = Len(queue) + 1 /\ Len(queue) \in Nat
      /\ queue'[Len(queue) + 1] = j
      /\ \A i \in 1..Len(queue) : queue'[i] = queue[i]
  BY <1>1
<1>3. \A i \in 1..Len(queue') : i \in 1..Len(queue) \/ i = Len(queue) + 1
  BY <1>2
<1>4. /\ state' \in [Job -> JobState] /\ state'[j] = "waiting"
      /\ \A k \in Job : k # j => state'[k] = state[k]
  BY <1>1 DEF JobState
<1>5. \A i \in 1..Len(queue') : state'[queue'[i]] = "waiting"
  BY <1>1, <1>2, <1>3, <1>4 DEF PlacesInv
<1>6. \A i, k \in 1..Len(queue') : queue'[i] = queue'[k] => i = k
  BY <1>1, <1>2, <1>3 DEF PlacesInv
<1>7. worker' \in Execution /\ (worker' = Idle \/ (worker'.job \in Job /\ worker'.phase # "idle"
                                                   /\ state'[worker'.job] = "active"))
  BY <1>4 DEF PlacesInv
<1>8. /\ made' \in [Job -> Nat] /\ amount' \in [Job -> Nat]
      /\ \A k \in Job : Fresh(k)' => state'[k] = "none"
  BY <1>4 DEF PlacesInv
<1> QED BY <1>2, <1>4, <1>5, <1>6, <1>7, <1>8 DEF PlacesInv

\* From the check on a payment is in flight, so OneInFlight looks at it.
LEMMA CheckInv ==
  ASSUME QueueInv, NEW j \in Job, NEW r, r.amount \in Nat, CheckLimits(j, r)
  PROVE  QueueInv'
<1>1. /\ PlacesInv /\ LedgerInv /\ pc[j] = "new" /\ state[j] = "none"
      /\ UNCHANGED <<jobVars, worker, cache, ledgerVars, crashes, lost>>
      /\ overlap' = (overlap \/ \E k \in Job : InFlight(k))
      /\ \E place \in {"checked", "refused"} : pc' = [pc EXCEPT ![j] = place]
      /\ \E n \in Nat : amount' = [amount EXCEPT ![j] = n]
  BY DEF QueueInv, PlacesInv, CheckLimits, Checked, Fresh
<1>2. /\ pc' \in [Job -> CallerPlace] /\ amount' \in [Job -> Nat]
      /\ \A k \in Job : k # j => pc'[k] = pc[k]
  BY <1>1 DEF PlacesInv, CallerPlace
<1>3. PlacesInv'
  BY <1>1, <1>2 DEF PlacesInv, jobVars, Fresh
<1>4. LedgerInv' /\ PaymentsCounted'
  BY <1>1 DEF QueueInv, LedgerInv, PaymentsCounted, Chance, Ended, At, jobVars, ledgerVars
<1>5. OneInFlight'
  <2> SUFFICES ASSUME ~overlap', ~(crashes > 0) PROVE OneInFlight'
    BY <1>1 DEF OneInFlight
  <2>1. \A k \in Job : ~InFlight(k)
    BY <1>1
  <2>2. pending = {}
    BY <1>1, <2>1 DEF InFlight, LedgerInv, Tx
  <2>3. \A k \in Job : InFlight(k)' => k = j
    BY <1>1, <1>2, <2>1 DEF InFlight, jobVars, ledgerVars
  <2> QED BY <1>1, <2>2, <2>3 DEF OneInFlight, ledgerVars
<1> QED BY <1>3, <1>4, <1>5 DEF QueueInv

LEMMA AddInv ==
  ASSUME QueueInv, NEW j \in Job, AddJob(j)
  PROVE  QueueInv'
<1>1. /\ PlacesInv /\ LedgerInv /\ pc[j] = "checked" /\ state[j] = "none"
      /\ UNCHANGED <<made, amount, worker, cache, ledgerVars, crashes, lost, overlap>>
      /\ \E place \in {"added", "refused"} : pc' = [pc EXCEPT ![j] = place]
  BY DEF QueueInv, PlacesInv, AddJob, Fresh, observed
<1>2. /\ pc' \in [Job -> CallerPlace]
      /\ \A k \in Job : Fresh(k)' => Fresh(k) /\ k # j
  BY <1>1 DEF PlacesInv, CallerPlace, Fresh
<1>3. \A k \in Job : pc'[k] = "checked" => pc[k] = "checked"
  BY <1>1 DEF PlacesInv
<1>4. InFlight(j) /\ \A t \in pending : t.job \in Job /\ t.job # j /\ InFlight(t.job)
  BY <1>1 DEF InFlight, LedgerInv, Tx
<1>5. CASE state' = [state EXCEPT ![j] = "waiting"] /\ queue' = Append(queue, j)
  <2>1. PlacesInv'
    BY <1>1, <1>2, <1>5, AppendPlaces
  <2>2. /\ state'[j] = "waiting"
        /\ \A k \in Job : k # j => state'[k] = state[k]
    BY <1>1, <1>5 DEF PlacesInv
  <2>3. LedgerInv'
    BY <1>1, <1>4, <2>2 DEF LedgerInv, ledgerVars
  <2>4. PaymentsCounted'
    BY <1>1, <2>2 DEF QueueInv, PaymentsCounted, Chance, Ended, At, ledgerVars
  <2>5. \A k \in Job : InFlight(k)' => InFlight(k)
    BY <1>1, <1>3, <1>4, <2>2 DEF InFlight, ledgerVars
  <2>6. OneInFlight'
    BY <1>1, <1>4, <2>5 DEF QueueInv, OneInFlight, ledgerVars
  <2> QED BY <2>1, <2>3, <2>4, <2>6 DEF QueueInv
<1>6. CASE UNCHANGED <<state, queue>>
  <2>1. PlacesInv'
    BY <1>1, <1>2, <1>6 DEF PlacesInv
  <2>2. LedgerInv' /\ PaymentsCounted'
    BY <1>1, <1>6 DEF QueueInv, LedgerInv, PaymentsCounted, Chance, Ended, At, ledgerVars
  <2>3. \A k \in Job : InFlight(k)' => InFlight(k)
    BY <1>1, <1>3, <1>6 DEF InFlight, ledgerVars
  <2>4. OneInFlight'
    BY <1>1, <1>6, <2>3 DEF QueueInv, OneInFlight, ledgerVars
  <2> QED BY <2>1, <2>2, <2>4 DEF QueueInv
<1> QED BY <1>5, <1>6 DEF AddJob

LEMMA PromoteInv ==
  ASSUME QueueInv, NEW j \in Job, Promote(j)
  PROVE  QueueInv'
<1>1. /\ PlacesInv /\ LedgerInv /\ state[j] = "delayed"
      /\ state' = [state EXCEPT ![j] = "waiting"] /\ queue' = Append(queue, j)
      /\ UNCHANGED <<pc, amount, made, worker, cache, ledgerVars, crashes, lost, overlap>>
  BY DEF QueueInv, Promote, callerVars, observed
<1>2. PlacesInv'
  <2>1. pc \in [Job -> CallerPlace] /\ \A k \in Job : Fresh(k)' => Fresh(k) /\ k # j
    BY <1>1 DEF PlacesInv, Fresh
  <2> QED BY <1>1, <2>1, AppendPlaces
<1>3. \A k \in Job : /\ k # j => state'[k] = state[k]
                     /\ state'[j] = "waiting"
  BY <1>1 DEF PlacesInv
<1>4. \A k \in Job : Chance(k)' = Chance(k) /\ InFlight(k)' = InFlight(k)
  BY <1>1, <1>3 DEF Chance, Ended, At, InFlight, ledgerVars
<1>5. PaymentsCounted' /\ LedgerInv'
  <2>1. \A t \in pending : state'[t.job] # "none"
    BY <1>1, <1>3 DEF LedgerInv, Tx
  <2> QED BY <1>1, <1>4, <2>1 DEF QueueInv, PaymentsCounted, LedgerInv, ledgerVars
<1>6. \A t \in pending : state'[t.job] \in {"waiting", "delayed"} =>
                             state[t.job] \in {"waiting", "delayed"}
  BY <1>1, <1>3 DEF LedgerInv, Tx
<1>7. OneInFlight'
  BY <1>1, <1>4, <1>6 DEF QueueInv, OneInFlight, ledgerVars
<1> QED BY <1>2, <1>5, <1>7 DEF QueueInv

LEMMA CallersInv ==
  ASSUME QueueInv,
         \/ \E j \in Job : RefuseMemo(j) \/ Listen(j)
         \/ PeriodEnds \/ UNCHANGED vars
  PROVE  QueueInv'
<1>1. /\ UNCHANGED <<amount, jobVars, worker, cache, ledgerSeq, pending, paid, crashes, observed>>
      /\ \/ UNCHANGED pc
         \/ \E j \in Job, place \in {"refused", "waiting"} : pc' = [pc EXCEPT ![j] = place]
  BY DEF RefuseMemo, Listen, PeriodEnds, vars, callerVars, ledgerVars
<1>2. PlacesInv'
  <2>1. pc \in [Job -> CallerPlace] /\ UNCHANGED <<state, queue, made, worker, amount>>
    BY <1>1 DEF QueueInv, PlacesInv, jobVars
  <2>2. pc' \in [Job -> CallerPlace] /\ \A k \in Job : Fresh(k)' => Fresh(k)
    BY <1>1, <2>1 DEF CallerPlace, Fresh
  <2> QED BY <2>1, <2>2 DEF QueueInv, PlacesInv
<1>3. LedgerInv' /\ PaymentsCounted'
  BY <1>1 DEF QueueInv, LedgerInv, PaymentsCounted, Chance, Ended, At, jobVars, observed
<1>4. OneInFlight'
  <2>1. \A k \in Job : pc'[k] = "checked" => pc[k] = "checked"
    BY <1>1 DEF QueueInv, PlacesInv
  <2>2. \A k \in Job : InFlight(k)' => InFlight(k)
    BY <1>1, <2>1 DEF InFlight, jobVars
  <2> QED BY <1>1, <2>2 DEF QueueInv, OneInFlight, jobVars, observed
<1> QED BY <1>2, <1>3, <1>4 DEF QueueInv

\* What is left of the pending transactions when t has been applied or has expired.
LEMMA LedgerMovesInv ==
  ASSUME QueueInv, NEW t \in pending, LedgerApplies(t) \/ TxExpires(t)
  PROVE  QueueInv'
<1>1. /\ PlacesInv /\ LedgerInv /\ t \in Tx /\ worker \in Execution
      /\ UNCHANGED <<callerVars, jobVars, cache, crashes, lost, overlap>>
      /\ pending' \subseteq pending /\ t \notin pending'
      /\ \/ UNCHANGED worker
         \/ t.watched /\ \E sees \in {"ok", "failed"} : worker' = [worker EXCEPT !.sees = sees]
      /\ \/ paid' = paid
         \/ paid' = [paid EXCEPT ![t.job] = paid[t.job] + 1]
      /\ \/ ledgerSeq' = ledgerSeq
         \/ ledgerSeq' = t.seq /\ t.seq = ledgerSeq + 1 /\ pending' = {u \in pending : u.seq > t.seq}
  <2>1. PlacesInv /\ LedgerInv /\ t \in Tx /\ worker \in Execution
    BY DEF QueueInv, LedgerInv, PlacesInv
  <2>2. t.seq \in Nat
    BY <2>1 DEF Tx
  <2>3. CASE LedgerApplies(t)
    BY <2>1, <2>2, <2>3 DEF LedgerApplies, observed
  <2>4. CASE TxExpires(t)
    BY <2>1, <2>4 DEF TxExpires, observed
  <2> QED BY <2>3, <2>4
<1>2. /\ worker'.job = worker.job /\ worker'.phase = worker.phase /\ worker'.seq = worker.seq
      /\ worker' \in Execution
      /\ worker' = worker \/ worker.phase = "polling"
  BY <1>1 DEF Execution, LedgerInv
<1>3. PlacesInv'
  <2>1. worker' = Idle \/ (worker'.job \in Job /\ worker'.phase # "idle"
                           /\ state'[worker'.job] = "active")
    BY <1>1, <1>2 DEF PlacesInv, jobVars, Idle
  <2> QED BY <1>1, <1>2, <2>1 DEF PlacesInv, Fresh, callerVars, jobVars
<1>4. t.job \in Job /\ t.seq \in Nat
  BY <1>1 DEF Tx
<1>5. LedgerInv'
  BY <1>1, <1>2, <1>4, FS_Subset DEF LedgerInv, jobVars
<1>6. PaymentsCounted'
  <2> SUFFICES ASSUME NEW k \in Job
               PROVE  paid'[k] + Cardinality(Of(k, pending')) =< lost'[k] + Chance(k)'
    BY DEF PaymentsCounted
  <2>1. /\ Cardinality(Of(k, pending')) \in Nat /\ Cardinality(Of(k, pending)) \in Nat
        /\ Cardinality(Of(k, pending')) =< Cardinality(Of(k, pending))
    BY <1>1, FewerTxs DEF LedgerInv
  <2>2. Chance(k)' = Chance(k) /\ lost'[k] = lost[k] /\ Chance(k) \in {0, 1}
    BY <1>1, <1>2 DEF Chance, Ended, At, jobVars
  <2>3. CASE k = t.job
    <3>1. /\ IsFiniteSet(Of(k, pending)) /\ t \in Of(k, pending)
          /\ Of(k, pending') \subseteq Of(k, pending) \ {t}
      BY <1>1, <2>3, FS_Subset DEF Of, LedgerInv
    <3>2. Cardinality(Of(k, pending')) =< Cardinality(Of(k, pending)) - 1
      <4>1. /\ IsFiniteSet(Of(k, pending) \ {t})
            /\ Cardinality(Of(k, pending) \ {t}) = Cardinality(Of(k, pending)) - 1
        BY <3>1, FS_RemoveElement
      <4>2. Cardinality(Of(k, pending')) =< Cardinality(Of(k, pending) \ {t})
        BY <3>1, <4>1, FS_Subset
      <4> QED BY <4>1, <4>2
    <3>3. paid'[k] =< paid[k] + 1 /\ paid[k] \in Nat /\ paid'[k] \in Nat /\ lost[k] \in Nat
      BY <1>1, <1>4, <1>5, <2>3 DEF LedgerInv
    <3>4. paid[k] + Cardinality(Of(k, pending)) =< lost[k] + Chance(k)
      BY DEF QueueInv, PaymentsCounted
    <3> QED BY <2>1, <2>2, <3>2, <3>3, <3>4
  <2>4. CASE k # t.job
    <3>1. paid'[k] = paid[k] /\ paid[k] \in Nat /\ lost[k] \in Nat
      BY <1>1, <2>4 DEF LedgerInv
    <3>2. paid[k] + Cardinality(Of(k, pending)) =< lost[k] + Chance(k)
      BY DEF QueueInv, PaymentsCounted
    <3> QED BY <2>1, <2>2, <3>1, <3>2
  <2> QED BY <2>3, <2>4
<1>7. OneInFlight'
  <2> SUFFICES ASSUME ~overlap, ~(crashes > 0) PROVE OneInFlight'
    BY <1>1 DEF OneInFlight
  <2>1. \A k \in Job : InFlight(k)' => InFlight(k)
    BY <1>1 DEF InFlight, callerVars, jobVars
  <2>2. ledgerSeq' = ledgerSeq \/ pending' = {}
    BY <1>1, <1>4 DEF QueueInv, OneInFlight, LedgerInv
  <2> QED BY <1>1, <1>2, <2>1, <2>2 DEF QueueInv, OneInFlight, jobVars, LedgerInv
<1> QED BY <1>3, <1>5, <1>6, <1>7 DEF QueueInv

-----------------------------------------------------------------------------
(* The executions of the worker, from the head of the queue to the network.*)

\* The queue without its head, when that job is in no other place.
LEMMA TailPlaces ==
  ASSUME PlacesInv, NEW j \in Job, queue # <<>>, Head(queue) = j
  PROVE  /\ state[j] = "waiting"
         /\ Tail(queue) \in Seq(Job)
         /\ \A i \in 1..Len(Tail(queue)) :
                Tail(queue)[i] # j /\ state[Tail(queue)[i]] = "waiting"
         /\ \A i, k \in 1..Len(Tail(queue)) : Tail(queue)[i] = Tail(queue)[k] => i = k
<1>1. queue \in Seq(Job) /\ Len(queue) \in Nat /\ Len(queue) >= 1 /\ queue[1] = j
  BY DEF PlacesInv
<1>2. /\ Tail(queue) \in Seq(Job) /\ Len(Tail(queue)) = Len(queue) - 1
      /\ \A i \in 1..Len(Tail(queue)) : Tail(queue)[i] = queue[i + 1]
  BY <1>1
<1>3. \A i \in 1..Len(Tail(queue)) : i + 1 \in 1..Len(queue) /\ i + 1 # 1 /\ 1 \in 1..Len(queue)
  BY <1>1, <1>2
<1>4. \A i, k \in 1..Len(Tail(queue)) : i + 1 = k + 1 => i = k
  OBVIOUS
<1>5. /\ \A i \in 1..Len(queue) : state[queue[i]] = "waiting"
      /\ \A i, k \in 1..Len(queue) : queue[i] = queue[k] => i = k
  BY DEF PlacesInv
<1>6. 1 \in 1..Len(queue) /\ state[j] = "waiting"
  BY <1>1, <1>5
<1>7. \A i \in 1..Len(Tail(queue)) : Tail(queue)[i] # j /\ state[Tail(queue)[i]] = "waiting"
  BY <1>1, <1>2, <1>3, <1>5
<1>8. \A i, k \in 1..Len(Tail(queue)) : Tail(queue)[i] = Tail(queue)[k] => i = k
  BY <1>2, <1>3, <1>4, <1>5
<1> QED BY <1>2, <1>6, <1>7, <1>8

LEMMA GetNextInv ==
  ASSUME QueueInv, NEW j \in Job, GetNextSequenceNumber(j)
  PROVE  QueueInv'
<1>1. /\ PlacesInv /\ LedgerInv /\ worker = Idle /\ queue # <<>> /\ Head(queue) = j
      /\ queue' = Tail(queue) /\ state' = [state EXCEPT ![j] = "active"]
      /\ UNCHANGED <<ledgerSeq, paid, crashes, lost, overlap, pc, amount, made, pending>>
  BY DEF QueueInv, GetNextSequenceNumber, Begin, callerVars
<1>2. PICK cached \in {CachedForAttempt(j), 0} :
        /\ cache' = NextSequence(cached)
        /\ worker' = [job |-> j, phase |-> "ready", seq |-> NextSequence(cached),
                      sees |-> "nothing"]
  BY DEF GetNextSequenceNumber
<1>3. /\ cached \in Nat /\ NextSequence(cached) \in Nat
      /\ made[j] > 0 => NextSequence(cached) =< ledgerSeq + 1
  BY <1>1 DEF LedgerInv, CachedForAttempt, NextSequence
<1>4. /\ state[j] = "waiting" /\ state' \in [Job -> JobState] /\ state'[j] = "active"
      /\ \A k \in Job : k # j => state'[k] = state[k]
  BY <1>1, TailPlaces DEF PlacesInv, JobState
<1>5. PlacesInv'
  <2>1. /\ queue' \in Seq(Job)
        /\ \A i \in 1..Len(queue') : queue'[i] \in Job /\ queue'[i] # j /\ state[queue'[i]] = "waiting"
        /\ \A i, k \in 1..Len(queue') : queue'[i] = queue'[k] => i = k
    <3>1. PlacesInv /\ queue # <<>> /\ Head(queue) = j /\ queue' = Tail(queue)
      BY <1>1
    <3> QED BY <3>1, TailPlaces
  <2>2. worker' \in Execution /\ worker'.job = j /\ worker'.phase = "ready"
    BY <1>2, <1>3 DEF Execution
  <2>3. \A k \in Job : Fresh(k)' => state'[k] = "none"
    BY <1>1, <1>4 DEF PlacesInv, Fresh
  <2> QED BY <1>1, <1>4, <2>1, <2>2, <2>3 DEF PlacesInv
<1>6. \A t \in pending : ~t.watched
  BY <1>1 DEF LedgerInv, Idle
<1>7. LedgerInv'
  <2>1. \A t \in pending : state'[t.job] # "none"
    BY <1>1, <1>4 DEF LedgerInv, Tx
  <2> QED BY <1>1, <1>2, <1>3, <1>6, <2>1 DEF LedgerInv
<1>8. \A k \in Job : Chance(k)' = Chance(k)
  BY <1>1, <1>2, <1>4 DEF Chance, Ended, At, Idle
<1>9. PaymentsCounted'
  BY <1>1, <1>8 DEF QueueInv, PaymentsCounted
<1>10. OneInFlight'
  <2> SUFFICES ASSUME ~overlap, ~(crashes > 0) PROVE OneInFlight'
    BY <1>1 DEF OneInFlight
  <2>1. \A k \in Job : InFlight(k)' => InFlight(k)
    BY <1>1, <1>4 DEF InFlight
  <2>2. ASSUME NEW t \in pending
        PROVE  t.job = j /\ made[j] > 0 /\ t.seq = ledgerSeq + 1
    <3>1. t.job \in Job /\ InFlight(t.job) /\ InFlight(j)
      BY <1>1, <1>4 DEF InFlight, LedgerInv, Tx
    <3> QED BY <1>4, <3>1 DEF QueueInv, OneInFlight
  <2>3. worker'.seq =< ledgerSeq + 1 \/ pending = {}
    BY <1>2, <1>3, <2>2
  <2>4. \A t \in pending : t.seq = ledgerSeq + 1
                           /\ (state'[t.job] \in {"waiting", "delayed"} => made[t.job] > 0)
    BY <1>4, <2>2
  <2> QED BY <1>1, <2>1, <2>3, <2>4 DEF QueueInv, OneInFlight
<1> QED BY <1>5, <1>7, <1>9, <1>10 DEF QueueInv

LEMMA PreparationFailsInv ==
  ASSUME QueueInv, NEW j \in Job, PreparationFails(j)
  PROVE  QueueInv'
<1>1. /\ PlacesInv /\ LedgerInv /\ worker = Idle /\ queue # <<>> /\ Head(queue) = j
      /\ queue' = Tail(queue) /\ Leaves(j) /\ cache' \in Nat
      /\ UNCHANGED <<ledgerSeq, paid, crashes, lost, overlap, pending, worker>>
  BY FailsWithLeaves DEF QueueInv, PreparationFails, Begin, LedgerInv, CachedForAttempt
<1>2. PlacesInv'
  <2>1. /\ state[j] = "waiting" /\ queue' \in Seq(Job)
        /\ \A i \in 1..Len(queue') : queue'[i] \in Job /\ queue'[i] # j /\ state[queue'[i]] = "waiting"
        /\ \A i, k \in 1..Len(queue') : queue'[i] = queue'[k] => i = k
    <3>1. /\ PlacesInv /\ queue # <<>> /\ Head(queue) = j /\ queue' = Tail(queue)
      BY <1>1
    <3> QED BY <3>1, TailPlaces
  <2>2. \A k \in Job : Fresh(k)' => state'[k] = "none"
    <3> SUFFICES ASSUME NEW k \in Job, Fresh(k)' PROVE state'[k] = "none"
      OBVIOUS
    <3>1. state[k] = "none"
      BY <1>1 DEF PlacesInv, Leaves
    <3> QED BY <1>1, <2>1, <3>1 DEF Leaves
  <2>3. /\ pc' \in [Job -> CallerPlace] /\ state' \in [Job -> JobState]
        /\ made' \in [Job -> Nat] /\ amount' \in [Job -> Nat]
        /\ worker' \in Execution /\ worker' = Idle
    BY <1>1 DEF PlacesInv, Leaves
  <2>4. \A i \in 1..Len(queue') : state'[queue'[i]] = "waiting"
    BY <1>1, <2>1 DEF Leaves
  <2> QED BY <2>1, <2>2, <2>3, <2>4 DEF PlacesInv
<1>3. LedgerInv'
  <2>1. \A t \in pending : state'[t.job] # "none"
    BY <1>1 DEF LedgerInv, Tx, Leaves
  <2> QED BY <1>1, <2>1 DEF LedgerInv
<1>4. \A k \in Job : Chance(k) \in {0, 1} /\ Chance(k)' \in {0, 1}
                     /\ (Chance(k) = 1 => Chance(k)' = 1)
  <2>1. state[j] = "waiting"
    BY <1>1, TailPlaces
  <2> QED BY <1>1, <2>1 DEF Chance, Ended, At, Idle, Leaves
<1>5. PaymentsCounted'
  <2> SUFFICES ASSUME NEW k \in Job
               PROVE  paid[k] + Cardinality(Of(k, pending)) =< lost[k] + Chance(k)'
    BY <1>1 DEF PaymentsCounted
  <2>1. /\ paid[k] \in Nat /\ lost[k] \in Nat /\ Cardinality(Of(k, pending)) \in Nat
        /\ paid[k] + Cardinality(Of(k, pending)) =< lost[k] + Chance(k)
    BY <1>1, FewerTxs DEF QueueInv, LedgerInv, PaymentsCounted
  <2> QED BY <1>4, <2>1
<1>6. OneInFlight'
  <2>1. \A k \in Job : InFlight(k)' => InFlight(k)
    <3>1. state[j] = "waiting"
      BY <1>1, TailPlaces
    <3> QED BY <1>1, <3>1 DEF InFlight, Leaves
  <2>2. \A t \in pending : t.job \in Job
    BY <1>1 DEF LedgerInv, Tx
  <2> QED BY <1>1, <2>1, <2>2 DEF QueueInv, OneInFlight, Leaves
<1> QED BY <1>2, <1>3, <1>5, <1>6 DEF QueueInv

\* What the network may have taken from job j.
LEMMA SentFacts ==
  ASSUME QueueInv, NEW j \in Job, At(j, "ready"), NEW watched \in BOOLEAN
  PROVE  /\ Sent(j, watched) \subseteq Tx /\ IsFiniteSet(Sent(j, watched))
         /\ \A t \in Sent(j, watched) :
                t \in pending \/ (t.job = j /\ t.seq = worker.seq /\ t.watched = watched)
         /\ \A t \in pending : ~t.watched
         /\ \A k \in Job : k # j => Of(k, Sent(j, watched)) = Of(k, pending)
         /\ Cardinality(Of(j, Sent(j, watched))) =< Cardinality(Of(j, pending)) + 1
<1> DEFINE tx == [job |-> j, seq |-> worker.seq, amount |-> amount[j], watched |-> watched]
<1>1. worker.seq \in Nat /\ amount[j] \in Nat /\ LedgerInv
  BY DEF QueueInv, PlacesInv, Execution
<1>2. tx \in Tx /\ tx.job = j /\ Sent(j, watched) = pending \cup {tx}
  BY <1>1 DEF Tx, Sent
<1>3. Sent(j, watched) \subseteq Tx /\ IsFiniteSet(Sent(j, watched))
  BY <1>1, <1>2, FS_AddElement DEF LedgerInv
<1>4. \A k \in Job : k # j => Of(k, Sent(j, watched)) = Of(k, pending)
  BY <1>2 DEF Of
<1>5. Cardinality(Of(j, Sent(j, watched))) =< Cardinality(Of(j, pending)) + 1
  <2>1. Of(j, Sent(j, watched)) = Of(j, pending) \cup {tx}
    BY <1>2 DEF Of
  <2>2. IsFiniteSet(Of(j, pending))
    BY <1>1, FS_Subset DEF Of, LedgerInv
  <2>3. Cardinality(Of(j, pending)) \in Nat
    BY <2>2, FS_CardinalityType
  <2>4. Cardinality(Of(j, pending) \cup {tx}) =
            IF tx \in Of(j, pending) THEN Cardinality(Of(j, pending))
            ELSE Cardinality(Of(j, pending)) + 1
    BY <2>2, FS_AddElement
  <2> HIDE DEF tx
  <2> QED BY <2>1, <2>3, <2>4
<1>6. \A t \in pending : ~t.watched
  BY <1>1 DEF LedgerInv, At
<1> QED BY <1>2, <1>3, <1>4, <1>5, <1>6

\* One payment at a time: what the network accepts carries the next number.
LEMMA AcceptedNumber ==
  ASSUME QueueInv, ~overlap, ~(crashes > 0), worker.phase = "ready", Acceptable(worker.seq)
  PROVE  worker.seq = ledgerSeq + 1
<1>1. /\ \A t \in pending : t.seq = ledgerSeq + 1
      /\ worker.seq =< ledgerSeq + 1 \/ pending = {}
  BY DEF QueueInv, OneInFlight
<1>2. worker.seq \in Nat /\ ledgerSeq \in Nat
  BY DEF QueueInv, PlacesInv, LedgerInv, Execution
<1> QED BY <1>1, <1>2 DEF Acceptable

LEMMA SendInv ==
  ASSUME QueueInv, NEW j \in Job, Send(j)
  PROVE  QueueInv'
<1>1. /\ PlacesInv /\ LedgerInv /\ At(j, "ready") /\ worker \in Execution
      /\ worker' = [worker EXCEPT !.phase = "polling"]
      /\ UNCHANGED <<pc, amount, state, queue, made, cache, ledgerSeq, paid, crashes, lost,
                     overlap>>
      /\ pending' = pending \/ (Acceptable(worker.seq) /\ pending' = Sent(j, TRUE))
  BY DEF QueueInv, PlacesInv, Send, callerVars, jobVars, observed
<1>2. worker' \in Execution /\ worker'.job = j /\ worker'.phase = "polling" /\ worker # Idle
  BY <1>1 DEF Execution, At, Idle
<1>3. state[j] = "active"
  BY <1>1, <1>2 DEF PlacesInv, At
<1>4. PlacesInv'
  BY <1>1, <1>2, <1>3 DEF PlacesInv, Fresh
<1>5. /\ pending' \subseteq Tx /\ IsFiniteSet(pending')
      /\ \A t \in pending' : t \in pending \/ (pending' = Sent(j, TRUE) /\ t.job = j
                                               /\ t.seq = worker.seq)
      /\ \A k \in Job : k # j => Of(k, pending') = Of(k, pending)
      /\ pending' = pending
         \/ Cardinality(Of(j, pending')) =< Cardinality(Of(j, pending)) + 1
  <2>1. CASE pending' = pending
    BY <1>1, <2>1 DEF LedgerInv
  <2>2. CASE pending' = Sent(j, TRUE)
    BY <1>1, <2>2, SentFacts
  <2> QED BY <1>1, <2>1, <2>2
<1>6. LedgerInv'
  BY <1>1, <1>2, <1>3, <1>5 DEF LedgerInv
<1>7. PaymentsCounted'
  <2> SUFFICES ASSUME NEW k \in Job
               PROVE  paid[k] + Cardinality(Of(k, pending')) =< lost[k] + Chance(k)'
    BY <1>1 DEF PaymentsCounted
  <2>1. /\ paid[k] \in Nat /\ lost[k] \in Nat
        /\ Cardinality(Of(k, pending)) \in Nat /\ Cardinality(Of(k, pending')) \in Nat
        /\ paid[k] + Cardinality(Of(k, pending)) =< lost[k] + Chance(k)
    BY <1>1, <1>5, FewerTxs DEF QueueInv, LedgerInv, PaymentsCounted
  <2>2. CASE k = j
    <3>1. Chance(k) = 0 /\ Chance(k)' = 1
      BY <1>1, <1>2, <1>3, <2>2 DEF Chance, Ended, At
    <3>2. Cardinality(Of(k, pending')) =< Cardinality(Of(k, pending)) + 1
      BY <1>5, <2>1, <2>2
    <3> QED BY <2>1, <3>1, <3>2
  <2>3. CASE k # j
    <3>1. Chance(k)' = Chance(k) /\ Of(k, pending') = Of(k, pending)
      BY <1>1, <1>2, <1>5, <2>3 DEF Chance, Ended, At
    <3> QED BY <2>1, <3>1
  <2> QED BY <2>2, <2>3
<1>8. OneInFlight'
  <2> SUFFICES ASSUME ~overlap, ~(crashes > 0) PROVE OneInFlight'
    BY <1>1 DEF OneInFlight
  <2>1. InFlight(j) /\ \A k \in Job : InFlight(k)' => InFlight(k)
    BY <1>1, <1>3, <1>5 DEF InFlight
  <2>2. ASSUME NEW t \in pending'
        PROVE  t.seq = ledgerSeq + 1
               /\ (state[t.job] \in {"waiting", "delayed"} => made[t.job] > 0)
    <3>1. CASE t \in pending
      BY <3>1 DEF QueueInv, OneInFlight
    <3>2. CASE t \notin pending
      <4>1. t.job = j /\ t.seq = worker.seq
        BY <1>5, <3>2
      <4>2. Acceptable(worker.seq)
        BY <1>1, <3>2
      <4> QED BY <1>1, <1>3, <4>1, <4>2, AcceptedNumber DEF At
    <3> QED BY <3>1, <3>2
  <2> QED BY <1>1, <1>2, <2>1, <2>2 DEF QueueInv, OneInFlight
<1> QED BY <1>4, <1>6, <1>7, <1>8 DEF QueueInv

LEMMA SendUnansweredInv ==
  ASSUME QueueInv, NEW j \in Job, SendUnanswered(j)
  PROVE  QueueInv'
<1>1. /\ PlacesInv /\ LedgerInv /\ At(j, "ready") /\ worker \in Execution
      /\ worker' = Idle /\ Acceptable(worker.seq) /\ pending' = Sent(j, FALSE)
      /\ Leaves(j) /\ lost' = [lost EXCEPT ![j] = lost[j] + 1]
      /\ UNCHANGED <<queue, cache, ledgerSeq, paid, crashes, overlap>>
  BY FailsWithLeaves DEF QueueInv, PlacesInv, SendUnanswered, OutcomeLost
<1>2. worker.job = j /\ worker.phase = "ready" /\ worker # Idle /\ state[j] = "active"
  BY <1>1 DEF At, Idle, PlacesInv
<1>3. PlacesInv'
  BY <1>1, <1>2, LeavesPlaces
<1>4. /\ pending' \subseteq Tx /\ IsFiniteSet(pending')
      /\ \A t \in pending' : ~t.watched
      /\ \A t \in pending' : t \in pending \/ (t.job = j /\ t.seq = worker.seq)
      /\ \A k \in Job : k # j => Of(k, pending') = Of(k, pending)
      /\ Cardinality(Of(j, pending')) =< Cardinality(Of(j, pending)) + 1
  BY <1>1, SentFacts
<1>5. LedgerInv'
  <2>1. lost' \in [Job -> Nat]
    BY <1>1 DEF LedgerInv
  <2>2. cache' \in Nat /\ ledgerSeq' \in Nat /\ crashes' \in Nat /\ paid' \in [Job -> Nat]
    BY <1>1 DEF LedgerInv
  <2>3. \A t \in pending' : state'[t.job] # "none"
    BY <1>1, <1>2, <1>4 DEF LedgerInv, Tx, Leaves
  <2> QED BY <1>4, <2>1, <2>2, <2>3 DEF LedgerInv
<1>6. PaymentsCounted'
  <2> SUFFICES ASSUME NEW k \in Job
               PROVE  paid[k] + Cardinality(Of(k, pending')) =< lost'[k] + Chance(k)'
    BY <1>1 DEF PaymentsCounted
  <2>1. /\ paid[k] \in Nat /\ lost[k] \in Nat
        /\ Cardinality(Of(k, pending)) \in Nat /\ Cardinality(Of(k, pending')) \in Nat
        /\ paid[k] + Cardinality(Of(k, pending)) =< lost[k] + Chance(k)
        /\ Chance(k)' \in {0, 1}
    BY <1>1, <1>4, FewerTxs DEF QueueInv, LedgerInv, PaymentsCounted, Chance
  <2>2. CASE k = j
    <3>1. Chance(k) = 0
      BY <1>2, <2>2 DEF Chance, Ended, At
    <3>2. lost'[k] = lost[k] + 1
      BY <1>1, <2>2 DEF LedgerInv
    <3> QED BY <1>4, <2>1, <2>2, <3>1, <3>2
  <2>3. CASE k # j
    <3>1. Chance(k)' = Chance(k) /\ Of(k, pending') = Of(k, pending) /\ lost'[k] = lost[k]
      BY <1>1, <1>2, <1>4, <2>3 DEF Chance, Ended, At, Idle, Leaves, LedgerInv
    <3> QED BY <2>1, <3>1
  <2> QED BY <2>2, <2>3
<1>7. OneInFlight'
  <2> SUFFICES ASSUME ~overlap, ~(crashes > 0) PROVE OneInFlight'
    BY <1>1 DEF OneInFlight
  <2>1. \A k \in Job : InFlight(k)' => InFlight(k)
    BY <1>1, <1>2, <1>4 DEF InFlight, Leaves
  <2>2. ASSUME NEW t \in pending'
        PROVE  t.seq = ledgerSeq + 1
               /\ (state'[t.job] \in {"waiting", "delayed"} => made'[t.job] > 0)
    <3>1. t.job \in Job /\ t.seq = ledgerSeq + 1
      BY <1>1, <1>2, <1>4, AcceptedNumber DEF QueueInv, OneInFlight, Tx
    <3>2. CASE t.job = j
      BY <1>1, <3>1, <3>2 DEF Leaves
    <3>3. CASE t.job # j
      <4>1. t \in pending
        BY <1>4, <3>3
      <4> QED BY <1>1, <3>1, <3>3, <4>1 DEF QueueInv, OneInFlight, Leaves
    <3> QED BY <3>2, <3>3
  <2>3. worker'.phase # "ready"
    BY <1>1 DEF Idle
  <2> QED BY <1>1, <2>1, <2>2, <2>3 DEF QueueInv, OneInFlight
<1> QED BY <1>3, <1>5, <1>6, <1>7 DEF QueueInv

\* The stalled job goes to the front of the queue; what it had sent is lost.
LEMMA BusyCrashInv ==
  ASSUME QueueInv, Crash, worker # Idle
  PROVE  QueueInv'
<1> DEFINE j == worker.job
<1>1. /\ PlacesInv /\ LedgerInv /\ worker # Idle /\ j \in Job /\ state[j] = "active"
      /\ crashes' = crashes + 1
      /\ pc' = [k \in Job |->
                  IF pc[k] \in {"checked", "added", "waiting"} THEN "gone" ELSE pc[k]]
      /\ worker' = Idle /\ pending' = Forgotten(pending)
      /\ state' = [state EXCEPT ![j] = "waiting"] /\ queue' = <<j>> \o queue
      /\ UNCHANGED <<amount, made, cache, ledgerSeq, paid>>
      /\ IF worker.phase = "polling" THEN lost' = [lost EXCEPT ![j] = lost[j] + 1]
         ELSE lost' = lost
  BY DEF QueueInv, PlacesInv, Crash, WorkerDone, OutcomeLost
<1> HIDE DEF j
<1>2. /\ state' \in [Job -> JobState] /\ state'[j] = "waiting"
      /\ \A k \in Job : k # j => state'[k] = state[k]
  BY <1>1 DEF PlacesInv, JobState
<1>3. PlacesInv'
  <2>1. /\ queue \in Seq(Job) /\ Len(queue) \in Nat
        /\ \A i \in 1..Len(queue) : queue[i] \in Job /\ queue[i] # j
    BY <1>1 DEF PlacesInv
  <2>2. /\ queue' \in Seq(Job) /\ Len(queue') = Len(queue) + 1
        /\ queue'[1] = j
        /\ \A i \in 2..Len(queue') : i - 1 \in 1..Len(queue) /\ queue'[i] = queue[i - 1]
    BY <1>1, <2>1
  <2>3. \A i \in 1..Len(queue') : i = 1 \/ i \in 2..Len(queue')
    BY <2>1, <2>2
  <2>4. \A i \in 1..Len(queue') : state'[queue'[i]] = "waiting"
    <3>1. \A i \in 1..Len(queue) : state[queue[i]] = "waiting"
      BY <1>1 DEF PlacesInv
    <3>2. ASSUME NEW i \in 2..Len(queue') PROVE state'[queue'[i]] = "waiting"
      <4>1. queue'[i] = queue[i - 1] /\ i - 1 \in 1..Len(queue)
        BY <2>2
      <4>2. /\ queue[i - 1] \in Job /\ queue[i - 1] # j
            /\ state[queue[i - 1]] = "waiting"
        BY <2>1, <3>1, <4>1
      <4> QED BY <1>2, <4>1, <4>2
    <3> QED BY <1>2, <2>2, <2>3, <3>2
  <2>5. \A i, k \in 1..Len(queue') : queue'[i] = queue'[k] => i = k
    <3>1. \A i, k \in 1..Len(queue) : queue[i] = queue[k] => i = k
      BY <1>1 DEF PlacesInv
    <3>2. \A i, k \in 2..Len(queue') : i - 1 = k - 1 => i = k
      OBVIOUS
    <3> QED BY <2>1, <2>2, <2>3, <3>1, <3>2
  <2>6. Idle \in Execution
    BY DEF Idle, Execution
  <2>7. /\ pc' \in [Job -> CallerPlace]
        /\ \A k \in Job : Fresh(k)' => state'[k] = "none"
    BY <1>1, <1>2 DEF PlacesInv, CallerPlace, Fresh
  <2> QED BY <1>1, <1>2, <2>2, <2>4, <2>5, <2>6, <2>7 DEF PlacesInv
<1>4. /\ pending' \subseteq Tx /\ IsFiniteSet(pending') /\ \A t \in pending' : ~t.watched
      /\ \A t \in pending' : \E u \in pending : t.job = u.job
      /\ \A k \in Job : Cardinality(Of(k, pending')) =< Cardinality(Of(k, pending))
  BY <1>1, ForgottenFacts DEF LedgerInv
<1>5. LedgerInv'
  <2>1. lost' \in [Job -> Nat]
    <3>1. lost \in [Job -> Nat]
      BY <1>1 DEF LedgerInv
    <3>2. lost' = lost \/ lost' = [lost EXCEPT ![j] = lost[j] + 1]
      BY <1>1
    <3> QED BY <1>1, <3>1, <3>2
  <2>2. cache' \in Nat /\ ledgerSeq' \in Nat /\ crashes' \in Nat /\ paid' \in [Job -> Nat]
    BY <1>1 DEF LedgerInv
  <2>3. \A t \in pending' : state'[t.job] # "none"
    BY <1>1, <1>2, <1>4 DEF LedgerInv, Tx
  <2> QED BY <1>4, <2>1, <2>2, <2>3 DEF LedgerInv
<1>6. PaymentsCounted'
  <2> SUFFICES ASSUME NEW k \in Job
               PROVE  paid[k] + Cardinality(Of(k, pending')) =< lost'[k] + Chance(k)'
    BY <1>1 DEF PaymentsCounted
  <2>1. /\ paid[k] \in Nat /\ lost[k] \in Nat
        /\ Cardinality(Of(k, pending)) \in Nat /\ Cardinality(Of(k, pending')) \in Nat
        /\ paid[k] + Cardinality(Of(k, pending)) =< lost[k] + Chance(k)
    BY <1>1, <1>4, FewerTxs DEF QueueInv, LedgerInv, PaymentsCounted
  <2>2. CASE k = j
    <3>1. /\ Chance(k) = IF worker.phase = "polling" THEN 1 ELSE 0
          /\ Chance(k)' \in {0, 1}
      BY <1>1, <2>2 DEF Chance, Ended, At, j
    <3>2. lost'[k] = IF worker.phase = "polling" THEN lost[k] + 1 ELSE lost[k]
      BY <1>1, <2>2 DEF LedgerInv
    <3> QED BY <1>4, <2>1, <3>1, <3>2
  <2>3. CASE k # j
    <3>1. Chance(k)' = Chance(k) /\ lost'[k] = lost[k] /\ Chance(k) \in {0, 1}
      <4>1. state'[k] = state[k] /\ worker.job # k /\ worker'.job = None
        BY <1>1, <1>2, <2>3 DEF Idle, j
      <4>2. k # None
        BY TxQueueConstants
      <4> QED BY <1>1, <2>3, <4>1, <4>2 DEF Chance, Ended, At, LedgerInv
    <3> QED BY <1>4, <2>1, <3>1
  <2> QED BY <2>2, <2>3
<1>7. OneInFlight'
  BY <1>1 DEF OneInFlight, LedgerInv
<1> QED BY <1>3, <1>5, <1>6, <1>7 DEF QueueInv

\* With an idle worker only the callers are lost.
LEMMA CrashInv ==
  ASSUME QueueInv, Crash
  PROVE  QueueInv'
<1>1. CASE worker # Idle
  BY <1>1, BusyCrashInv
<1>2. CASE worker = Idle
  <2>1. /\ PlacesInv /\ LedgerInv /\ worker' = worker /\ crashes' = crashes + 1
        /\ pending' = Forgotten(pending)
        /\ pc' = [k \in Job |->
                    IF pc[k] \in {"checked", "added", "waiting"} THEN "gone" ELSE pc[k]]
        /\ UNCHANGED <<state, queue, amount, made, cache, ledgerSeq, paid, lost>>
    BY <1>2 DEF QueueInv, Crash, WorkerDone, Idle
  <2>2. /\ pending' \subseteq Tx /\ IsFiniteSet(pending')
        /\ \A t \in pending' : ~t.watched /\ \E u \in pending : t.job = u.job
        /\ \A k \in Job : Cardinality(Of(k, pending')) =< Cardinality(Of(k, pending))
    BY <2>1, ForgottenFacts DEF LedgerInv
  <2>3. PlacesInv'
    BY <2>1 DEF PlacesInv, CallerPlace, Fresh
  <2>4. LedgerInv'
    BY <2>1, <2>2 DEF LedgerInv
  <2>5. PaymentsCounted'
    <3> SUFFICES ASSUME NEW k \in Job
                 PROVE  paid[k] + Cardinality(Of(k, pending')) =< lost[k] + Chance(k)'
      BY <2>1 DEF PaymentsCounted
    <3>1. /\ paid[k] \in Nat /\ lost[k] \in Nat /\ Chance(k) \in {0, 1}
          /\ Cardinality(Of(k, pending)) \in Nat /\ Cardinality(Of(k, pending')) \in Nat
          /\ paid[k] + Cardinality(Of(k, pending)) =< lost[k] + Chance(k)
      BY <2>1, <2>2, FewerTxs DEF QueueInv, LedgerInv, PaymentsCounted, Chance
    <3>2. Chance(k)' = Chance(k)
      BY <2>1 DEF Chance, Ended, At
    <3> QED BY <2>2, <3>1, <3>2
  <2>6. OneInFlight'
    BY <2>1 DEF OneInFlight, LedgerInv
  <2> QED BY <2>3, <2>4, <2>5, <2>6 DEF QueueInv
<1> QED BY <1>1, <1>2

-----------------------------------------------------------------------------

LEMMA QueueInitInv == Init => QueueInv
<1> SUFFICES ASSUME Init PROVE QueueInv
  OBVIOUS
<1>1. PlacesInv
  BY DEF Init, PlacesInv, Idle, Execution, CallerPlace, JobState
<1>2. LedgerInv
  BY FS_EmptySet DEF Init, LedgerInv
<1>3. PaymentsCounted
  <2>1. \A j \in Job : Of(j, pending) = {} /\ Chance(j) = 0 /\ paid[j] = 0 /\ lost[j] = 0
    BY DEF Init, Of, Chance, Ended, At, Idle
  <2> QED BY <2>1, FS_EmptySet DEF PaymentsCounted
<1>4. OneInFlight
  BY DEF Init, OneInFlight, InFlight, Idle
<1> QED BY <1>1, <1>2, <1>3, <1>4 DEF QueueInv

(* What every step of callers, worker and ledger preserves.                *)
THEOREM QueueInvariant == Spec => []QueueInv
<1>1. QueueInv /\ [Next]_vars => QueueInv'
  <2> SUFFICES ASSUME QueueInv, [Next]_vars PROVE QueueInv'
    OBVIOUS
  <2>1. ASSUME NEW j \in Job, Execute(j) PROVE QueueInv'
    BY <2>1, GetNextInv, PreparationFailsInv, FinishingInv, SendInv, SendUnansweredInv
       DEF Execute
  <2>2. ASSUME NEW j \in Job, NEW r \in Requests, CheckLimits(j, r) \/ CheckLimits(j, FromRoute(r))
        PROVE  QueueInv'
    <3>1. r.amount \in Nat /\ FromRoute(r).amount \in Nat
      BY TxQueueConstants DEF FromRoute
    <3> QED BY <2>2, <3>1, CheckInv
  <2> QED BY <2>1, <2>2, CallersInv, AddInv, PromoteInv, LedgerMovesInv, CrashInv
          DEF Next, LedgerMoves
<1> QED BY <1>1, QueueInitInv, PTL DEF Spec

(* A job pays more than once only if an execution of it sent a transaction *)
(* and never learned what became of it, however often it is retried, the   *)
(* process dies, and answers are lost.                                     *)
THEOREM PaidOncePerKnownOutcome == Spec => []PaidAgainOnlyWhenLost
<1>1. QueueInv => PaidAgainOnlyWhenLost
  <2> SUFFICES ASSUME QueueInv, NEW j \in Job PROVE paid[j] <= 1 + lost[j]
    BY DEF PaidAgainOnlyWhenLost
  <2>1. /\ paid[j] \in Nat /\ lost[j] \in Nat /\ Cardinality(Of(j, pending)) \in Nat
        /\ paid[j] + Cardinality(Of(j, pending)) =< lost[j] + Chance(j)
        /\ Chance(j) \in {0, 1}
    BY FewerTxs DEF QueueInv, LedgerInv, PaymentsCounted, Chance
  <2> QED BY <2>1
<1> QED BY <1>1, QueueInvariant, PTL

(* Of the transactions of a job that are pending at most one is applied,   *)
(* since all carry the same number: unless payments are in flight together *)
(* or the process died, however often each is retried.                     *)
THEOREM RetriesReplace == Spec => []RetryReplaces
<1>1. QueueInv => RetryReplaces
  BY DEF QueueInv, OneInFlight, RetryReplaces, LedgerInv
<1> QED BY <1>1, QueueInvariant, PTL

-----------------------------------------------------------------------------
(* The spending limits.                                                    *)

(* LimitsHoldOneByOne is not inductive.  The counters: the payment that is *)
(* in flight was checked before it was added, so there must be room for it *)
(* until it is counted, whatever is retried meanwhile and whenever a day   *)
(* ends.                                                                   *)
HasRoom(n) == Fits(spent, n)
Unfinished(j) == pc[j] = "checked" \/ state[j] \in {"waiting", "delayed", "active"}
LimitTypes ==
    /\ limitRows \in LimitTables
    /\ amount \in [Job -> Nat]
    /\ spent \in [daily : Nat, weekly : Nat, lifetime : Nat]
OnePayment == overlap \/ \A j, k \in Job : InFlight(j) /\ InFlight(k) => j = k
RoomKept ==
    \/ overlap \/ bypassed
    \/ /\ HasRoom(0)
       /\ \A j \in Job : Unfinished(j) => HasRoom(amount[j])
LimitInv == LimitTypes /\ OnePayment /\ RoomKept

\* What every step does but the addition of a job.
NoNewWork ==
    /\ \A k \in Job : InFlight(k)' => InFlight(k)
    /\ \A k \in Job : Unfinished(k)' => Unfinished(k) /\ amount'[k] = amount[k]
    /\ amount' \in [Job -> Nat]
    /\ UNCHANGED <<limitRows, overlap, checked, bypassed>>

\* Room is a matter of the rows, the counters and what was checked last.
LEMMA SameRoom ==
  ASSUME UNCHANGED <<limitVars, checked>>, NEW n, HasRoom(n)
  PROVE  HasRoom(n)'
  BY DEF HasRoom, Fits, FindConfig, limitVars

\* The rows that are looked up are rows of the table.
LEMMA FoundRows ==
  ASSUME NEW d
  PROVE  FindConfig(d) \subseteq limitRows
  BY DEF FindConfig

LEMMA NoNewWorkInv ==
  ASSUME LimitInv, NoNewWork, spent' = spent
  PROVE  LimitInv'
<1>1. \A n : HasRoom(n) => HasRoom(n)'
  BY SameRoom DEF NoNewWork, limitVars
<1>2. LimitTypes'
  BY DEF LimitInv, LimitTypes, NoNewWork
<1>3. OnePayment'
  BY DEF LimitInv, OnePayment, NoNewWork
<1>4. RoomKept'
  BY <1>1 DEF LimitInv, RoomKept, NoNewWork
<1> QED BY <1>2, <1>3, <1>4 DEF LimitInv

LEMMA KeptLess ==
  ASSUME NEW limit \in Int \cup {None}, NEW m \in Int, NEW k \in Int,
         k <= m, Kept(limit, m)
  PROVE  Kept(limit, k)
  BY DEF Kept, Within

\* At the end of a day or a week the counters only fall.
LEMMA PeriodEndsInv ==
  ASSUME LimitInv, PeriodEnds
  PROVE  LimitInv'
<1>1. /\ spent' = [spent EXCEPT !.daily = 0]
         \/ spent' = [spent EXCEPT !.daily = 0, !.weekly = 0]
      /\ limitRows' = limitRows
      /\ UNCHANGED <<callerVars, jobVars, worker, pending, observed>>
  BY DEF PeriodEnds, NextDay, NextWeek
<1>2. /\ spent \in [daily : Nat, weekly : Nat, lifetime : Nat]
      /\ limitRows \in LimitTables /\ amount \in [Job -> Nat]
  BY DEF LimitInv, LimitTypes
<1>3. /\ spent' \in [daily : Nat, weekly : Nat, lifetime : Nat]
      /\ spent'.daily <= spent.daily /\ spent'.weekly <= spent.weekly
      /\ spent'.lifetime <= spent.lifetime
  <2>1. CASE spent' = [spent EXCEPT !.daily = 0]
    BY <1>2, <2>1
  <2>2. CASE spent' = [spent EXCEPT !.daily = 0, !.weekly = 0]
    <3> DEFINE today == [spent EXCEPT !.daily = 0]
    <3>1. /\ today \in [daily : Nat, weekly : Nat, lifetime : Nat]
          /\ today.daily = 0 /\ today.weekly = spent.weekly
          /\ today.lifetime = spent.lifetime
      BY <1>2
    <3>2. spent' = [today EXCEPT !.weekly = 0]
      BY <2>2
    <3> HIDE DEF today
    <3> QED BY <1>2, <3>1, <3>2
  <2> QED BY <1>1, <2>1, <2>2
<1>4. ASSUME NEW n \in Nat, HasRoom(n) PROVE HasRoom(n)'
  <2>1. \/ FindConfig(checked) = {}
        \/ \E row \in FindConfig(checked) :
              /\ Kept(row.daily, spent.daily + n)
              /\ Kept(row.weekly, spent.weekly + n)
              /\ Kept(row.lifetime, spent.lifetime + n)
    BY <1>4 DEF HasRoom, Fits
  <2>2. FindConfig(checked)' = FindConfig(checked)
    BY <1>1 DEF FindConfig, observed
  <2>3. CASE FindConfig(checked) = {}
    BY <2>2, <2>3 DEF HasRoom, Fits
  <2>4. ASSUME NEW row \in FindConfig(checked),
               Kept(row.daily, spent.daily + n), Kept(row.weekly, spent.weekly + n),
               Kept(row.lifetime, spent.lifetime + n)
        PROVE  HasRoom(n)'
    <3>1. /\ row.daily \in Int \cup {None} /\ row.weekly \in Int \cup {None}
          /\ row.lifetime \in Int \cup {None}
      BY <1>2, FoundRows, LimitTablesAreOfNumbers
    <3>3. /\ spent.daily + n \in Nat /\ spent'.daily + n \in Nat
          /\ spent'.daily + n <= spent.daily + n
          /\ spent.weekly + n \in Nat /\ spent'.weekly + n \in Nat
          /\ spent'.weekly + n <= spent.weekly + n
          /\ spent.lifetime + n \in Nat /\ spent'.lifetime + n \in Nat
          /\ spent'.lifetime + n <= spent.lifetime + n
      BY <1>2, <1>3
    <3>4. /\ Kept(row.daily, spent'.daily + n) /\ Kept(row.weekly, spent'.weekly + n)
          /\ Kept(row.lifetime, spent'.lifetime + n)
      <4>1. \A k \in Nat : k \in Int
        OBVIOUS
      <4> QED BY <2>4, <3>1, <3>3, <4>1, KeptLess
    <3> QED BY <2>2, <3>4 DEF HasRoom, Fits
  <2> QED BY <2>1, <2>3, <2>4
<1>5. LimitTypes'
  BY <1>1, <1>2, <1>3 DEF LimitTypes, callerVars
<1>6. OnePayment'
  BY <1>1 DEF LimitInv, OnePayment, InFlight, callerVars, jobVars, observed
<1>7. RoomKept'
  <2>1. \A j \in Job : amount[j] \in Nat
    BY <1>2
  <2>2. UNCHANGED <<pc, state, amount, overlap, checked, bypassed>>
    BY <1>1 DEF jobVars, callerVars, observed
  <2>3. HasRoom(0) => HasRoom(0)'
    BY <1>4
  <2>4. \A j \in Job : HasRoom(amount[j]) => HasRoom(amount[j])'
    <3> TAKE j \in Job
    <3> DEFINE n == amount[j]
    <3>1. n' = n /\ n \in Nat
      BY <2>1, <2>2
    <3>2. checked' = checked /\ limitRows' = limitRows
      BY <1>1 DEF observed
    <3> QED BY <1>4, <3>1, <3>2, <2>2 DEF HasRoom, Fits, FindConfig
  <2> QED BY <2>2, <2>3, <2>4 DEF LimitInv, RoomKept, Unfinished
<1> QED BY <1>5, <1>6, <1>7 DEF LimitInv

\* A job that ends or waits for a retry is no new work, whatever becomes of the
\* transactions it has sent.
LEMMA EndsOrWaitsWork ==
  ASSUME LimitInv, PlacesInv, NEW j \in Job, InFlight(j), Unfinished(j), state[j] # "none",
         JobDelayed(j) \/ \E outcome \in {"completed", "failed"} : JobEnds(j, outcome),
         \A t \in pending' : t.job = j \/ \E u \in pending : t.job = u.job,
         UNCHANGED <<limitRows, overlap, checked, bypassed>>
  PROVE  NoNewWork
<1>1. /\ state \in [Job -> JobState] /\ amount \in [Job -> Nat]
      /\ pc \in [Job -> CallerPlace]
  BY DEF PlacesInv, LimitInv, LimitTypes
<1>2. CASE JobDelayed(j)
  <2>1. state' = [state EXCEPT ![j] = "delayed"] /\ amount' = amount /\ pc' = pc
    BY <1>2 DEF JobDelayed
  <2>2. \A k \in Job : Unfinished(k)' => Unfinished(k)
    BY <1>1, <2>1 DEF Unfinished
  <2>3. \A k \in Job : InFlight(k)' => InFlight(k)
    BY <1>1, <2>1 DEF InFlight
  <2> QED BY <1>1, <2>1, <2>2, <2>3 DEF NoNewWork
<1>3. ASSUME NEW outcome \in {"completed", "failed"}, JobEnds(j, outcome)
      PROVE  NoNewWork
  <2>1. /\ state' = [state EXCEPT ![j] = outcome] /\ amount' = [amount EXCEPT ![j] = 0]
        /\ pc' = [pc EXCEPT ![j] = IF pc[j] = "waiting" THEN "answered" ELSE pc[j]]
    BY <1>3 DEF JobEnds
  <2>0. pc[j] # "checked" /\ \A k \in Job : pc'[k] = "checked" => pc[k] = "checked" /\ k # j
    BY <1>1, <2>1 DEF PlacesInv, Fresh
  <2>2. \A k \in Job : Unfinished(k)' => Unfinished(k) /\ k # j
    BY <1>1, <2>0, <2>1 DEF Unfinished
  <2>3. amount' \in [Job -> Nat] /\ \A k \in Job : k # j => amount'[k] = amount[k]
    BY <1>1, <2>1
  <2>4. \A k \in Job : InFlight(k)' => InFlight(k)
    BY <1>1, <2>0, <2>1 DEF InFlight
  <2> QED BY <2>2, <2>3, <2>4 DEF NoNewWork
<1> QED BY <1>2, <1>3

LEMMA FailsWithCases ==
  ASSUME NEW j, NEW code, FailsWith(j, code)
  PROVE  JobDelayed(j) \/ \E outcome \in {"completed", "failed"} : JobEnds(j, outcome)
  BY DEF FailsWith

LEMMA ForgottenJobs ==
  ASSUME LedgerInv, WorkerDone
  PROVE  \A t \in pending' : \E u \in pending : t.job = u.job
  BY ForgottenFacts DEF LedgerInv, WorkerDone

\* A confirmed payment is counted, and there was room for it.
LEMMA SuccessNoNewWork ==
  ASSUME QueueInv, LimitInv, NEW j \in Job, PollSucceeds(j)
  PROVE  NoNewWork /\ state[j] = "active" /\ Unfinished(j) /\ InFlight(j)
<1>1. /\ PlacesInv /\ LedgerInv /\ worker.job = j /\ worker # Idle
      /\ JobEnds(j, "completed") /\ WorkerDone /\ RecordConfirmed(j)
      /\ overlap' = overlap /\ checked' = checked /\ bypassed' = bypassed
  BY DEF QueueInv, PollSucceeds, Completes, At, Idle
<1>2. state[j] = "active" /\ Unfinished(j) /\ InFlight(j)
  BY <1>1 DEF PlacesInv, Unfinished, InFlight
<1>3. limitRows' = limitRows
  BY <1>1 DEF RecordConfirmed, limitVars
<1> QED BY <1>1, <1>2, <1>3, EndsOrWaitsWork, ForgottenJobs

LEMMA RecordInv ==
  ASSUME QueueInv, LimitInv, NEW j \in Job, PollSucceeds(j)
  PROVE  LimitInv'
<1>1. /\ PlacesInv /\ LedgerInv /\ worker.job = j /\ worker # Idle
      /\ JobEnds(j, "completed") /\ WorkerDone /\ RecordConfirmed(j)
      /\ overlap' = overlap /\ checked' = checked /\ bypassed' = bypassed
  BY DEF QueueInv, PollSucceeds, Completes, At, Idle
<1>2. state[j] = "active" /\ Unfinished(j) /\ InFlight(j)
  BY SuccessNoNewWork
<1>3. limitRows' = limitRows
  BY <1>1 DEF RecordConfirmed, limitVars
<1>4. NoNewWork
  BY SuccessNoNewWork
<1>5. CASE spent' = spent
  BY <1>4, <1>5, NoNewWorkInv
<1>6. CASE amount[j] > 0 /\ RecordSpend(amount[j])
  <2> DEFINE n == amount[j]
  <2>1. /\ spent \in [daily : Nat, weekly : Nat, lifetime : Nat]
        /\ n \in Nat /\ amount' \in [Job -> Nat] /\ limitRows \in LimitTables
    BY <1>4 DEF LimitInv, LimitTypes, NoNewWork
  <2>2. /\ spent' \in [daily : Nat, weekly : Nat, lifetime : Nat]
        /\ spent'.daily = spent.daily + n /\ spent'.weekly = spent.weekly + n
        /\ spent'.lifetime = spent.lifetime + n
    BY <1>6, <2>1 DEF RecordSpend
  <2>3. LimitTypes'
    BY <1>3, <2>1, <2>2 DEF LimitTypes
  <2>4. OnePayment'
    BY <1>4 DEF LimitInv, OnePayment, NoNewWork
  <2>5. HasRoom(n) => HasRoom(0)'
    <3>1. FindConfig(checked)' = FindConfig(checked)
      BY <1>1, <1>3 DEF FindConfig
    <3>2. /\ spent'.daily + 0 = spent.daily + n
          /\ spent'.weekly + 0 = spent.weekly + n
          /\ spent'.lifetime + 0 = spent.lifetime + n
      BY <2>1, <2>2
    <3> QED BY <3>1, <3>2 DEF HasRoom, Fits
  <2>6. overlap \/ \A k \in Job : ~Unfinished(k)'
    <3>1. overlap \/ \A k \in Job : Unfinished(k) => k = j
      BY <1>2 DEF LimitInv, OnePayment, InFlight, Unfinished
    <3>2. ~Unfinished(j)'
      <4>1. pc[j] # "checked" /\ pc \in [Job -> CallerPlace] /\ state \in [Job -> JobState]
        BY <1>1, <1>2 DEF PlacesInv, Fresh
      <4>2. /\ pc'[j] = (IF pc[j] = "waiting" THEN "answered" ELSE pc[j])
            /\ state'[j] = "completed"
        BY <1>1, <4>1 DEF JobEnds
      <4> QED BY <4>1, <4>2 DEF Unfinished
    <3> QED BY <1>4, <3>1, <3>2 DEF NoNewWork
  <2>7. RoomKept'
    <3> SUFFICES ASSUME ~overlap, ~bypassed PROVE HasRoom(0)' /\ \A k \in Job : ~Unfinished(k)'
      BY <1>1, <1>6 DEF RoomKept
    <3>1. HasRoom(n)
      BY <1>2 DEF LimitInv, RoomKept
    <3> QED BY <2>5, <2>6, <3>1
  <2> QED BY <2>3, <2>4, <2>7 DEF LimitInv
<1> QED BY <1>1, <1>5, <1>6 DEF RecordConfirmed, limitVars

\* An accepted payment was checked, unless the check was skipped.
LEMMA CheckLimitInv ==
  ASSUME QueueInv, LimitInv, NEW j \in Job, NEW r,
         r.amount \in Nat, CheckLimits(j, r)
  PROVE  LimitInv'
<1>1. /\ pc \in [Job -> CallerPlace] /\ state[j] = "none"
      /\ amount \in [Job -> Nat] /\ limitRows \in LimitTables
      /\ spent \in [daily : Nat, weekly : Nat, lifetime : Nat]
  BY DEF QueueInv, PlacesInv, CheckLimits, LimitInv, LimitTypes, Fresh
<1>2. PICK allowed \in BOOLEAN :
         /\ Checked(j, r, allowed)
         /\ pc' = [pc EXCEPT ![j] = IF allowed THEN "checked" ELSE "refused"]
         /\ checked' = IF overlap' \/ bypassed' THEN None
                       ELSE IF allowed THEN r.delegation ELSE checked
  BY DEF CheckLimits
<1>3. /\ UNCHANGED <<limitVars, pending, state>>
      /\ overlap' = (overlap \/ \E k \in Job : InFlight(k))
  BY DEF CheckLimits, ledgerVars, jobVars
<1>4. /\ amount' \in [Job -> Nat]
      /\ pc'[j] = (IF allowed THEN "checked" ELSE "refused")
      /\ \A k \in Job : k # j => amount'[k] = amount[k] /\ pc'[k] = pc[k]
      /\ bypassed => bypassed'
  BY <1>1, <1>2 DEF Checked
<1>5. LimitTypes'
  BY <1>1, <1>3, <1>4 DEF LimitTypes, limitVars
<1>6. overlap' \/ \A k \in Job : InFlight(k)' => k = j
  BY <1>3, <1>4 DEF InFlight
<1>7. OnePayment'
  BY <1>6 DEF OnePayment
<1>8. ASSUME ~overlap', ~bypassed', ~allowed
      PROVE  HasRoom(0)' /\ \A k \in Job : ~Unfinished(k)'
  <2>1. checked' = checked
    BY <1>2, <1>8
  <2>2. HasRoom(0) => HasRoom(0)'
    BY <1>3, <2>1, SameRoom
  <2>3. HasRoom(0)
    BY <1>3, <1>4, <1>8 DEF LimitInv, RoomKept
  <2>4. \A k \in Job : ~Unfinished(k)'
    BY <1>1, <1>3, <1>4, <1>6, <1>8 DEF Unfinished, InFlight
  <2> QED BY <2>2, <2>3, <2>4
<1>9. ASSUME ~overlap', ~bypassed', allowed
      PROVE  HasRoom(0)' /\ \A k \in Job : Unfinished(k)' => HasRoom(amount[k])'
  <2> DEFINE n == r.amount
  <2>1. checked' = r.delegation /\ amount'[j] = n /\ \A k \in Job : Unfinished(k)' => k = j
    <3>1. \A k \in Job : Unfinished(k)' => k = j
      BY <1>6, <1>9 DEF Unfinished, InFlight
    <3> QED BY <1>1, <1>2, <1>9, <3>1 DEF Checked
  <2>2. TRUE \in CheckSpendLimit(r.delegation, n)
    BY <1>2, <1>9 DEF Checked
  <2>3. \/ FindConfig(r.delegation) = {}
        \/ \E row \in FindConfig(r.delegation) : Allowed(row, n)
    BY <2>2 DEF CheckSpendLimit
  <2>4. FindConfig(checked)' = FindConfig(r.delegation)
    BY <1>3, <2>1 DEF FindConfig, limitVars
  <2>5. ASSUME FindConfig(r.delegation) = {} PROVE HasRoom(0)' /\ HasRoom(n)'
    BY <2>4, <2>5 DEF HasRoom, Fits
  <2>6. ASSUME NEW row \in FindConfig(r.delegation), Allowed(row, n)
        PROVE  HasRoom(0)' /\ HasRoom(n)'
    <3>1. /\ row.daily \in Int \cup {None} /\ row.weekly \in Int \cup {None}
          /\ row.lifetime \in Int \cup {None}
      BY <1>1, FoundRows, LimitTablesAreOfNumbers
    <3>2. /\ Kept(row.daily, spent.daily + n) /\ Kept(row.weekly, spent.weekly + n)
          /\ Kept(row.lifetime, spent.lifetime + n)
      BY <2>6 DEF Allowed, Kept
    <3>3. /\ spent.daily + n \in Nat /\ spent.daily + 0 \in Nat
          /\ spent.weekly + n \in Nat /\ spent.weekly + 0 \in Nat
          /\ spent.lifetime + n \in Nat /\ spent.lifetime + 0 \in Nat
          /\ spent.daily + 0 <= spent.daily + n /\ spent.weekly + 0 <= spent.weekly + n
          /\ spent.lifetime + 0 <= spent.lifetime + n
      BY <1>1
    <3>4. /\ Kept(row.daily, spent.daily + 0) /\ Kept(row.weekly, spent.weekly + 0)
          /\ Kept(row.lifetime, spent.lifetime + 0)
      <4>1. \A k \in Nat : k \in Int
        OBVIOUS
      <4> QED BY <3>1, <3>2, <3>3, <4>1, KeptLess
    <3>5. spent' = spent
      BY <1>3 DEF limitVars
    <3> QED BY <2>4, <3>2, <3>4, <3>5 DEF HasRoom, Fits
  <2>7. HasRoom(0)' /\ HasRoom(n)'
    BY <2>3, <2>5, <2>6
  <2>8. HasRoom(amount[j])'
    BY <2>1, <2>7 DEF HasRoom, Fits
  <2> QED BY <2>1, <2>7, <2>8
<1>10. RoomKept'
  BY <1>8, <1>9 DEF RoomKept
<1> QED BY <1>5, <1>7, <1>10 DEF LimitInv

\* Every step but an addition, the end of a period and a success counts nothing
\* and brings no new work.
LEMMA OtherStepsNoNewWork ==
  ASSUME QueueInv, LimitInv,
         \/ \E j \in Job :
               \/ RefuseMemo(j) \/ AddJob(j) \/ Listen(j) \/ Promote(j)
               \/ GetNextSequenceNumber(j) \/ PreparationFails(j)
               \/ SimulationFails(j) \/ SendRejected(j) \/ Send(j) \/ SendUnanswered(j)
               \/ PollSeesFailure(j) \/ PollThrows(j) \/ PollTimesOut(j)
         \/ LedgerMoves \/ Crash \/ UNCHANGED vars
  PROVE  NoNewWork /\ spent' = spent
<1>1. /\ PlacesInv /\ LedgerInv /\ state \in [Job -> JobState] /\ amount \in [Job -> Nat]
      /\ pc \in [Job -> CallerPlace]
  BY DEF QueueInv, PlacesInv, LimitInv, LimitTypes
<1>a. ASSUME NEW j \in Job, worker.job = j, worker # Idle
      PROVE  state[j] = "active" /\ InFlight(j) /\ Unfinished(j)
  BY <1>1, <1>a DEF PlacesInv, InFlight, Unfinished
<1>b. ASSUME NEW j \in Job, Begin(j)
      PROVE  state[j] = "waiting" /\ InFlight(j) /\ Unfinished(j)
  <2>1. Len(queue) > 0 /\ Head(queue) = queue[1] /\ 1 \in 1..Len(queue)
    BY <1>1, <1>b DEF Begin, PlacesInv
  <2> QED BY <1>1, <1>b, <2>1 DEF Begin, PlacesInv, InFlight, Unfinished
<1>2. ASSUME \/ \E j \in Job : RefuseMemo(j) \/ Listen(j)
             \/ UNCHANGED vars
      PROVE  NoNewWork /\ spent' = spent
  <2>1. /\ UNCHANGED <<limitRows, spent, amount, state, pending, overlap, checked, bypassed>>
        /\ \/ UNCHANGED pc
           \/ \E j \in Job, place \in {"refused", "waiting"} : pc' = [pc EXCEPT ![j] = place]
    BY <1>2 DEF RefuseMemo, Listen, vars, limitVars, callerVars, jobVars, ledgerVars, observed
  <2>2. \A k \in Job : pc'[k] = "checked" => pc[k] = "checked"
    BY <1>1, <2>1
  <2> QED BY <1>1, <2>1, <2>2 DEF NoNewWork, InFlight, Unfinished
<1>c. ASSUME NEW j \in Job, AddJob(j)
      PROVE  NoNewWork /\ spent' = spent
  <2>1. /\ UNCHANGED <<limitRows, spent, amount, pending, overlap, checked, bypassed>>
        /\ pc[j] = "checked"
        /\ \E place \in {"added", "refused"} : pc' = [pc EXCEPT ![j] = place]
        /\ state' = state \/ state' = [state EXCEPT ![j] = "waiting"]
    BY <1>c DEF AddJob, limitVars, ledgerVars, observed
  <2>2. \A k \in Job : /\ pc'[k] = "checked" => pc[k] = "checked"
                       /\ k # j => state'[k] = state[k]
    BY <1>1, <2>1
  <2>3. InFlight(j) /\ Unfinished(j)
    BY <2>1 DEF InFlight, Unfinished
  <2>4. \A k \in Job : Unfinished(k)' => Unfinished(k)
    BY <2>2, <2>3 DEF Unfinished
  <2>5. \A k \in Job : InFlight(k)' => InFlight(k)
    BY <2>1, <2>2, <2>3 DEF InFlight
  <2> QED BY <1>1, <2>1, <2>4, <2>5 DEF NoNewWork
<1>3. ASSUME NEW j \in Job, Promote(j) \/ GetNextSequenceNumber(j)
      PROVE  NoNewWork /\ spent' = spent
  <2>1. /\ UNCHANGED <<limitRows, spent, amount, pc, pending, overlap, checked, bypassed>>
        /\ \/ state' = [state EXCEPT ![j] = "waiting"]
           \/ state' = [state EXCEPT ![j] = "active"]
        /\ state[j] \in {"waiting", "delayed"}
    BY <1>3, <1>b DEF Promote, GetNextSequenceNumber, Begin, limitVars, callerVars,
                      ledgerVars, observed
  <2> QED BY <1>1, <2>1 DEF NoNewWork, InFlight, Unfinished
<1>4. ASSUME NEW j \in Job, PreparationFails(j)
      PROVE  NoNewWork /\ spent' = spent
  <2>1. /\ UNCHANGED <<limitRows, spent, pending, overlap, checked, bypassed>>
        /\ FailsWith(j, "UNCLASSIFIED") /\ state[j] = "waiting"
    BY <1>4, <1>b DEF PreparationFails, Begin, limitVars
  <2> QED BY <1>1, <1>4, <1>b, <2>1, FailsWithCases, EndsOrWaitsWork DEF PreparationFails
<1>5. ASSUME NEW j \in Job,
             \/ SimulationFails(j) \/ SendRejected(j)
             \/ PollSeesFailure(j) \/ PollThrows(j) \/ PollTimesOut(j)
      PROVE  NoNewWork /\ spent' = spent
  <2>1. worker.job = j /\ worker.phase # "idle"
    BY <1>5 DEF SimulationFails, SendRejected, PollSeesFailure, PollThrows, PollTimesOut, At
  <2>2. Idle.phase = "idle"
    BY DEF Idle
  <2>3. WorkerDone /\ (JobEnds(j, "completed") \/ \E code : FailsWith(j, code))
    BY <1>5 DEF SimulationFails, SendRejected, PollSeesFailure, PollThrows, PollTimesOut,
                Fails, Completes
  <2>4. UNCHANGED <<limitRows, spent, overlap, checked, bypassed>>
    BY <1>5 DEF SimulationFails, SendRejected, PollSeesFailure, PollThrows, PollTimesOut,
                limitVars, observed
  <2>5. state[j] = "active" /\ InFlight(j) /\ Unfinished(j)
    BY <1>a, <2>1, <2>2
  <2> QED BY <1>1, <2>3, <2>4, <2>5, FailsWithCases, EndsOrWaitsWork, ForgottenJobs
<1>6. ASSUME NEW j \in Job, Send(j)
      PROVE  NoNewWork /\ spent' = spent
  <2>1. /\ worker.job = j /\ worker # Idle
        /\ UNCHANGED <<limitRows, spent, amount, pc, state, overlap, checked, bypassed>>
        /\ \A t \in pending' : t \in pending \/ t.job = j
    BY <1>6 DEF Send, Sent, At, Idle, limitVars, callerVars, jobVars, observed
  <2> QED BY <1>1, <1>a, <2>1 DEF NoNewWork, InFlight, Unfinished
<1>7. ASSUME NEW j \in Job, SendUnanswered(j)
      PROVE  NoNewWork /\ spent' = spent
  <2>1. /\ worker.job = j /\ worker # Idle
        /\ UNCHANGED <<limitRows, spent, overlap, checked, bypassed>>
        /\ \E code : FailsWith(j, code)
        /\ \A t \in pending' : t \in pending \/ t.job = j
    BY <1>7 DEF SendUnanswered, Sent, At, Idle, limitVars
  <2>2. state[j] = "active" /\ InFlight(j) /\ Unfinished(j)
    BY <1>a, <2>1
  <2> QED BY <1>1, <2>1, <2>2, FailsWithCases, EndsOrWaitsWork
<1>8. CASE LedgerMoves
  <2>1. /\ UNCHANGED <<limitRows, spent, amount, pc, state, overlap, checked, bypassed>>
        /\ pending' \subseteq pending
    BY <1>8 DEF LedgerMoves, LedgerApplies, TxExpires, limitVars, callerVars, jobVars, observed
  <2> QED BY <1>1, <2>1 DEF NoNewWork, InFlight, Unfinished
<1>9. CASE Crash
  <2>1. /\ WorkerDone
        /\ UNCHANGED <<limitRows, spent, amount, overlap, checked, bypassed>>
        /\ pc' = [j \in Job |->
                    IF pc[j] \in {"checked", "added", "waiting"} THEN "gone" ELSE pc[j]]
    BY <1>9 DEF Crash, limitVars
  <2>2. \A k \in Job : pc'[k] # "checked"
    BY <1>1, <2>1
  <2>3. \A t \in pending' : \E u \in pending : t.job = u.job
    BY <1>1, <2>1, ForgottenJobs
  <2>4. \A k \in Job : state'[k] \in {"waiting", "delayed", "active"} =>
                         state[k] \in {"waiting", "delayed", "active"}
    <3>1. CASE worker = Idle
      BY <1>9, <3>1 DEF Crash
    <3>2. CASE worker # Idle
      BY <1>1, <1>9, <3>2 DEF Crash, PlacesInv
    <3> QED BY <3>1, <3>2
  <2>5. \A k \in Job : InFlight(k)' => InFlight(k)
    BY <2>2, <2>3, <2>4 DEF InFlight
  <2>6. \A k \in Job : Unfinished(k)' => Unfinished(k)
    BY <2>2, <2>4 DEF Unfinished
  <2> QED BY <1>1, <2>1, <2>5, <2>6 DEF NoNewWork
<1> QED BY <1>2, <1>3, <1>4, <1>5, <1>6, <1>7, <1>8, <1>9, <1>c

THEOREM LimitInvariant == Spec => []LimitInv
<1>1. Init => LimitInv
  <2> SUFFICES ASSUME Init PROVE LimitInv
    OBVIOUS
  <2>1. LimitTypes
    BY DEF Init, LimitsInit, NothingSpent, LimitTypes
  <2>2. \A j \in Job : ~InFlight(j) /\ ~Unfinished(j)
    BY DEF Init, InFlight, Unfinished
  <2>3. HasRoom(0)
    <3>1. /\ spent.daily + 0 = 0 /\ spent.weekly + 0 = 0 /\ spent.lifetime + 0 = 0
      BY DEF Init, LimitsInit, NothingSpent
    <3> QED BY <3>1 DEF HasRoom, Fits, Kept
  <2> QED BY <2>1, <2>2, <2>3 DEF LimitInv, OnePayment, RoomKept
<1>2. QueueInv /\ LimitInv /\ [Next]_vars => LimitInv'
  <2> SUFFICES ASSUME QueueInv, LimitInv, [Next]_vars PROVE LimitInv'
    OBVIOUS
  <2>1. ASSUME NEW j \in Job, NEW r \in Requests,
               CheckLimits(j, r) \/ CheckLimits(j, FromRoute(r))
        PROVE  LimitInv'
    <3>1. r.amount \in Nat /\ FromRoute(r).amount = 0
      BY TxQueueConstants DEF FromRoute
    <3> QED BY <2>1, <3>1, CheckLimitInv
  <2>2. CASE PeriodEnds
    BY <2>2, PeriodEndsInv
  <2>3. ASSUME NEW j \in Job, PollSucceeds(j) PROVE LimitInv'
    BY <2>3, RecordInv
  <2> QED BY <2>1, <2>2, <2>3, OtherStepsNoNewWork, NoNewWorkInv DEF Next, Execute
<1> QED BY <1>1, <1>2, QueueInvariant, PTL DEF Spec

-----------------------------------------------------------------------------
(* What the ledger applied against what was counted.  One after the other, all that is in
   flight is one payment of amount due: each of its pending transactions is owed by the
   execution that polls or is uncounted already, and so is what was applied and not
   counted.                                                                            *)

Periods == {"daily", "weekly", "lifetime"}
Polls(seen) == worker.phase = "polling" /\ worker.sees \in seen
Expected(due) == IF Polls({"nothing", "ok"}) THEN due ELSE 0
Owed(due) == IF Polls({"nothing"}) THEN due ELSE 0
Balanced(due) ==
    /\ \A t \in pending : t.amount = due
    /\ \A j \in Job : Unfinished(j) => amount[j] = due
    /\ due * Cardinality(pending) <= uncounted + Owed(due)
    /\ \A p \in Periods :
        applied[p] + due * Cardinality(pending) <= spent[p] + uncounted + Expected(due)
BalanceInv ==
    /\ applied \in [daily : Nat, weekly : Nat, lifetime : Nat] /\ uncounted \in Nat
    /\ worker.phase = "ready" => worker.sees = "nothing"
    /\ overlap \/ \E due \in Nat : Balanced(due)

LEMMA Times ==
  ASSUME NEW due \in Nat, NEW m \in Nat, NEW n \in Nat
  PROVE  /\ due * m \in Nat
         /\ m <= n => due * m <= due * n
         /\ m <= n + 1 => due * m <= due * n + due
         /\ m + 1 <= n => due * m + due <= due * n
<1>1. ASSUME NEW a \in Nat, NEW b \in Nat, a <= b PROVE due * a <= due * b
  <2>1. b - a \in Nat /\ due * b = due * a + due * (b - a)
    BY <1>1
  <2>2. due * a \in Nat /\ due * (b - a) \in Nat /\ due * b \in Nat
    BY <2>1
  <2> QED BY <2>1, <2>2
<1>2. due * m \in Nat /\ due * n \in Nat
  OBVIOUS
<1>3. due * (n + 1) = due * n + due /\ due * (m + 1) = due * m + due
  OBVIOUS
<1> QED BY <1>1, <1>2, <1>3

LEMMA SumsOfPeriods ==
  ASSUME NEW sums \in [daily : Nat, weekly : Nat, lifetime : Nat]
  PROVE  DOMAIN sums = Periods /\ \A p \in Periods : sums[p] \in Nat
  BY DEF Periods

\* A step that applies paidNow, counts countedNow and leaves missedNow uncounted keeps the
\* balance, if what is pending and what is expected make up for it.
LEMMA BalanceStep ==
  ASSUME LimitTypes, BalanceInv, NoNewWork, IsFiniteSet(pending), IsFiniteSet(pending'),
         NEW due \in Nat, Balanced(due),
         NEW paidNow \in Nat, NEW countedNow \in Nat, NEW missedNow \in Nat,
         \A p \in Periods : /\ applied'[p] = applied[p] + paidNow
                            /\ spent'[p] = spent[p] + countedNow,
         uncounted' = uncounted + missedNow,
         \A t \in pending' : t.amount = due,
         due * Cardinality(pending') + paidNow + Expected(due)
            <= due * Cardinality(pending) + countedNow + missedNow + Expected(due)',
         due * Cardinality(pending') + Owed(due)
            <= due * Cardinality(pending) + missedNow + Owed(due)'
  PROVE  Balanced(due)'
<1> DEFINE m == due * Cardinality(pending)
           n == due * Cardinality(pending')
<1>1. m \in Nat /\ n \in Nat
  BY Times, FS_CardinalityType
<1>2. uncounted \in Nat /\ \A p \in Periods : applied[p] \in Nat /\ spent[p] \in Nat
  BY SumsOfPeriods DEF BalanceInv, LimitTypes
<1>3. /\ Expected(due) \in Nat /\ Owed(due) \in Nat
      /\ Expected(due)' \in Nat /\ Owed(due)' \in Nat
  BY DEF Expected, Owed
<1>4. /\ m <= uncounted + Owed(due)
      /\ \A p \in Periods : applied[p] + m <= spent[p] + uncounted + Expected(due)
  BY DEF Balanced
<1>5. /\ n + paidNow + Expected(due) <= m + countedNow + missedNow + Expected(due)'
      /\ n + Owed(due) <= m + missedNow + Owed(due)'
  OBVIOUS
<1> HIDE DEF m, n
<1>6. n <= uncounted' + Owed(due)'
  BY <1>1, <1>2, <1>3, <1>4, <1>5
<1>7. ASSUME NEW p \in Periods
      PROVE  applied'[p] + n <= spent'[p] + uncounted' + Expected(due)'
  BY <1>1, <1>2, <1>3, <1>4, <1>5
<1>8. \A j \in Job : Unfinished(j)' => amount'[j] = due
  BY DEF NoNewWork, Balanced
<1> USE DEF n
<1> QED BY <1>6, <1>7, <1>8 DEF Balanced

\* The steps that neither pay nor count nor miss anything.
LEMMA QuietBalance ==
  ASSUME LimitTypes, BalanceInv, NoNewWork, IsFiniteSet(pending), IsFiniteSet(pending'),
         NEW due \in Nat, Balanced(due),
         UNCHANGED <<applied, spent, uncounted>>,
         \A t \in pending' : \E u \in pending : t.amount = u.amount,
         Cardinality(pending') <= Cardinality(pending),
         worker' = worker \/ ~Polls({"nothing", "ok"})
  PROVE  Balanced(due)'
<1>1. /\ due * Cardinality(pending') <= due * Cardinality(pending)
      /\ due * Cardinality(pending') \in Nat /\ due * Cardinality(pending) \in Nat
  BY Times, FS_CardinalityType
<1>2. \A t \in pending' : t.amount = due
  BY DEF Balanced
<1>3. /\ Expected(due) <= Expected(due)' /\ Owed(due) <= Owed(due)'
      /\ Expected(due) \in Nat /\ Owed(due) \in Nat
      /\ Expected(due)' \in Nat /\ Owed(due)' \in Nat
  BY DEF Expected, Owed, Polls
<1>4. \A p \in Periods : applied[p] \in Nat /\ spent[p] \in Nat
  BY SumsOfPeriods DEF BalanceInv, LimitTypes
<1>5. uncounted \in Nat
  BY DEF BalanceInv
<1>6. /\ due * Cardinality(pending') + 0 + Expected(due)
            <= due * Cardinality(pending) + 0 + 0 + Expected(due)'
      /\ due * Cardinality(pending') + Owed(due)
            <= due * Cardinality(pending) + 0 + Owed(due)'
  BY <1>1, <1>3
<1>7. /\ \A p \in Periods : applied'[p] = applied[p] + 0 /\ spent'[p] = spent[p] + 0
      /\ uncounted' = uncounted + 0
  BY <1>4, <1>5
<1> QED BY <1>2, <1>6, <1>7, BalanceStep

\* The executions that end without knowing: of those that poll what they wait for is
\* missed, of those that send what they send.
LEMMA MissedBalance ==
  ASSUME LimitTypes, BalanceInv, NoNewWork, IsFiniteSet(pending), IsFiniteSet(pending'),
         NEW due \in Nat, Balanced(due),
         UNCHANGED <<applied, spent>>, uncounted' = uncounted + due,
         \A t \in pending' : t.amount = due,
         \/ Cardinality(pending') <= Cardinality(pending)
         \/ worker.phase = "ready" /\ Cardinality(pending') <= Cardinality(pending) + 1
  PROVE  Balanced(due)'
<1>1. /\ due * Cardinality(pending') \in Nat /\ due * Cardinality(pending) \in Nat
      /\ \/ due * Cardinality(pending') <= due * Cardinality(pending)
         \/ /\ worker.phase = "ready"
            /\ due * Cardinality(pending') <= due * Cardinality(pending) + due
  BY Times, FS_CardinalityType
<1>2. /\ Expected(due) <= due /\ Owed(due) <= due
      /\ worker.phase = "ready" => Expected(due) = 0 /\ Owed(due) = 0
      /\ Expected(due) \in Nat /\ Owed(due) \in Nat
      /\ Expected(due)' \in Nat /\ Owed(due)' \in Nat
  BY DEF Expected, Owed, Polls
<1>3. \A p \in Periods : applied[p] \in Nat /\ spent[p] \in Nat
  BY SumsOfPeriods DEF BalanceInv, LimitTypes
<1>4. /\ due * Cardinality(pending') + 0 + Expected(due)
            <= due * Cardinality(pending) + 0 + due + Expected(due)'
      /\ due * Cardinality(pending') + Owed(due)
            <= due * Cardinality(pending) + due + Owed(due)'
  BY <1>1, <1>2
<1>5. \A p \in Periods : applied'[p] = applied[p] + 0 /\ spent'[p] = spent[p] + 0
  BY <1>3
<1> QED BY <1>4, <1>5, BalanceStep

\* Between the check of a payment and its end nothing else is in flight, so all is of its
\* amount.
LEMMA WorkersDue ==
  ASSUME PlacesInv, NEW due, Balanced(due), NEW j \in Job, worker.job = j, worker # Idle
  PROVE  amount[j] = due
  BY DEF PlacesInv, Balanced, Unfinished

LEMMA PendingAfterwards ==
  ASSUME LedgerInv, WorkerDone
  PROVE  /\ IsFiniteSet(pending) /\ IsFiniteSet(pending')
         /\ \A t \in pending' : \E u \in pending : t.amount = u.amount
         /\ Cardinality(pending') <= Cardinality(pending)
  BY ForgottenFacts DEF LedgerInv, WorkerDone

LEMMA PendingOnceSent ==
  ASSUME LedgerInv, NEW j \in Job, NEW watched \in BOOLEAN
  PROVE  /\ IsFiniteSet(Sent(j, watched))
         /\ \A t \in Sent(j, watched) : t \in pending \/ t.amount = amount[j]
         /\ Cardinality(Sent(j, watched)) <= Cardinality(pending) + 1
<1> DEFINE tx == [job |-> j, seq |-> worker.seq, amount |-> amount[j], watched |-> watched]
<1>1. tx.amount = amount[j] /\ Sent(j, watched) = pending \cup {tx} /\ IsFiniteSet(pending)
  BY DEF Sent, LedgerInv
<1> HIDE DEF tx
<1>2. Cardinality(pending) \in Nat
  BY <1>1, FS_CardinalityType
<1>3. /\ IsFiniteSet(pending \cup {tx})
      /\ Cardinality(pending \cup {tx}) =
            IF tx \in pending THEN Cardinality(pending) ELSE Cardinality(pending) + 1
  BY <1>1, FS_AddElement
<1> QED BY <1>1, <1>2, <1>3

\* Steps of the callers, of the back-off and of an execution that has not sent anything.
LEMMA QuietSteps ==
  ASSUME QueueInv, LimitInv, BalanceInv, NEW due \in Nat, Balanced(due),
         \/ \E j \in Job :
               \/ RefuseMemo(j) \/ AddJob(j) \/ Listen(j) \/ Promote(j)
               \/ GetNextSequenceNumber(j) \/ PreparationFails(j)
               \/ SimulationFails(j) \/ SendRejected(j) \/ PollSeesFailure(j)
         \/ \E t \in pending : TxExpires(t)
         \/ UNCHANGED vars
         \/ Crash /\ worker.phase # "polling"
  PROVE  Balanced(due)'
<1>1. LedgerInv /\ LimitTypes /\ IsFiniteSet(pending) /\ Cardinality(pending) \in Nat
  BY FS_CardinalityType DEF QueueInv, LimitInv, LedgerInv
<1>2. NoNewWork /\ spent' = spent
  BY OtherStepsNoNewWork DEF LedgerMoves
<1>3. UNCHANGED <<applied, uncounted>>
  BY DEF RefuseMemo, AddJob, Listen, Promote, GetNextSequenceNumber, PreparationFails, Begin,
         SimulationFails, SendRejected, PollSeesFailure, TxExpires, Crash, vars, ledgerVars,
         observed
<1>4. CASE UNCHANGED <<pending, worker>>
  BY <1>1, <1>2, <1>3, <1>4, QuietBalance
<1>5. ASSUME NEW j \in Job,
             RefuseMemo(j) \/ AddJob(j) \/ Listen(j) \/ Promote(j) \/ PreparationFails(j)
      PROVE  UNCHANGED <<pending, worker>>
  BY <1>5 DEF RefuseMemo, AddJob, Listen, Promote, PreparationFails, ledgerVars
<1>6. CASE worker.phase # "polling" /\ pending' = pending
  BY <1>1, <1>2, <1>3, <1>6, QuietBalance DEF Polls
<1>7. CASE WorkerDone /\ ~Polls({"nothing", "ok"})
  BY <1>1, <1>2, <1>3, <1>7, QuietBalance, PendingAfterwards
<1>8. ASSUME NEW j \in Job, GetNextSequenceNumber(j)
      PROVE  worker.phase # "polling" /\ pending' = pending
  BY <1>8 DEF GetNextSequenceNumber, Begin, Idle
<1>9. ASSUME NEW j \in Job, SimulationFails(j) \/ SendRejected(j) \/ PollSeesFailure(j)
      PROVE  WorkerDone /\ ~Polls({"nothing", "ok"})
  BY <1>9 DEF SimulationFails, SendRejected, PollSeesFailure, Fails, At, Polls
<1>10. ASSUME NEW t \in pending, TxExpires(t) PROVE Balanced(due)'
  <2>1. /\ pending' \subseteq pending /\ worker' = worker
        /\ IsFiniteSet(pending') /\ Cardinality(pending') <= Cardinality(pending)
    BY <1>1, <1>10, FS_Subset DEF TxExpires
  <2> QED BY <1>1, <1>2, <1>3, <2>1, QuietBalance
<1>11. CASE Crash /\ worker.phase # "polling"
  BY <1>7, <1>11 DEF Crash, Polls
<1>12. CASE UNCHANGED vars
  BY <1>4, <1>12 DEF vars, ledgerVars
<1> QED BY <1>4, <1>5, <1>6, <1>7, <1>8, <1>9, <1>10, <1>11, <1>12

\* An execution that loses what it sent, or does not count it.
LEMMA MissedSteps ==
  ASSUME QueueInv, LimitInv, BalanceInv, NEW due \in Nat, Balanced(due),
         \/ \E j \in Job : SendUnanswered(j) \/ PollThrows(j) \/ PollTimesOut(j)
         \/ Crash /\ worker.phase = "polling"
  PROVE  Balanced(due)'
<1>1. /\ PlacesInv /\ LedgerInv /\ LimitTypes /\ IsFiniteSet(pending)
      /\ \A t \in pending : t.amount = due
  BY DEF QueueInv, LimitInv, LedgerInv, Balanced
<1>2. NoNewWork /\ spent' = spent
  BY OtherStepsNoNewWork
<1>3. ASSUME NEW j \in Job, worker.job = j, worker.phase # "idle"
      PROVE  amount[j] = due
  BY <1>1, <1>3, WorkersDue DEF Idle
<1>4. ASSUME NEW j \in Job, PollThrows(j) \/ PollTimesOut(j)
      PROVE  Balanced(due)'
  <2>1. worker.job = j /\ worker.phase # "idle" /\ WorkerDone /\ applied' = applied
    BY <1>4 DEF PollThrows, PollTimesOut, Fails, Completes, At
  <2>2. uncounted' = uncounted + due
    BY <1>3, <1>4, <2>1 DEF PollThrows, PollTimesOut, OutcomeLost, NotCounted
  <2>3. \A t \in pending' : t.amount = due
    BY <1>1, <2>1, PendingAfterwards
  <2> QED BY <1>1, <1>2, <2>1, <2>2, <2>3, PendingAfterwards, MissedBalance
<1>5. ASSUME NEW j \in Job, SendUnanswered(j)
      PROVE  Balanced(due)'
  <2>1. /\ worker.job = j /\ worker.phase = "ready" /\ applied' = applied
        /\ pending' = Sent(j, FALSE)
    BY <1>5 DEF SendUnanswered, At
  <2>2. amount[j] = due /\ uncounted' = uncounted + due
    BY <1>3, <1>5, <2>1 DEF SendUnanswered, OutcomeLost, NotCounted
  <2>3. /\ IsFiniteSet(pending') /\ Cardinality(pending') <= Cardinality(pending) + 1
        /\ \A t \in pending' : t.amount = due
    BY <1>1, <2>1, <2>2, PendingOnceSent
  <2> QED BY <1>1, <1>2, <2>1, <2>2, <2>3, MissedBalance
<1>6. CASE Crash /\ worker.phase = "polling"
  <2>1. worker.job \in Job /\ worker # Idle
    BY <1>1, <1>6 DEF PlacesInv, Idle
  <2>2. WorkerDone /\ applied' = applied /\ uncounted' = uncounted + due
    BY <1>3, <1>6, <2>1 DEF Crash, OutcomeLost, NotCounted
  <2>3. \A t \in pending' : t.amount = due
    BY <1>1, <2>2, PendingAfterwards
  <2> QED BY <1>1, <1>2, <2>2, <2>3, PendingAfterwards, MissedBalance
<1> QED BY <1>4, <1>5, <1>6

LEMMA SendBalance ==
  ASSUME QueueInv, LimitInv, BalanceInv, NEW due \in Nat, Balanced(due),
         NEW j \in Job, Send(j)
  PROVE  Balanced(due)'
<1>1. /\ PlacesInv /\ LedgerInv /\ LimitTypes /\ IsFiniteSet(pending)
      /\ \A t \in pending : t.amount = due
  BY DEF QueueInv, LimitInv, LedgerInv, Balanced
<1>2. NoNewWork /\ spent' = spent
  BY OtherStepsNoNewWork
<1>3. /\ worker.job = j /\ worker.phase = "ready" /\ worker.sees = "nothing"
      /\ worker' = [worker EXCEPT !.phase = "polling"] /\ worker \in Execution
      /\ UNCHANGED <<applied, uncounted>>
      /\ pending' = pending \/ pending' = Sent(j, TRUE)
  BY <1>1 DEF Send, At, BalanceInv, PlacesInv, observed
<1>4. amount[j] = due
  BY <1>1, <1>3, WorkersDue DEF Idle
<1>5. /\ IsFiniteSet(pending') /\ Cardinality(pending') <= Cardinality(pending) + 1
      /\ \A t \in pending' : t.amount = due
  <2>1. CASE pending' = pending
    BY <1>1, <2>1, FS_CardinalityType
  <2>2. CASE pending' = Sent(j, TRUE)
    BY <1>1, <1>4, <2>2, PendingOnceSent
  <2> QED BY <1>3, <2>1, <2>2
<1>6. /\ due * Cardinality(pending') <= due * Cardinality(pending) + due
      /\ due * Cardinality(pending') \in Nat /\ due * Cardinality(pending) \in Nat
  BY <1>1, <1>5, Times, FS_CardinalityType
<1>7. /\ Expected(due) = 0 /\ Owed(due) = 0
      /\ Expected(due)' = due /\ Owed(due)' = due
  BY <1>3 DEF Expected, Owed, Polls, Execution
<1>8. /\ \A p \in Periods : applied'[p] = applied[p] + 0 /\ spent'[p] = spent[p] + 0
      /\ uncounted' = uncounted + 0
  BY <1>1, <1>2, <1>3, SumsOfPeriods DEF BalanceInv, LimitTypes
<1>9. /\ due * Cardinality(pending') + 0 + Expected(due)
            <= due * Cardinality(pending) + 0 + 0 + Expected(due)'
      /\ due * Cardinality(pending') + Owed(due)
            <= due * Cardinality(pending) + 0 + Owed(due)'
  BY <1>6, <1>7
<1> QED BY <1>1, <1>2, <1>5, <1>8, <1>9, BalanceStep

\* A payment leaves what is pending; if it fails its execution expects nothing any more.
LEMMA AppliedBalance ==
  ASSUME QueueInv, LimitInv, BalanceInv, NEW due \in Nat, Balanced(due),
         NEW t \in pending, LedgerApplies(t)
  PROVE  Balanced(due)'
<1>1. /\ PlacesInv /\ LedgerInv /\ LimitTypes /\ IsFiniteSet(pending) /\ worker \in Execution
      /\ \A u \in pending : u.amount = due
      /\ t.seq \in Nat
  BY DEF QueueInv, PlacesInv, LimitInv, LedgerInv, Balanced, Tx
<1>2. NoNewWork /\ spent' = spent
  BY OtherStepsNoNewWork DEF LedgerMoves
<1>3. PICK ok \in BOOLEAN :
        /\ IF ok THEN applied' = [p \in DOMAIN applied |-> applied[p] + t.amount]
           ELSE applied' = applied
        /\ worker' = IF t.watched
                     THEN [worker EXCEPT !.sees = IF ok THEN "ok" ELSE "failed"]
                     ELSE worker
  BY DEF LedgerApplies
<1>4. /\ uncounted' = uncounted /\ t \notin pending' /\ pending' \subseteq pending
  BY <1>1 DEF LedgerApplies, observed
<1>5. IsFiniteSet(pending') /\ Cardinality(pending') + 1 <= Cardinality(pending)
  <2>1. pending' \subseteq pending \ {t}
    BY <1>4
  <2>2. /\ IsFiniteSet(pending \ {t})
        /\ Cardinality(pending \ {t}) = Cardinality(pending) - 1
    BY <1>1, FS_RemoveElement
  <2>3. IsFiniteSet(pending') /\ Cardinality(pending') <= Cardinality(pending \ {t})
    BY <2>1, <2>2, FS_Subset
  <2>4. Cardinality(pending) \in Nat /\ Cardinality(pending') \in Nat
    BY <1>1, <2>3, FS_CardinalityType
  <2> QED BY <2>2, <2>3, <2>4
<1>6. /\ due * Cardinality(pending') + due <= due * Cardinality(pending)
      /\ due * Cardinality(pending') \in Nat /\ due * Cardinality(pending) \in Nat
  BY <1>1, <1>5, Times, FS_CardinalityType
<1>7. /\ Expected(due) <= due /\ Owed(due) <= due
      /\ ok => Expected(due) <= Expected(due)'
      /\ Expected(due) \in Nat /\ Owed(due) \in Nat
      /\ Expected(due)' \in Nat /\ Owed(due)' \in Nat
  <2>1. worker'.phase = worker.phase /\ (ok => worker'.sees = worker.sees \/ worker'.sees = "ok")
    BY <1>1, <1>3 DEF Execution
  <2> QED BY <2>1 DEF Expected, Owed, Polls
<1>8. DOMAIN applied = Periods /\ \A p \in Periods : applied[p] \in Nat /\ spent[p] \in Nat
  BY <1>1, SumsOfPeriods DEF BalanceInv, LimitTypes
<1>9. \A u \in pending' : u.amount = due
  BY <1>1, <1>4
<1>10. uncounted' = uncounted + 0
  BY <1>4 DEF BalanceInv
<1>11. CASE ok
  <2>1. \A p \in Periods : applied'[p] = applied[p] + due /\ spent'[p] = spent[p] + 0
    BY <1>1, <1>2, <1>3, <1>8, <1>11
  <2>2. /\ due * Cardinality(pending') + due + Expected(due)
              <= due * Cardinality(pending) + 0 + 0 + Expected(due)'
        /\ due * Cardinality(pending') + Owed(due)
              <= due * Cardinality(pending) + 0 + Owed(due)'
    BY <1>6, <1>7, <1>11
  <2> QED BY <1>1, <1>2, <1>5, <1>9, <1>10, <2>1, <2>2, BalanceStep
<1>12. CASE ~ok
  <2>1. \A p \in Periods : applied'[p] = applied[p] + 0 /\ spent'[p] = spent[p] + 0
    BY <1>2, <1>3, <1>8, <1>12
  <2>2. /\ due * Cardinality(pending') + 0 + Expected(due)
              <= due * Cardinality(pending) + 0 + 0 + Expected(due)'
        /\ due * Cardinality(pending') + Owed(due)
              <= due * Cardinality(pending) + 0 + Owed(due)'
    BY <1>6, <1>7
  <2> QED BY <1>1, <1>2, <1>5, <1>9, <1>10, <2>1, <2>2, BalanceStep
<1> QED BY <1>11, <1>12

\* What was expected is counted now, or is missed.
LEMMA SuccessBalance ==
  ASSUME QueueInv, LimitInv, BalanceInv, NEW due \in Nat, Balanced(due),
         NEW j \in Job, PollSucceeds(j)
  PROVE  Balanced(due)'
<1>1. /\ PlacesInv /\ LedgerInv /\ LimitTypes /\ IsFiniteSet(pending)
      /\ \A t \in pending : t.amount = due
  BY DEF QueueInv, LimitInv, LedgerInv, Balanced
<1>2. NoNewWork
  BY SuccessNoNewWork
<1>3. /\ worker.job = j /\ worker.phase = "polling" /\ worker.sees = "ok"
      /\ WorkerDone /\ applied' = applied /\ RecordConfirmed(j)
  BY DEF PollSucceeds, Completes, At
<1>4. amount[j] = due
  BY <1>1, <1>3, WorkersDue DEF Idle
<1>5. /\ IsFiniteSet(pending') /\ Cardinality(pending') <= Cardinality(pending)
      /\ \A t \in pending' : t.amount = due
  BY <1>1, <1>3, PendingAfterwards
<1>6. /\ DOMAIN spent = Periods /\ uncounted \in Nat
      /\ \A p \in Periods : applied[p] \in Nat /\ spent[p] \in Nat
  BY <1>1, SumsOfPeriods DEF BalanceInv, LimitTypes
<1>7. CASE spent' = spent /\ uncounted' = uncounted + due
  BY <1>1, <1>2, <1>3, <1>5, <1>7, MissedBalance
<1>8. CASE RecordSpend(due) /\ uncounted' = uncounted
  <2>1. /\ \A p \in Periods : applied'[p] = applied[p] + 0 /\ spent'[p] = spent[p] + due
        /\ uncounted' = uncounted + 0
    BY <1>3, <1>6, <1>8 DEF RecordSpend
  <2>2. /\ due * Cardinality(pending') <= due * Cardinality(pending)
        /\ due * Cardinality(pending') \in Nat /\ due * Cardinality(pending) \in Nat
    BY <1>1, <1>5, Times, FS_CardinalityType
  <2>3. /\ Expected(due) = due /\ Owed(due) = 0
        /\ Expected(due)' \in Nat /\ Owed(due)' \in Nat
    BY <1>3 DEF Expected, Owed, Polls
  <2>4. /\ due * Cardinality(pending') + 0 + Expected(due)
              <= due * Cardinality(pending) + due + 0 + Expected(due)'
        /\ due * Cardinality(pending') + Owed(due)
              <= due * Cardinality(pending) + 0 + Owed(due)'
    BY <2>2, <2>3
  <2> QED BY <1>1, <1>2, <1>5, <2>1, <2>4, BalanceStep
<1>9. CASE ~(amount[j] > 0) /\ UNCHANGED <<limitVars, uncounted>>
  BY <1>4, <1>6, <1>7, <1>9 DEF limitVars
<1> QED BY <1>3, <1>4, <1>7, <1>8, <1>9 DEF RecordConfirmed, NotCounted, limitVars

\* A period that ends takes what was applied with what was counted.
LEMMA PeriodBalance ==
  ASSUME QueueInv, LimitInv, BalanceInv, PeriodEnds
  PROVE  BalanceInv'
<1>1. /\ applied \in [daily : Nat, weekly : Nat, lifetime : Nat] /\ uncounted \in Nat
      /\ spent \in [daily : Nat, weekly : Nat, lifetime : Nat]
      /\ IsFiniteSet(pending)
  BY DEF BalanceInv, LimitInv, LimitTypes, QueueInv, LedgerInv
<1>2. UNCHANGED <<pc, state, amount, worker, pending, uncounted, overlap>>
  BY DEF PeriodEnds, callerVars, jobVars, observed
<1>3. /\ applied' \in [daily : Nat, weekly : Nat, lifetime : Nat]
      /\ \A p \in Periods : \/ applied'[p] = applied[p] /\ spent'[p] = spent[p]
                            \/ applied'[p] = 0 /\ spent'[p] = 0
  <2>1. CASE NextDay /\ applied' = [applied EXCEPT !.daily = 0]
    BY <1>1, <2>1 DEF NextDay, Periods
  <2>2. CASE NextWeek /\ applied' = [applied EXCEPT !.daily = 0, !.weekly = 0]
    <3>1. applied' \in [daily : Nat, weekly : Nat, lifetime : Nat]
      BY <1>1, <2>2
    <3>2. /\ applied'.daily = 0 /\ applied'.weekly = 0 /\ applied'.lifetime = applied.lifetime
          /\ spent'.daily = 0 /\ spent'.weekly = 0 /\ spent'.lifetime = spent.lifetime
      BY <1>1, <2>2 DEF NextWeek
    <3> QED BY <3>1, <3>2 DEF Periods
  <2> QED BY <2>1, <2>2 DEF PeriodEnds
<1>4. ASSUME NEW due \in Nat, Balanced(due) PROVE Balanced(due)'
  <2>1. /\ Expected(due) \in Nat /\ Owed(due) <= Expected(due) /\ Owed(due) \in Nat
        /\ due * Cardinality(pending) \in Nat
    BY <1>1, Times, FS_CardinalityType DEF Expected, Owed, Polls
  <2>2. /\ Expected(due)' = Expected(due) /\ Owed(due)' = Owed(due)
        /\ \A j \in Job : Unfinished(j)' = Unfinished(j)
    BY <1>2 DEF Expected, Owed, Polls, Unfinished
  <2>3. \A p \in Periods :
          applied'[p] + due * Cardinality(pending) <= spent'[p] + uncounted + Expected(due)
    BY <1>1, <1>3, <1>4, <2>1 DEF Balanced
  <2> QED BY <1>2, <1>4, <2>2, <2>3 DEF Balanced
<1> QED BY <1>1, <1>2, <1>3, <1>4 DEF BalanceInv

\* A payment that is checked is the only one in flight, or payments overlap.
LEMMA CheckBalance ==
  ASSUME QueueInv, LimitInv, BalanceInv, NEW j \in Job, NEW r,
         r.amount \in Nat, CheckLimits(j, r)
  PROVE  BalanceInv'
<1>1. /\ PlacesInv /\ LedgerInv
      /\ UNCHANGED <<spent, applied, uncounted, pending, worker, state>>
      /\ overlap' = (overlap \/ \E k \in Job : InFlight(k))
      /\ \E place \in {"checked", "refused"} : pc' = [pc EXCEPT ![j] = place]
      /\ \E n \in Nat : amount' = [amount EXCEPT ![j] = n]
  BY DEF QueueInv, CheckLimits, Checked, limitVars, ledgerVars, jobVars
<1>2. ASSUME ~overlap' PROVE \E due \in Nat : Balanced(due)'
  <2>0. PICK due \in Nat : amount' = [amount EXCEPT ![j] = due]
    BY <1>1
  <2>1. \A k \in Job : ~InFlight(k)
    BY <1>1, <1>2
  <2>2. pending = {} /\ Cardinality(pending) = 0
    BY <1>1, <2>1, FS_EmptySet DEF InFlight, LedgerInv, Tx
  <2>3. worker = Idle
    BY <1>1, <2>1 DEF InFlight, PlacesInv
  <2>4. amount'[j] = due /\ \A k \in Job : Unfinished(k)' => k = j
    <3>1. pc \in [Job -> CallerPlace] /\ amount \in [Job -> Nat]
      BY <1>1 DEF PlacesInv
    <3>2. \A k \in Job : k # j => pc'[k] = pc[k] /\ ~Unfinished(k)
      BY <1>1, <2>1, <3>1 DEF InFlight, Unfinished
    <3>3. state[j] = "none"
      BY <1>1 DEF CheckLimits, PlacesInv, Fresh
    <3> QED BY <1>1, <2>0, <3>1, <3>2, <3>3 DEF Unfinished
  <2>5. PICK old \in Nat : Balanced(old)
    BY <1>1, <1>2 DEF BalanceInv
  <2>6. /\ \A p \in Periods : applied[p] <= spent[p] + uncounted
        /\ \A p \in Periods : applied[p] \in Nat /\ spent[p] \in Nat
        /\ uncounted \in Nat
    <3>1. Expected(old) = 0 /\ old * Cardinality(pending) = 0
      BY <2>2, <2>3 DEF Expected, Polls, Idle
    <3>2. /\ \A p \in Periods : applied[p] \in Nat /\ spent[p] \in Nat
          /\ uncounted \in Nat
      BY SumsOfPeriods DEF BalanceInv, LimitInv, LimitTypes
    <3> QED BY <2>5, <3>1, <3>2 DEF Balanced
  <2>7. /\ Expected(due)' = 0 /\ Owed(due)' = 0 /\ due * Cardinality(pending') = 0
        /\ pending' = {}
    BY <1>1, <2>2, <2>3, <2>4 DEF Expected, Owed, Polls, Idle
  <2>8. \A k \in Job : Unfinished(k)' => amount'[k] = due
    BY <2>4
  <2>9. /\ due * Cardinality(pending') <= uncounted' + Owed(due)'
        /\ \A p \in Periods :
              applied'[p] + due * Cardinality(pending') <= spent'[p] + uncounted' + Expected(due)'
    BY <1>1, <2>6, <2>7
  <2>10. \A t \in pending' : t.amount = due
    BY <2>7
  <2>11. Balanced(due)'
    BY <2>8, <2>9, <2>10 DEF Balanced
  <2> QED BY <2>11
<1> QED BY <1>1, <1>2 DEF BalanceInv

\* The other steps leave what is typed, and an execution that has sent nothing sees
\* nothing.
LEMMA BalanceTypes ==
  ASSUME QueueInv, LimitInv, BalanceInv,
         LedgerMoves \/ Crash \/ UNCHANGED vars \/ \E j \in Job :
             RefuseMemo(j) \/ AddJob(j) \/ Listen(j) \/ Promote(j) \/ Execute(j)
  PROVE  /\ applied' \in [daily : Nat, weekly : Nat, lifetime : Nat] /\ uncounted' \in Nat
         /\ worker'.phase = "ready" => worker'.sees = "nothing"
<1>1. /\ applied \in [daily : Nat, weekly : Nat, lifetime : Nat] /\ uncounted \in Nat
      /\ worker.phase = "ready" => worker.sees = "nothing"
      /\ PlacesInv /\ LedgerInv /\ amount \in [Job -> Nat] /\ worker \in Execution
  BY DEF BalanceInv, QueueInv, LimitInv, LimitTypes, PlacesInv
<1>2. CASE LedgerMoves
  <2>1. uncounted' = uncounted
    BY <1>2 DEF LedgerMoves, LedgerApplies, TxExpires, observed
  <2>2. PICK t \in pending : LedgerApplies(t) \/ TxExpires(t)
    BY <1>2 DEF LedgerMoves
  <2>3. t.amount \in Nat
    BY <1>1 DEF LedgerInv, Tx
  <2>4. applied' = applied \/ applied' = [p \in DOMAIN applied |-> applied[p] + t.amount]
    BY <2>2 DEF LedgerApplies, TxExpires
  <2>5. applied' \in [daily : Nat, weekly : Nat, lifetime : Nat]
    BY <1>1, <2>3, <2>4
  <2>6. worker' = worker \/ (t.watched /\ worker'.phase = worker.phase)
    BY <1>1, <2>2 DEF LedgerApplies, TxExpires, Execution
  <2> QED BY <1>1, <2>1, <2>5, <2>6 DEF LedgerInv
<1>3. ASSUME Crash \/ UNCHANGED vars \/ \E j \in Job :
                 RefuseMemo(j) \/ AddJob(j) \/ Listen(j) \/ Promote(j) \/ Execute(j)
      PROVE  applied' = applied /\ (worker'.phase = "ready" => worker'.sees = "nothing")
  <2>1. /\ Idle.phase = "idle"
        /\ [worker EXCEPT !.phase = "polling"].phase = "polling"
    BY <1>1 DEF Idle, Execution
  <2>2. CASE Crash \/ UNCHANGED vars
    BY <1>1, <2>1, <2>2 DEF Crash, WorkerDone, vars, ledgerVars
  <2>3. ASSUME NEW j \in Job, RefuseMemo(j) \/ AddJob(j) \/ Listen(j) \/ Promote(j)
        PROVE  applied' = applied /\ worker' = worker
    BY <2>3 DEF RefuseMemo, AddJob, Listen, Promote, ledgerVars
  <2>4. ASSUME NEW j \in Job, Execute(j)
        PROVE  applied' = applied /\ (worker'.phase = "ready" => worker'.sees = "nothing")
    <3>1. applied' = applied
      BY <2>4 DEF Execute, GetNextSequenceNumber, PreparationFails, Begin, SimulationFails,
         SendRejected, Send, SendUnanswered, PollSucceeds, PollSeesFailure, PollThrows,
         PollTimesOut
    <3>2. CASE GetNextSequenceNumber(j)
      <4>1. \E n : worker' = [job |-> j, phase |-> "ready", seq |-> n, sees |-> "nothing"]
        BY <3>2 DEF GetNextSequenceNumber
      <4> QED BY <3>1, <4>1
    <3>3. CASE PreparationFails(j)
      BY <1>1, <3>1, <3>3 DEF PreparationFails
    <3>4. CASE Send(j)
      BY <2>1, <3>1, <3>4 DEF Send
    <3>5. CASE ~(GetNextSequenceNumber(j) \/ PreparationFails(j) \/ Send(j))
      <4>1. worker' = Idle
        BY <2>4, <3>5 DEF Execute, SimulationFails, SendRejected, SendUnanswered,
           PollSucceeds, PollSeesFailure, PollThrows, PollTimesOut, Fails, Completes,
           WorkerDone
      <4> QED BY <2>1, <3>1, <4>1
    <3> QED BY <3>2, <3>3, <3>4, <3>5
  <2> QED BY <1>1, <1>3, <2>2, <2>3, <2>4
<1>4. ASSUME Crash \/ UNCHANGED vars \/ \E j \in Job :
                 RefuseMemo(j) \/ AddJob(j) \/ Listen(j) \/ Promote(j) \/ Execute(j)
      PROVE  uncounted' = uncounted \/ \E j \in Job : uncounted' = uncounted + amount[j]
  <2>1. CASE Crash
    <3>1. worker.phase = "polling" => worker.job \in Job
      BY <1>1 DEF PlacesInv, Idle
    <3> QED BY <2>1, <3>1 DEF Crash, OutcomeLost, NotCounted
  <2>2. CASE UNCHANGED vars
    BY <2>2 DEF vars, observed
  <2>3. ASSUME NEW j \in Job, RefuseMemo(j) \/ AddJob(j) \/ Listen(j) \/ Promote(j)
        PROVE  uncounted' = uncounted
    BY <2>3 DEF RefuseMemo, AddJob, Listen, Promote, observed
  <2>4. ASSUME NEW j \in Job, Execute(j)
        PROVE  uncounted' = uncounted \/ uncounted' = uncounted + amount[j]
    BY <2>4 DEF Execute, GetNextSequenceNumber, PreparationFails, Begin,
       SimulationFails, SendRejected, Send, SendUnanswered, PollSucceeds, PollSeesFailure,
       PollThrows, PollTimesOut, RecordConfirmed, OutcomeLost, NotCounted, observed
  <2> QED BY <1>4, <2>1, <2>2, <2>3, <2>4
<1> QED BY <1>1, <1>2, <1>3, <1>4

THEOREM BalanceInvariant == Spec => []BalanceInv
<1>1. Init => BalanceInv
  <2> SUFFICES ASSUME Init PROVE BalanceInv
    OBVIOUS
  <2>1. /\ applied = NothingSpent /\ spent = NothingSpent /\ uncounted = 0 /\ pending = {}
        /\ worker = Idle /\ \A j \in Job : ~Unfinished(j)
    BY DEF Init, LimitsInit, Unfinished
  <2>2. Cardinality(pending) = 0 /\ Expected(0) = 0 /\ Owed(0) = 0
    BY <2>1, FS_EmptySet DEF Expected, Owed
  <2>3. \A p \in Periods : NothingSpent[p] = 0
    BY DEF NothingSpent, Periods
  <2>4. Balanced(0)
    BY <2>1, <2>2, <2>3 DEF Balanced
  <2> QED BY <2>1, <2>4 DEF BalanceInv, NothingSpent, Idle
<1>2. QueueInv /\ LimitInv /\ BalanceInv /\ [Next]_vars => BalanceInv'
  <2> SUFFICES ASSUME QueueInv, LimitInv, BalanceInv, [Next]_vars PROVE BalanceInv'
    OBVIOUS
  <2>1. ASSUME NEW j \in Job, NEW r \in Requests,
               CheckLimits(j, r) \/ CheckLimits(j, FromRoute(r))
        PROVE  BalanceInv'
    <3>1. r.amount \in Nat /\ FromRoute(r).amount \in Nat
      BY TxQueueConstants DEF FromRoute
    <3> QED BY <2>1, <3>1, CheckBalance
  <2>2. CASE PeriodEnds
    BY <2>2, PeriodBalance
  <2>3. ASSUME LedgerMoves \/ Crash \/ UNCHANGED vars \/ \E j \in Job :
                   RefuseMemo(j) \/ AddJob(j) \/ Listen(j) \/ Promote(j) \/ Execute(j)
        PROVE  BalanceInv'
    <3>1. overlap' = overlap
      <4>1. CASE \E j \in Job : PollSucceeds(j)
        BY <4>1, SuccessNoNewWork DEF NoNewWork
      <4>2. CASE ~\E j \in Job : PollSucceeds(j)
        BY <2>3, <4>2, OtherStepsNoNewWork DEF NoNewWork, Execute
      <4> QED BY <4>1, <4>2
    <3>2. ASSUME NEW due \in Nat, Balanced(due) PROVE Balanced(due)'
      BY <2>3, <3>2, QuietSteps, MissedSteps, SendBalance, AppliedBalance, SuccessBalance
         DEF LedgerMoves, Execute
    <3> QED BY <2>3, <3>1, <3>2, BalanceTypes DEF BalanceInv
  <2> QED BY <2>1, <2>2, <2>3 DEF Next
<1> QED BY <1>1, <1>2, QueueInvariant, LimitInvariant, PTL DEF Spec

(* Payments made one after the other exceed the limits of the row that the *)
(* last of them was checked with by no more than what was sent and not     *)
(* counted, for any rows of limits, any amounts and any retries, lost      *)
(* answers and crashes.                                                    *)
THEOREM LimitsAlwaysHold == Spec => []LimitsHoldOneByOne
<1>1. QueueInv /\ LimitInv /\ BalanceInv => LimitsHoldOneByOne
  <2> SUFFICES ASSUME QueueInv, LimitInv, BalanceInv, ~overlap, ~bypassed
               PROVE  Fits(applied, 0 - uncounted)
    BY DEF LimitsHoldOneByOne
  <2>1. PICK due \in Nat : Balanced(due)
    BY DEF BalanceInv
  <2> DEFINE expected == Expected(due)
  <2>2. expected \in {0, due} /\ HasRoom(expected)
    <3>1. CASE Polls({"nothing", "ok"})
      <4>1. worker.job \in Job /\ Unfinished(worker.job)
        BY <3>1 DEF Polls, QueueInv, PlacesInv, Idle, Unfinished
      <4>2. amount[worker.job] = due /\ HasRoom(amount[worker.job])
        BY <2>1, <4>1 DEF Balanced, LimitInv, RoomKept
      <4> QED BY <3>1, <4>2 DEF Expected
    <3>2. CASE ~Polls({"nothing", "ok"})
      BY <3>2 DEF Expected, LimitInv, RoomKept
    <3> QED BY <3>1, <3>2
  <2>3. /\ uncounted \in Nat /\ expected \in Nat
        /\ \A p \in Periods : applied[p] \in Nat /\ spent[p] \in Nat
    BY <2>2, SumsOfPeriods DEF BalanceInv, LimitInv, LimitTypes
  <2>4. \A p \in Periods : applied[p] + (0 - uncounted) <= spent[p] + expected
    <3>1. due * Cardinality(pending) \in Nat
      BY Times, FS_CardinalityType DEF QueueInv, LedgerInv
    <3> QED BY <2>1, <2>3, <3>1 DEF Balanced
  <2> HIDE DEF expected
  <2>5. ASSUME NEW row \in FindConfig(checked),
               Kept(row.daily, spent.daily + expected),
               Kept(row.weekly, spent.weekly + expected),
               Kept(row.lifetime, spent.lifetime + expected)
        PROVE  Fits(applied, 0 - uncounted)
    <3>1. /\ row.daily \in Int \cup {None} /\ row.weekly \in Int \cup {None}
          /\ row.lifetime \in Int \cup {None}
      BY FoundRows, LimitTablesAreOfNumbers DEF LimitInv, LimitTypes
    <3>2. /\ applied.daily + (0 - uncounted) <= spent.daily + expected
          /\ applied.weekly + (0 - uncounted) <= spent.weekly + expected
          /\ applied.lifetime + (0 - uncounted) <= spent.lifetime + expected
      BY <2>4 DEF Periods
    <3>3. /\ applied.daily + (0 - uncounted) \in Int /\ spent.daily + expected \in Int
          /\ applied.weekly + (0 - uncounted) \in Int /\ spent.weekly + expected \in Int
          /\ applied.lifetime + (0 - uncounted) \in Int /\ spent.lifetime + expected \in Int
      BY <2>3 DEF Periods
    <3>4. /\ Kept(row.daily, applied.daily + (0 - uncounted))
          /\ Kept(row.weekly, applied.weekly + (0 - uncounted))
          /\ Kept(row.lifetime, applied.lifetime + (0 - uncounted))
      BY <2>5, <3>1, <3>2, <3>3, KeptLess
    <3> QED BY <3>4 DEF Fits
  <2> QED BY <2>2, <2>5 DEF HasRoom, Fits
<1> QED BY <1>1, QueueInvariant, LimitInvariant, BalanceInvariant, PTL
================================================================================
