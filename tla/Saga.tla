--------------------------------- MODULE Saga ---------------------------------
(***************************************************************************)
(* The saga coordinator of the orchestrator                                *)
(* (apps/backend/orchestrator/src/saga): several runners, each a run() or  *)
(* resume() call in some process, drive one saga through a durable store.  *)
(* Sagas do not interact, so one saga is enough.                           *)
(*                                                                         *)
(* A step of this specification is what the code does between two awaits   *)
(* that matter: a read of the store, a conditional save, or the action or  *)
(* compensation of a saga step, which happens in another service.  A       *)
(* runner may stop before any save: its process crashes, or the store      *)
(* throws something other than SagaConcurrencyError.                       *)
(*                                                                         *)
(* Steps are numbered in the order of stepOrder.  A claim is identified by *)
(* the version its save produced, and claims expire in that order, because *)
(* every lease lasts claimLeaseMs.                                         *)
(***************************************************************************)
EXTENDS Integers, Sequences, SequencesExt, FiniteSets

CONSTANTS
    Runner,
    StepCount,      \* the number of saga steps
    MaxStops,       \* bound: crashes and store errors
    MaxSlow,        \* bound: leases that expire under a runner at work
    MaxFailures,    \* bound: compensations that fail
    None

ASSUME SagaConstants ==
    /\ StepCount \in Nat \ {0}
    /\ MaxStops \in Nat /\ MaxSlow \in Nat /\ MaxFailures \in Nat

VARIABLES
    record,         \* the row of saga_executions, None before run()
    pc,             \* what each runner does next
    cur,            \* each runner's copy of the record ("current")
    expiredUpTo,    \* external: claims up to this one have expired
    acted,          \* external: how often each step's action took effect
    undone,         \* external: how often each step's compensation did
    budget          \* how much of the bounds is left

effects == <<acted, undone>>
vars == <<record, pc, cur, expiredUpTo, acted, undone, budget>>

Step == 1..StepCount
SagaStatus == {"running", "compensating", "completed", "failed"}
Terminal == {"completed", "failed"}
Working == {"acting", "acted", "actionFailed", "undoing", "undone", "undoFailed"}
PC == {"idle", "advance", "compensate"} \cup Working

\* lease 0 is a null claimExpiresAt, currentStep 0 a null currentStep.
SagaRecord ==
    [status : SagaStatus, completedSteps : Seq(Step), currentStep : 0..StepCount,
     version : Nat, lease : Nat]

ASSUME NoneIsNoRecord == None \notin SagaRecord

TypeOK ==
    /\ record \in SagaRecord \cup {None}
    /\ pc \in [Runner -> PC]
    /\ cur \in [Runner -> SagaRecord \cup {None}]
    /\ expiredUpTo \in Nat
    /\ acted \in [Step -> Nat] /\ undone \in [Step -> Nat]
    /\ budget \in [stops : 0..MaxStops, slow : 0..MaxSlow, failures : 0..MaxFailures]

Init ==
    /\ record = None
    /\ pc = [r \in Runner |-> "idle"]
    /\ cur = [r \in Runner |-> None]
    /\ expiredUpTo = 0
    /\ acted = [s \in Step |-> 0] /\ undone = [s \in Step |-> 0]
    /\ budget = [stops |-> MaxStops, slow |-> MaxSlow, failures |-> MaxFailures]

Started == record # None
Live(lease) == lease > expiredUpTo

-----------------------------------------------------------------------------
(* The store.                                                              *)

\* Runner r goes on at next with the copy its save returned.
Continue(r, stored, next) ==
    /\ cur' = [cur EXCEPT ![r] = stored]
    /\ pc' = [pc EXCEPT ![r] = next]

GiveUp(r) ==
    /\ pc' = [pc EXCEPT ![r] = "idle"]
    /\ UNCHANGED <<record, cur, expiredUpTo, acted, undone, budget>>

\* Faulty variant: a blind upsert.
SaveBlind(r, new, next) ==
    LET stored == [new EXCEPT !.version = @ + 1]
    IN  /\ record' = stored
        /\ Continue(r, stored, next)
        /\ UNCHANGED <<expiredUpTo, acted, undone, budget>>

\* save() of new, r's copy with changes: it succeeds if the stored version is
\* still the one r read, and r goes on.  Otherwise it is a
\* SagaConcurrencyError, and r returns or throws, wherever it was.
Outrun(r) == record.version # cur[r].version
SaveOrGiveUp(r, new, next) ==
    LET stored == [new EXCEPT !.version = @ + 1]
    IN  \/ /\ Outrun(r)
           /\ GiveUp(r)
        \/ /\ ~Outrun(r)
           /\ record' = stored
           /\ Continue(r, stored, next)
           /\ UNCHANGED <<expiredUpTo, acted, undone, budget>>

-----------------------------------------------------------------------------
(* run() and resume().                                                     *)

InitialRecord ==
    [status |-> "running", completedSteps |-> <<>>, currentStep |-> 1,
     version |-> 0, lease |-> 0]

\* advance() a record that was read, unless it is terminal.
Take(r, rec) ==
    /\ cur' = [cur EXCEPT ![r] = rec]
    /\ pc' = [pc EXCEPT ![r] = CASE rec.status = "running"      -> "advance"
                                 [] rec.status = "compensating" -> "compensate"
                                 [] OTHER                       -> "idle"]

\* createIfNotExists, then as resume().
Run(r) ==
    /\ pc[r] = "idle" /\ ~Started
    /\ record' = InitialRecord
    /\ Take(r, InitialRecord)
    /\ UNCHANGED <<expiredUpTo, acted, undone, budget>>

\* run() of a saga that exists, resume(), recoverAll() and its retries.
Resume(r) ==
    /\ pc[r] = "idle" /\ Started
    /\ record.status \notin Terminal
    /\ Take(r, record)
    /\ UNCHANGED <<record, expiredUpTo, acted, undone, budget>>

-----------------------------------------------------------------------------
(* claimStep().                                                            *)

ClaimOf(r, s) ==
    [cur[r] EXCEPT !.currentStep = s, !.lease = cur[r].version + 1]

\* Faulty variant: the lease of a claim is not looked at.
ClaimIgnoringLease(r, s, next) == SaveOrGiveUp(r, ClaimOf(r, s), next)

\* Faulty variant: an expired lease blocks as a live one does.
ClaimUnlessEverClaimed(r, s, next) ==
    IF cur[r].currentStep = s /\ cur[r].lease # 0
    THEN GiveUp(r)
    ELSE SaveOrGiveUp(r, ClaimOf(r, s), next)

\* Back off from a live lease or a lost race, else claim step s.
ClaimStep(r, s, next) ==
    IF cur[r].currentStep = s /\ Live(cur[r].lease)
    THEN GiveUp(r)
    ELSE SaveOrGiveUp(r, ClaimOf(r, s), next)

-----------------------------------------------------------------------------
(* advance().                                                              *)

Remaining(rec) == Step \ ToSet(rec.completedSteps)
NextStep(rec) == CHOOSE s \in Remaining(rec) : \A t \in Remaining(rec) : s <= t

ClaimNext(r) ==
    /\ pc[r] = "advance" /\ Remaining(cur[r]) # {}
    /\ ClaimStep(r, NextStep(cur[r]), "acting")

\* The action of the claimed step, in another service.  An action that throws
\* may have taken effect all the same: its answer was lost or not understood.
ActionSucceeds(r) ==
    /\ pc[r] = "acting"
    /\ acted' = [acted EXCEPT ![cur[r].currentStep] = @ + 1]
    /\ pc' = [pc EXCEPT ![r] = "acted"]
    /\ UNCHANGED <<record, cur, expiredUpTo, undone, budget>>

ActionFails(r) ==
    /\ pc[r] = "acting"
    /\ \E effect \in {0, 1} :
           acted' = [acted EXCEPT ![cur[r].currentStep] = @ + effect]
    /\ pc' = [pc EXCEPT ![r] = "actionFailed"]
    /\ UNCHANGED <<record, cur, expiredUpTo, undone, budget>>

\* Faulty variant: names the following step, which may not exist.
RecordActionNamingNext(r) ==
    /\ pc[r] = "acted"
    /\ SaveOrGiveUp(r, [cur[r] EXCEPT !.completedSteps = Append(@, cur[r].currentStep),
                                      !.currentStep = @ + 1, !.lease = 0], "advance")

RecordAction(r) ==
    /\ pc[r] = "acted"
    /\ SaveOrGiveUp(r, [cur[r] EXCEPT !.completedSteps = Append(@, cur[r].currentStep),
                                      !.lease = 0], "advance")

StartCompensating(r) ==
    /\ pc[r] = "actionFailed"
    /\ SaveOrGiveUp(r, [cur[r] EXCEPT !.status = "compensating", !.lease = 0],
                    "compensate")

Complete(r) ==
    /\ pc[r] = "advance" /\ Remaining(cur[r]) = {}
    /\ SaveOrGiveUp(r, [cur[r] EXCEPT !.status = "completed", !.currentStep = 0,
                                      !.lease = 0], "idle")

-----------------------------------------------------------------------------
(* compensate().                                                           *)

\* Faulty variant: compensates in the order of completion.
ClaimFirstCompleted(r) ==
    /\ pc[r] = "compensate" /\ cur[r].completedSteps # <<>>
    /\ ClaimStep(r, Head(cur[r].completedSteps), "undoing")

ClaimLastCompleted(r) ==
    /\ pc[r] = "compensate" /\ cur[r].completedSteps # <<>>
    /\ ClaimStep(r, Last(cur[r].completedSteps), "undoing")

CompensationSucceeds(r) ==
    /\ pc[r] = "undoing"
    /\ undone' = [undone EXCEPT ![cur[r].currentStep] = @ + 1]
    /\ pc' = [pc EXCEPT ![r] = "undone"]
    /\ UNCHANGED <<record, cur, expiredUpTo, acted, budget>>

CompensationFails(r) ==
    /\ pc[r] = "undoing" /\ budget.failures > 0
    /\ budget' = [budget EXCEPT !.failures = @ - 1]
    /\ \E effect \in {0, 1} :
           undone' = [undone EXCEPT ![cur[r].currentStep] = @ + effect]
    /\ pc' = [pc EXCEPT ![r] = "undoFailed"]
    /\ UNCHANGED <<record, cur, expiredUpTo, acted>>

\* completedSteps.filter(name => name !== step): the other steps in their order.
Without(steps, s) ==
    LET kept == {i \in DOMAIN steps : steps[i] # s}
        nth(n) == CHOOSE i \in kept : Cardinality({j \in kept : j <= i}) = n
    IN  [n \in 1..Cardinality(kept) |-> steps[nth(n)]]

RecordCompensation(r) ==
    /\ pc[r] = "undone"
    /\ SaveOrGiveUp(r, [cur[r] EXCEPT !.completedSteps = Without(@, cur[r].currentStep),
                                      !.lease = 0], "compensate")

\* Faulty variant: the step is dropped although it was not undone.
ReleaseAndForget(r) ==
    /\ pc[r] = "undoFailed"
    /\ SaveOrGiveUp(r, [cur[r] EXCEPT !.completedSteps = Front(@), !.lease = 0],
                    "idle")

\* Faulty variant: a failed compensation ends the saga.
FailAtOnce(r) ==
    /\ pc[r] = "undoFailed"
    /\ SaveOrGiveUp(r, [cur[r] EXCEPT !.status = "failed", !.lease = 0], "idle")

\* The saga stays compensating; the lease is released for the next resume().
ReleaseLease(r) ==
    /\ pc[r] = "undoFailed"
    /\ SaveOrGiveUp(r, [cur[r] EXCEPT !.lease = 0], "idle")

Fail(r) ==
    /\ pc[r] = "compensate" /\ cur[r].completedSteps = <<>>
    /\ SaveOrGiveUp(r, [cur[r] EXCEPT !.status = "failed", !.currentStep = 0,
                                      !.lease = 0], "idle")

-----------------------------------------------------------------------------
(* Failures and time.                                                      *)

Stop(r) ==
    /\ pc[r] # "idle" /\ budget.stops > 0
    /\ budget' = [budget EXCEPT !.stops = @ - 1]
    /\ pc' = [pc EXCEPT ![r] = "idle"]
    /\ UNCHANGED <<record, cur, expiredUpTo, acted, undone>>

\* The stored lease runs out: either nobody is at work under it any more, or
\* the step takes longer than claimLeaseMs.
Holds(r) == pc[r] \in Working /\ cur[r].lease = record.lease
LeaseExpires ==
    /\ Started /\ Live(record.lease)
    /\ \A r \in Runner : ~Holds(r)
    /\ expiredUpTo' = record.lease
    /\ UNCHANGED <<record, pc, cur, acted, undone, budget>>

SlowLeaseExpires ==
    /\ Started /\ Live(record.lease) /\ budget.slow > 0
    /\ \E r \in Runner : Holds(r)
    /\ expiredUpTo' = record.lease
    /\ budget' = [budget EXCEPT !.slow = @ - 1]
    /\ UNCHANGED <<record, pc, cur, acted, undone>>

Advance(r) ==
    \/ ClaimNext(r) \/ ActionSucceeds(r) \/ ActionFails(r) \/ RecordAction(r)
    \/ StartCompensating(r) \/ Complete(r)
Compensate(r) ==
    \/ ClaimLastCompleted(r) \/ CompensationSucceeds(r) \/ CompensationFails(r)
    \/ RecordCompensation(r) \/ ReleaseLease(r) \/ Fail(r)

Next ==
    \/ \E r \in Runner :
           Run(r) \/ Resume(r) \/ Advance(r) \/ Compensate(r) \/ Stop(r)
    \/ LeaseExpires \/ SlowLeaseExpires

Spec == Init /\ [][Next]_vars

(* A runner goes on until it returns.  A saga that has started is resumed  *)
(* now and then: by recoverAll at the next start of the service, or by an  *)
(* operator's POST /sagas/:sagaId/resume.  Time passes.  Actions may fail  *)
(* for ever; compensations fail at most MaxFailures times.                 *)
FairSpec ==
    /\ Spec
    /\ \A r \in Runner :
          WF_vars(Advance(r)) /\ WF_vars(Compensate(r)) /\ WF_vars(Resume(r))
    /\ WF_vars(LeaseExpires)

-----------------------------------------------------------------------------
(* Properties.                                                             *)

(* The steps recorded as completed are the first ones of the order, each   *)
(* once: no race of runners records a step twice, skips one, or            *)
(* compensates a step before the ones that were built on it.               *)
CompletedIsPrefix ==
    Started => \A i \in DOMAIN record.completedSteps :
                   record.completedSteps[i] = i

(* Two runners are at work on the saga at the same time only if the lease  *)
(* of one of them has expired.                                             *)
LeaseExclusive ==
    \A r, q \in Runner :
        r # q /\ pc[r] \in Working /\ pc[q] \in Working =>
            ~Live(cur[r].lease) \/ ~Live(cur[q].lease)

(* A completed saga performed every step and undid none, whatever stale    *)
(* runners saw their own action fail.                                      *)
CompletedNeverUndone ==
    Started /\ record.status = "completed" =>
        \A s \in Step : acted[s] > 0 /\ undone[s] = 0

(* A step that was recorded as completed leaves the record of a saga only  *)
(* after its compensation took effect.                                     *)
ForgottenOnlyWhenUndone ==
    [][Started =>
         \A s \in ToSet(record.completedSteps) :
             s \notin ToSet(record'.completedSteps) => undone[s] > 0]_vars

(* An action that threw although it took effect is never recorded, so      *)
(* compensate() passes over it, and a runner that lost its lease may act   *)
(* late.  Yet at most one effect escapes: one that is not recorded and was *)
(* not compensated is that of the last step that took effect at all.       *)
OneEffectEscapes ==
    Started =>
        \A s \in Step \ ToSet(record.completedSteps) :
            acted[s] > 0 /\ undone[s] = 0 => \A t \in Step : t > s => acted[t] = 0

(* A finished saga is finished: no late save of a runner that lost its     *)
(* lease reopens it or changes its outcome.  KeepsPromise says it of the   *)
(* outcome, this of the whole row.                                         *)
TerminalIsFinal ==
    [][Started /\ record.status \in Terminal => record' = record]_vars

(* Refinement: whatever the runners, the leases and the crashes do to it,  *)
(* a saga does its steps in order, undoes them in reverse and ends only    *)
(* whole or with nothing left of what was recorded.                        *)
PromisePhase ==
    IF ~Started THEN "new"
    ELSE CASE record.status = "running"      -> "forward"
           [] record.status = "compensating" -> "backward"
           [] OTHER                          -> record.status
DoneCount == IF Started THEN Len(record.completedSteps) ELSE 0
P == INSTANCE SagaPromise WITH
         phase <- PromisePhase,
         done <- DoneCount,
         effective <- {s \in Step : acted[s] > 0},
         reverted <- {s \in Step : undone[s] > 0}
KeepsPromise == P!Spec

(* Every saga that starts ends, completed or failed, as long as somebody   *)
(* resumes it: no claim, crash, lost race or failed compensation leaves it *)
(* blocked.                                                                *)
SagaEnds == Started ~> Started /\ record.status \in Terminal

(* What the comment on PostgresSagaStore.save says: two runners "can never *)
(* both win the same step claim and execute it twice".                     *)
NeverExecutedTwiceAtOnce ==
    \A r, q \in Runner :
        r # q /\ pc[r] = "acting" /\ pc[q] = "acting" =>
            cur[r].currentStep # cur[q].currentStep
=============================================================================
