------------------------------ MODULE SagaProofs ------------------------------
(***************************************************************************)
(* Proofs about the saga coordinator, for any numbers of runners and of    *)
(* steps and any bounds.                                                   *)
(*                                                                         *)
(* The argument: a copy of the newest version is the record itself, so     *)
(* whoever saves builds on the record; and a record that names a lease     *)
(* names the step everybody who reads it would claim, so nobody saves      *)
(* while a runner works under a lease that has not expired.                *)
(***************************************************************************)
EXTENDS Saga, FiniteSetTheorems, TLAPS

Advancing == {"advance", "acting", "acted", "actionFailed"}
Done(rec) == Len(rec.completedSteps)

\* The completed steps are the first ones, and a lease is about the next step to
\* perform or the last one to undo.
WellFormed(rec) ==
    /\ rec \in SagaRecord
    /\ Done(rec) =< StepCount
    /\ \A i \in 1..Done(rec) : rec.completedSteps[i] = i
    /\ rec.lease # 0 =>
        \/ rec.status = "running" /\ Done(rec) < StepCount /\ rec.currentStep = Done(rec) + 1
        \/ rec.status = "compensating" /\ Done(rec) > 0 /\ rec.currentStep = Done(rec)

RecordInv ==
    /\ Started =>
        /\ WellFormed(record)
        /\ record.status = "running" => \A s \in 1..Done(record) : acted[s] > 0
        /\ record.status = "completed" => \A s \in Step : acted[s] > 0
    /\ (Started => record.status \in {"running", "completed"}) =>
        \A s \in Step : undone[s] = 0

CopyInv(r) ==
    pc[r] # "idle" =>
        /\ Started /\ WellFormed(cur[r])
        /\ cur[r].version =< record.version
        /\ cur[r].version = record.version => cur[r] = record
        /\ cur[r].status = IF pc[r] \in Advancing THEN "running" ELSE "compensating"
        /\ cur[r].status = "compensating" => record.status \in {"compensating", "failed"}

WorkInv(r) ==
    pc[r] \in Working =>
        /\ cur[r].lease = cur[r].version /\ cur[r].lease # 0
        /\ Live(cur[r].lease) => cur[r] = record
        /\ pc[r] = "acted" => acted[cur[r].currentStep] > 0
        /\ pc[r] = "undone" => undone[cur[r].currentStep] > 0

ClaimsDiffer ==
    \A r, q \in Runner :
        r # q /\ pc[r] \in Working /\ pc[q] \in Working => cur[r].version # cur[q].version

SagaInv ==
    /\ TypeOK /\ RecordInv /\ ClaimsDiffer
    /\ \A r \in Runner : CopyInv(r) /\ WorkInv(r)

-----------------------------------------------------------------------------
(* The steps of a list.                                                    *)

\* What was completed, in order, are the first steps.
LEMMA DoneSteps ==
  ASSUME NEW rec, WellFormed(rec)
  PROVE  /\ Done(rec) \in 0..StepCount
         /\ ToSet(rec.completedSteps) = 1..Done(rec)
         /\ Remaining(rec) = (Done(rec) + 1)..StepCount
<1>1. Done(rec) \in 0..StepCount
  BY SagaConstants DEF WellFormed, SagaRecord, Done
<1>2. DOMAIN rec.completedSteps = 1..Done(rec)
  BY DEF WellFormed, SagaRecord, Done
<1>3. ToSet(rec.completedSteps) = 1..Done(rec)
  BY <1>2 DEF WellFormed, ToSet
<1> QED BY <1>1, <1>3, SagaConstants DEF Remaining, Step

LEMMA NextStepIs ==
  ASSUME NEW rec, WellFormed(rec), Remaining(rec) # {}
  PROVE  Done(rec) < StepCount /\ NextStep(rec) = Done(rec) + 1
<1>1. /\ Done(rec) \in 0..StepCount
      /\ Remaining(rec) = (Done(rec) + 1)..StepCount
  BY DoneSteps
<1>2. Done(rec) < StepCount
  BY <1>1, SagaConstants
<1>3. /\ Done(rec) + 1 \in Remaining(rec)
      /\ \A t \in Remaining(rec) : Done(rec) + 1 =< t
  BY <1>1, <1>2, SagaConstants
<1>4. \A s \in Remaining(rec) : (\A t \in Remaining(rec) : s =< t) => s = Done(rec) + 1
  BY <1>1, <1>3, SagaConstants
<1>5. NextStep(rec) = Done(rec) + 1
  BY <1>3, <1>4 DEF NextStep
<1> QED BY <1>2, <1>5

\* Filtering the last of the first n steps out leaves the first n - 1.
LEMMA WithoutLast ==
  ASSUME NEW n \in Nat \ {0}, NEW steps, DOMAIN steps = 1..n,
         \A i \in 1..n : steps[i] = i
  PROVE  Without(steps, n) = [i \in 1..(n - 1) |-> i]
<1> DEFINE kept == {i \in DOMAIN steps : steps[i] # n}
           nth(m) == CHOOSE i \in kept : Cardinality({j \in kept : j <= i}) = m
<1>1. kept = 1..(n - 1)
  OBVIOUS
<1>2. \A m \in 0..n : Cardinality(1..m) = m
  BY FS_Interval
<1> HIDE DEF kept
<1>3. Cardinality(kept) = n - 1
  <2>1. Cardinality(1..(n - 1)) = n - 1
    BY <1>2
  <2> QED BY <1>1, <2>1
<1>4. ASSUME NEW i \in 1..(n - 1) PROVE Cardinality({j \in kept : j <= i}) = i
  <2>1. {j \in kept : j <= i} = 1..i
    BY <1>1
  <2>2. Cardinality(1..i) = i
    BY <1>2
  <2> QED BY <2>1, <2>2, Zenon
<1>5. ASSUME NEW m \in 1..(n - 1) PROVE nth(m) = m
  <2>1. m \in kept /\ Cardinality({j \in kept : j <= m}) = m
    BY <1>1, <1>4
  <2>2. \A i \in kept : Cardinality({j \in kept : j <= i}) = m => i = m
    BY <1>1, <1>4
  <2> QED BY <2>1, <2>2
<1>6. Without(steps, n) = [m \in 1..Cardinality(kept) |-> steps[nth(m)]]
  BY DEF Without, kept
<1> HIDE DEF nth
<1>7. \A m \in 1..(n - 1) : steps[nth(m)] = m
  BY <1>5
<1> QED BY <1>3, <1>6, <1>7

-----------------------------------------------------------------------------
(* Steps that save nothing.                                                *)

LEMMA SagaInitInv == Init => SagaInv
<1> SUFFICES ASSUME Init PROVE SagaInv
  OBVIOUS
<1>1. \A r \in Runner : pc[r] = "idle"
  BY DEF Init
<1>2. TypeOK
  BY SagaConstants DEF Init, TypeOK, PC, Step
<1> QED BY <1>1, <1>2 DEF Init, SagaInv, RecordInv, CopyInv, WorkInv, ClaimsDiffer, Started, Working

\* A runner that stops or gives up leaves everything to the others.
LEMMA IdleInv ==
  ASSUME SagaInv, NEW r \in Runner, pc' = [pc EXCEPT ![r] = "idle"],
         budget' \in [stops : 0..MaxStops, slow : 0..MaxSlow, failures : 0..MaxFailures],
         UNCHANGED <<record, cur, expiredUpTo, acted, undone>>
  PROVE  SagaInv'
<1>1. /\ pc' \in [Runner -> PC] /\ pc'[r] = "idle"
      /\ \A q \in Runner : q # r => pc'[q] = pc[q]
  BY DEF SagaInv, TypeOK, PC
<1>2. TypeOK' /\ RecordInv'
  BY <1>1 DEF SagaInv, TypeOK, RecordInv, Started
<1>3. ASSUME NEW q \in Runner PROVE CopyInv(q)' /\ WorkInv(q)'
  <2>1. CASE q = r
    BY <1>1, <2>1 DEF CopyInv, WorkInv, Working
  <2>2. CASE q # r
    BY <1>1, <2>2 DEF SagaInv, CopyInv, WorkInv, Started, Live
  <2> QED BY <2>1, <2>2
<1>4. ClaimsDiffer'
  BY <1>1 DEF SagaInv, ClaimsDiffer, Working
<1> QED BY <1>2, <1>3, <1>4 DEF SagaInv

\* So does time, for a lease that runs out makes no claim.
LEMMA ExpiryInv ==
  ASSUME SagaInv, LeaseExpires \/ SlowLeaseExpires
  PROVE  SagaInv'
<1>1. /\ expiredUpTo' = record.lease /\ record.lease > expiredUpTo /\ Started
      /\ UNCHANGED <<record, pc, cur, acted, undone>>
      /\ budget' \in [stops : 0..MaxStops, slow : 0..MaxSlow, failures : 0..MaxFailures]
  BY SagaConstants DEF LeaseExpires, SlowLeaseExpires, Live, SagaInv, TypeOK
<1>2. record \in SagaRecord /\ record.lease \in Nat /\ expiredUpTo \in Nat
  BY <1>1 DEF SagaInv, TypeOK, Started, SagaRecord
<1>3. TypeOK' /\ RecordInv' /\ ClaimsDiffer'
  BY <1>1, <1>2 DEF SagaInv, TypeOK, RecordInv, ClaimsDiffer, Started
<1>4. ASSUME NEW q \in Runner PROVE CopyInv(q)' /\ WorkInv(q)'
  <2>1. CopyInv(q)'
    BY <1>1 DEF SagaInv, CopyInv, Started
  <2>2. ASSUME pc[q] \in Working, cur[q].lease > expiredUpTo' PROVE cur[q].lease > expiredUpTo
    <3>1. cur[q].lease \in Nat
      BY <2>2 DEF SagaInv, CopyInv, WellFormed, SagaRecord, Working
    <3> QED BY <1>1, <1>2, <2>2, <3>1
  <2> QED BY <1>1, <2>1, <2>2 DEF SagaInv, WorkInv, Live
<1> QED BY <1>3, <1>4 DEF SagaInv

\* A runner that takes the record up knows the newest version.
LEMMA TakeInv ==
  ASSUME SagaInv, NEW r \in Runner, pc[r] = "idle", Started', record' \in SagaRecord,
         WellFormed(record'), record'.status \notin Terminal,
         Take(r, record'),
         RecordInv', ~Started \/ UNCHANGED record,
         UNCHANGED <<expiredUpTo, acted, undone, budget>>
  PROVE  SagaInv'
<1>1. record'.status \in {"running", "compensating"}
  BY DEF SagaRecord, SagaStatus, Terminal
<1>2. /\ cur' \in [Runner -> SagaRecord \cup {None}] /\ cur'[r] = record'
      /\ pc' \in [Runner -> PC]
      /\ pc'[r] = IF record'.status = "running" THEN "advance" ELSE "compensate"
      /\ \A q \in Runner : q # r => cur'[q] = cur[q] /\ pc'[q] = pc[q]
  BY <1>1 DEF Take, SagaInv, TypeOK, PC
<1>3. TypeOK'
  BY <1>2 DEF SagaInv, TypeOK
<1>4. \A q \in Runner : q # r /\ pc[q] # "idle" => Started
  BY DEF SagaInv, CopyInv
<1>5. \A q \in Runner : q # r /\ pc[q] \in Working => Started
  BY <1>4 DEF Working
<1>6. ASSUME NEW q \in Runner PROVE CopyInv(q)' /\ WorkInv(q)'
  <2>1. CASE q = r
    <3>1. record'.version \in Nat
      BY DEF SagaRecord
    <3> QED BY <1>1, <1>2, <2>1, <3>1 DEF CopyInv, WorkInv, Working, Advancing
  <2>2. CASE q # r
    BY <1>2, <1>4, <1>5, <2>2 DEF SagaInv, CopyInv, WorkInv, Live
  <2> QED BY <2>1, <2>2
<1>7. ClaimsDiffer'
  BY <1>2 DEF SagaInv, ClaimsDiffer, Working
<1> QED BY <1>3, <1>6, <1>7 DEF SagaInv

LEMMA RunInv ==
  ASSUME SagaInv, NEW r \in Runner, Run(r)
  PROVE  SagaInv'
<1>1. InitialRecord \in SagaRecord /\ WellFormed(InitialRecord) /\ Done(InitialRecord) = 0
  BY SagaConstants DEF InitialRecord, SagaRecord, SagaStatus, Step, WellFormed, Done
<1>2. /\ pc[r] = "idle" /\ ~Started /\ record' = InitialRecord /\ Take(r, record')
      /\ UNCHANGED <<expiredUpTo, acted, undone, budget>>
  BY DEF Run
<1>3. Started' /\ record'.status = "running"
  BY <1>1, <1>2, NoneIsNoRecord DEF Started, InitialRecord
<1>4. RecordInv'
  BY <1>1, <1>2, <1>3 DEF SagaInv, RecordInv
<1> QED BY <1>1, <1>2, <1>3, <1>4, TakeInv DEF Terminal

LEMMA ResumeInv ==
  ASSUME SagaInv, NEW r \in Runner, Resume(r)
  PROVE  SagaInv'
<1>1. /\ pc[r] = "idle" /\ Started /\ record' = record /\ Take(r, record')
      /\ record'.status \notin Terminal
      /\ UNCHANGED <<expiredUpTo, acted, undone, budget>>
  BY DEF Resume
<1>2. Started' /\ RecordInv' /\ WellFormed(record') /\ record' \in SagaRecord
  BY <1>1 DEF Started, SagaInv, RecordInv, WellFormed
<1> QED BY <1>1, <1>2, TakeInv

\* The claimed step is one of the steps.
LEMMA ClaimedStep ==
  ASSUME SagaInv, NEW r \in Runner, pc[r] \in Working
  PROVE  /\ Started /\ WellFormed(cur[r]) /\ cur[r].currentStep \in Step
         /\ cur[r].status = "running" => cur[r].currentStep = Done(cur[r]) + 1
         /\ cur[r].status # "running" => cur[r].currentStep = Done(cur[r]) /\ Done(cur[r]) > 0
<1>1. /\ Started /\ WellFormed(cur[r]) /\ cur[r].lease # 0
  BY DEF SagaInv, CopyInv, WorkInv, Working
<1>2. Done(cur[r]) \in 0..StepCount
  BY <1>1, DoneSteps
<1> QED BY <1>1, <1>2, SagaConstants DEF WellFormed, Step

\* An action, or a compensation, took effect or failed.
LEMMA EffectInv ==
  ASSUME SagaInv, NEW r \in Runner,
         \/ ActionSucceeds(r) \/ ActionFails(r)
         \/ CompensationSucceeds(r) \/ CompensationFails(r)
  PROVE  SagaInv'
<1> DEFINE s == cur[r].currentStep
<1>1. /\ pc[r] \in {"acting", "undoing"} /\ pc[r] \in Working
      /\ UNCHANGED <<record, cur, expiredUpTo>>
      /\ budget' \in [stops : 0..MaxStops, slow : 0..MaxSlow, failures : 0..MaxFailures]
  BY SagaConstants DEF ActionSucceeds, ActionFails, CompensationSucceeds, CompensationFails,
                       Working, SagaInv, TypeOK
<1>2. s \in Step /\ Started /\ CopyInv(r) /\ WorkInv(r)
  BY <1>1, ClaimedStep DEF SagaInv
<1>3. /\ pc' \in [Runner -> PC] /\ \A q \in Runner : q # r => pc'[q] = pc[q]
      /\ pc'[r] \in Working /\ (pc'[r] \in Advancing <=> pc[r] \in Advancing)
      /\ pc'[r] = "acted" => acted' = [acted EXCEPT ![s] = @ + 1]
      /\ pc'[r] = "undone" => undone' = [undone EXCEPT ![s] = @ + 1]
  BY <1>1 DEF ActionSucceeds, ActionFails, CompensationSucceeds, CompensationFails,
              SagaInv, TypeOK, PC, Working, Advancing
<1>4. /\ acted' \in [Step -> Nat] /\ undone' \in [Step -> Nat]
      /\ acted \in [Step -> Nat] /\ undone \in [Step -> Nat]
      /\ \A t \in Step : acted'[t] >= acted[t] /\ undone'[t] >= undone[t]
      /\ pc[r] = "acting" => UNCHANGED undone
      /\ pc[r] = "undoing" => UNCHANGED acted
  BY <1>1, <1>2 DEF ActionSucceeds, ActionFails, CompensationSucceeds, CompensationFails,
                    SagaInv, TypeOK
<1>5. /\ pc'[r] = "acted" => acted'[s] > 0
      /\ pc'[r] = "undone" => undone'[s] > 0
  BY <1>2, <1>3, <1>4
<1>6. pc[r] = "undoing" => record.status \in {"compensating", "failed"}
  BY <1>1, <1>2 DEF CopyInv, Advancing
<1>7. TypeOK'
  BY <1>1, <1>3, <1>4 DEF SagaInv, TypeOK
<1>8. RecordInv'
  <2>1. /\ WellFormed(record)
        /\ Done(record) \in 0..StepCount
    BY <1>2, DoneSteps DEF SagaInv, RecordInv
  <2>2. 1..Done(record) \subseteq Step
    BY <2>1, SagaConstants DEF Step
  <2> QED BY <1>1, <1>2, <1>4, <1>6, <2>2 DEF SagaInv, RecordInv, Started
<1>9. ASSUME NEW q \in Runner PROVE CopyInv(q)' /\ WorkInv(q)'
  <2>1. CASE q = r
    <3>1. CopyInv(r)'
      BY <1>1, <1>2, <1>3 DEF CopyInv, Started, Working
    <3>2. WorkInv(r)'
      BY <1>1, <1>2, <1>3, <1>5 DEF WorkInv, Live
    <3> QED BY <2>1, <3>1, <3>2
  <2>2. CASE q # r
    <3>1. CopyInv(q)'
      BY <1>1, <1>3, <2>2 DEF SagaInv, CopyInv, Started
    <3>2. pc[q] \in Working => cur[q].currentStep \in Step
      BY ClaimedStep
    <3>3. WorkInv(q)
      BY DEF SagaInv
    <3>4. WorkInv(q)'
      BY <1>1, <1>3, <1>4, <2>2, <3>2, <3>3 DEF WorkInv, Live, Working
    <3> QED BY <3>1, <3>4
  <2> QED BY <2>1, <2>2
<1>10. ClaimsDiffer'
  BY <1>1, <1>3 DEF SagaInv, ClaimsDiffer
<1> QED BY <1>7, <1>8, <1>9, <1>10 DEF SagaInv

-----------------------------------------------------------------------------
(* Steps that save.                                                        *)

\* When a save succeeds nobody else works under a lease that has not expired.
LEMMA NobodyElseHolds ==
  ASSUME SagaInv, NEW r \in Runner, pc[r] # "idle", ~Outrun(r),
         pc[r] \in Working \/ ~Live(record.lease),
         NEW q \in Runner, q # r, pc[q] \in Working
  PROVE  ~Live(cur[q].lease)
<1> SUFFICES ASSUME Live(cur[q].lease) PROVE FALSE
  OBVIOUS
<1>1. cur[q] = record /\ cur[r] = record
  BY DEF SagaInv, CopyInv, WorkInv, Outrun
<1>2. pc[r] \in Working => cur[r].version # cur[q].version
  BY DEF SagaInv, ClaimsDiffer
<1> QED BY <1>1, <1>2

\* What a save may change, as far as the invariant goes.
SavedWell(new, next) ==
    /\ WellFormed(new) /\ new.version = record.version
    /\ next \in {"idle", "advance", "acting", "compensate", "undoing"}
    /\ next # "idle" => new.status = IF next \in Advancing THEN "running" ELSE "compensating"
    /\ next \in Working => new.lease = new.version + 1
    /\ new.status \in {"running", "completed"} => record.status = "running"
    /\ record.status \in {"compensating", "failed"} =>
        new.status \in {"compensating", "failed"}
    /\ new.status = "running" => \A s \in 1..Done(new) : acted[s] > 0
    /\ new.status = "completed" => \A s \in Step : acted[s] > 0

LEMMA StoredRecord ==
  ASSUME NEW new, WellFormed(new), NEW stored, stored = [new EXCEPT !.version = @ + 1]
  PROVE  /\ WellFormed(stored) /\ stored \in SagaRecord
         /\ stored.status = new.status /\ stored.lease = new.lease
         /\ stored.version = new.version + 1 /\ Done(stored) = Done(new)
<1>1. new \in SagaRecord
  BY DEF WellFormed
<1>2. /\ stored \in SagaRecord
      /\ stored.status = new.status /\ stored.lease = new.lease
      /\ stored.version = new.version + 1
      /\ stored.currentStep = new.currentStep
      /\ stored.completedSteps = new.completedSteps
  BY <1>1 DEF SagaRecord
<1> QED BY <1>2 DEF WellFormed, Done

LEMMA SaveInv ==
  ASSUME SagaInv, NEW r \in Runner, pc[r] # "idle", ~Outrun(r),
         pc[r] \in Working \/ ~Live(record.lease),
         NEW new, NEW next, SavedWell(new, next),
         NEW stored, stored = [new EXCEPT !.version = @ + 1],
         record' = stored, Continue(r, stored, next),
         UNCHANGED <<expiredUpTo, acted, undone, budget>>
  PROVE  SagaInv'
<1>1. /\ Started /\ WellFormed(record) /\ record.version \in Nat
      /\ WellFormed(stored) /\ stored \in SagaRecord /\ Started'
      /\ stored.version = record.version + 1 /\ SavedWell(new, next)
      /\ stored.status = new.status /\ stored.lease = new.lease /\ Done(stored) = Done(new)
  BY NoneIsNoRecord, StoredRecord
     DEF SagaInv, CopyInv, RecordInv, WellFormed, SagaRecord, SavedWell, Started
<1>2. /\ cur' \in [Runner -> SagaRecord \cup {None}] /\ cur'[r] = stored
      /\ pc' \in [Runner -> PC] /\ pc'[r] = next
      /\ \A q \in Runner : q # r => cur'[q] = cur[q] /\ pc'[q] = pc[q]
  BY <1>1 DEF Continue, SagaInv, TypeOK, PC, Working, SavedWell
<1>3. TypeOK' /\ RecordInv'
  BY <1>1, <1>2 DEF SagaInv, TypeOK, RecordInv, SavedWell
<1>4. \A q \in Runner : q # r /\ pc[q] # "idle" => cur[q].version \in Nat
  BY DEF SagaInv, CopyInv, WellFormed, SagaRecord
<1>5. ASSUME NEW q \in Runner PROVE CopyInv(q)' /\ WorkInv(q)'
  <2>1. CASE q = r
    <3>1. CopyInv(r)'
      BY <1>1, <1>2 DEF CopyInv, SavedWell, SagaRecord
    <3>2. WorkInv(r)'
      BY <1>1, <1>2 DEF WorkInv, SavedWell, Working
    <3> QED BY <2>1, <3>1, <3>2
  <2>2. CASE q # r
    <3>1. CopyInv(q)'
      BY <1>1, <1>2, <1>4, <2>2 DEF SagaInv, CopyInv, SavedWell
    <3>2. pc[q] \in Working => ~Live(cur[q].lease)
      BY <2>2, NobodyElseHolds
    <3>3. WorkInv(q)'
      BY <1>2, <2>2, <3>2 DEF SagaInv, WorkInv, Live
    <3> QED BY <3>1, <3>3
  <2> QED BY <2>1, <2>2
<1>6. ClaimsDiffer'
  <2>1. \A q \in Runner : q # r /\ pc[q] \in Working => cur[q].version =< record.version
    BY DEF SagaInv, CopyInv, Working
  <2>2. \A q \in Runner : q # r /\ pc[q] \in Working => cur[q].version \in Nat
    BY <1>4 DEF Working
  <2>3. cur'[r].version = record.version + 1
    BY <1>1, <1>2
  <2>4. \A q \in Runner : q # r /\ pc'[q] \in Working => cur'[q].version # cur'[r].version
    BY <1>1, <1>2, <2>1, <2>2, <2>3
  <2>5. \A p, q \in Runner : p # r /\ q # r /\ p # q /\ pc'[p] \in Working /\ pc'[q] \in Working
            => cur'[p].version # cur'[q].version
    BY <1>2 DEF SagaInv, ClaimsDiffer
  <2>6. Working' = Working
    BY DEF Working
  <2> QED BY <2>4, <2>5, <2>6 DEF ClaimsDiffer
<1> QED BY <1>3, <1>5, <1>6 DEF SagaInv

\* A save succeeds on the record itself, or the runner gives up.
LEMMA SaveOrGiveUpInv ==
  ASSUME SagaInv, NEW r \in Runner, pc[r] # "idle",
         pc[r] \in Working \/ ~Live(cur[r].lease),
         NEW new, NEW next, SaveOrGiveUp(r, new, next),
         cur[r] = record => SavedWell(new, next)
  PROVE  SagaInv'
<1>1. CASE Outrun(r) /\ GiveUp(r)
  BY <1>1, IdleInv DEF GiveUp, SagaInv, TypeOK
<1>2. CASE ~Outrun(r) /\ ~GiveUp(r)
  <2>1. cur[r] = record
    BY <1>2 DEF SagaInv, CopyInv, Outrun
  <2> QED BY <1>2, <2>1, SaveInv DEF SaveOrGiveUp
<1>3. CASE ~Outrun(r) /\ GiveUp(r)
  BY <1>3, IdleInv DEF GiveUp, SagaInv, TypeOK
<1> QED BY <1>1, <1>2, <1>3 DEF SaveOrGiveUp

LEMMA ClaimInv ==
  ASSUME SagaInv, NEW r \in Runner, ClaimNext(r) \/ ClaimLastCompleted(r)
  PROVE  SagaInv'
<1> DEFINE rec == cur[r]
<1>1. /\ pc[r] \in {"advance", "compensate"} /\ Started /\ WellFormed(rec)
      /\ Done(rec) \in 0..StepCount
      /\ rec.status = IF pc[r] = "advance" THEN "running" ELSE "compensating"
      /\ rec \in SagaRecord
  BY DoneSteps DEF ClaimNext, ClaimLastCompleted, SagaInv, CopyInv, Advancing, WellFormed
<1>2. PICK s, next :
        /\ ClaimStep(r, s, next)
        /\ \/ pc[r] = "advance" /\ next = "acting"
              /\ s = Done(rec) + 1 /\ Done(rec) < StepCount
           \/ pc[r] = "compensate" /\ next = "undoing" /\ s = Done(rec) /\ Done(rec) > 0
  <2>1. CASE ClaimNext(r)
    BY <1>1, <2>1, NextStepIs DEF ClaimNext
  <2>2. CASE ClaimLastCompleted(r)
    <3>1. Done(rec) > 0 /\ Last(rec.completedSteps) = Done(rec)
      BY <1>1, <2>2 DEF ClaimLastCompleted, Last, WellFormed, Done, SagaRecord
    <3> QED BY <2>2, <3>1 DEF ClaimLastCompleted
  <2> QED BY <2>1, <2>2
<1>3. CASE GiveUp(r)
  BY <1>3, IdleInv DEF GiveUp, SagaInv, TypeOK
<1>4. CASE SaveOrGiveUp(r, ClaimOf(r, s), next) /\ ~(rec.currentStep = s /\ Live(rec.lease))
  <2>1. ~Live(rec.lease)
    <3>1. rec.lease # 0 => rec.currentStep = s
      BY <1>1, <1>2 DEF WellFormed
    <3>2. Live(rec.lease) => rec.lease # 0
      BY DEF Live, SagaInv, TypeOK
    <3> QED BY <1>4, <3>1, <3>2
  <2>2. ASSUME rec = record
        PROVE  SavedWell(ClaimOf(r, s), next)
    <3> DEFINE new == ClaimOf(r, s)
    <3>1. s \in 1..StepCount
      BY <1>1, <1>2, SagaConstants
    <3>2. /\ new \in SagaRecord
          /\ new.status = rec.status /\ new.currentStep = s
          /\ new.version = rec.version /\ new.lease = rec.version + 1 /\ new.lease # 0
          /\ new.completedSteps = rec.completedSteps
      <4> DEFINE l == rec.version + 1
      <4>1. l \in Nat /\ l # 0 /\ s \in 0..StepCount
        BY <1>1, <3>1 DEF SagaRecord
      <4>2. new = [rec EXCEPT !.currentStep = s, !.lease = l]
        BY DEF ClaimOf
      <4>3. /\ new \in SagaRecord
            /\ new.status = rec.status /\ new.currentStep = s
            /\ new.version = rec.version /\ new.lease = l
            /\ new.completedSteps = rec.completedSteps
        <5>1. rec \in SagaRecord
          BY <1>1
        <5> HIDE DEF new, rec, l
        <5> QED BY <4>1, <4>2, <5>1 DEF SagaRecord
      <4> QED BY <4>1, <4>3
    <3> HIDE DEF new
    <3>3. WellFormed(new) /\ Done(new) = Done(rec)
      BY <1>1, <1>2, <3>2 DEF WellFormed, Done
    <3>4. rec.status = "running" => \A t \in 1..Done(rec) : acted[t] > 0
      BY <1>1, <2>2 DEF SagaInv, RecordInv
    <3>5. SavedWell(new, next)
      BY <1>1, <1>2, <2>2, <3>2, <3>3, <3>4 DEF SavedWell, Working, Advancing
    <3> QED BY <3>5 DEF new
  <2> QED BY <1>1, <1>4, <2>1, <2>2, SaveOrGiveUpInv
<1> QED BY <1>2, <1>3, <1>4 DEF ClaimStep

\* What a runner knows of its copy when its save succeeds.
LEMMA OwnCopy ==
  ASSUME SagaInv, NEW r \in Runner, pc[r] # "idle"
  PROVE  /\ Started /\ WellFormed(cur[r]) /\ cur[r] \in SagaRecord
         /\ Done(cur[r]) \in 0..StepCount
         /\ cur[r].status = IF pc[r] \in Advancing THEN "running" ELSE "compensating"
         /\ cur[r] = record /\ cur[r].status = "running" =>
                \A s \in 1..Done(cur[r]) : acted[s] > 0
BY DoneSteps DEF SagaInv, CopyInv, RecordInv, WellFormed

LEMMA RecordActionInv ==
  ASSUME SagaInv, NEW r \in Runner, RecordAction(r)
  PROVE  SagaInv'
<1> DEFINE rec == cur[r]
           done == Append(rec.completedSteps, rec.currentStep)
           new == [rec EXCEPT !.completedSteps = done, !.lease = 0]
<1>1. pc[r] = "acted" /\ pc[r] \in Working /\ SaveOrGiveUp(r, new, "advance")
  BY DEF RecordAction, Working
<1>2. /\ WellFormed(rec) /\ rec \in SagaRecord /\ rec.status = "running"
      /\ rec.currentStep \in Step /\ rec.currentStep = Done(rec) + 1
      /\ acted[rec.currentStep] > 0
  BY <1>1, OwnCopy, ClaimedStep DEF Advancing, SagaInv, WorkInv
<1>3. /\ done \in Seq(Step) /\ Len(done) = Done(rec) + 1
      /\ \A i \in 1..Len(done) : done[i] = i
  BY <1>2 DEF WellFormed, Done, SagaRecord
<1>4. /\ new \in SagaRecord /\ new.status = "running" /\ new.version = rec.version
      /\ new.lease = 0 /\ new.completedSteps = done
  <2>1. rec \in SagaRecord /\ rec.status = "running" /\ done \in Seq(Step)
    BY <1>2, <1>3
  <2> HIDE DEF rec, done
  <2> QED BY <2>1 DEF SagaRecord
<1> HIDE DEF new, done
<1>5. WellFormed(new) /\ Done(new) = Done(rec) + 1
  BY <1>2, <1>3, <1>4, SagaConstants DEF WellFormed, Done, Step, SagaRecord
<1>6. ASSUME rec = record PROVE SavedWell(new, "advance")
  <2>1. \A s \in 1..Done(new) : acted[s] > 0
    BY <1>1, <1>2, <1>5, <1>6, OwnCopy
  <2> QED BY <1>2, <1>4, <1>5, <1>6, <2>1 DEF SavedWell, Working, Advancing
<1> QED BY <1>1, <1>6, SaveOrGiveUpInv

\* A runner that gives the lease back and changes nothing but the state of the saga.
LEMMA ReleaseInv ==
  ASSUME SagaInv, NEW r \in Runner,
         StartCompensating(r) \/ Complete(r) \/ ReleaseLease(r) \/ Fail(r)
  PROVE  SagaInv'
<1> DEFINE rec == cur[r]
<1>1. /\ pc[r] # "idle" /\ WellFormed(rec) /\ rec \in SagaRecord
      /\ Done(rec) \in 0..StepCount
      /\ rec.status = IF pc[r] \in Advancing THEN "running" ELSE "compensating"
  BY OwnCopy DEF StartCompensating, Complete, ReleaseLease, Fail
<1>2. /\ Complete(r) => Done(rec) = StepCount
      /\ Fail(r) => Done(rec) = 0
  <2>1. ASSUME Complete(r) PROVE Done(rec) = StepCount
    <3>1. Remaining(rec) = (Done(rec) + 1)..StepCount /\ Remaining(rec) = {}
      BY <1>1, <2>1, DoneSteps DEF Complete
    <3> HIDE DEF rec
    <3> QED BY <1>1, <3>1, SagaConstants
  <2>2. ASSUME Fail(r) PROVE Done(rec) = 0
    BY <2>2 DEF Fail, Done
  <2> QED BY <2>1, <2>2
<1>3. pc[r] \in Working \/ ~Live(rec.lease)
  <2>1. Complete(r) \/ Fail(r) => rec.lease = 0
    BY <1>1, <1>2 DEF WellFormed, Complete, Fail, Advancing
  <2>2. ~Live(0)
    BY DEF SagaInv, TypeOK, Live
  <2> QED BY <2>1, <2>2 DEF StartCompensating, ReleaseLease, Working
<1>4. PICK new, next :
        /\ SaveOrGiveUp(r, new, next)
        /\ new \in SagaRecord /\ new.lease = 0 /\ new.version = rec.version
        /\ new.completedSteps = rec.completedSteps
        /\ \/ next = "compensate" /\ new.status = "compensating"
           \/ Complete(r) /\ next = "idle" /\ new.status = "completed"
           \/ ~Complete(r) /\ next = "idle" /\ new.status \in {"compensating", "failed"}
        /\ pc[r] \notin Advancing => next = "idle" /\ new.status \in {"compensating", "failed"}
  <2>1. CASE StartCompensating(r)
    <3> DEFINE new == [rec EXCEPT !.status = "compensating", !.lease = 0]
    <3>1. /\ new \in SagaRecord /\ new.lease = 0 /\ new.version = rec.version
          /\ new.completedSteps = rec.completedSteps /\ new.status = "compensating"
      BY <1>1 DEF SagaRecord, SagaStatus
    <3>2. SaveOrGiveUp(r, new, "compensate") /\ pc[r] \in Advancing
      BY <2>1 DEF StartCompensating, Advancing
    <3> HIDE DEF new
    <3> QED BY <3>1, <3>2
  <2>2. CASE Complete(r)
    <3> DEFINE new == [rec EXCEPT !.status = "completed", !.currentStep = 0, !.lease = 0]
    <3>1. /\ new \in SagaRecord /\ new.lease = 0 /\ new.version = rec.version
          /\ new.completedSteps = rec.completedSteps /\ new.status = "completed"
      <4>1. rec \in SagaRecord /\ "completed" \in SagaStatus /\ 0 \in 0..StepCount
        BY <1>1, SagaConstants DEF SagaStatus
      <4> HIDE DEF rec
      <4> QED BY <4>1 DEF SagaRecord
    <3>2. SaveOrGiveUp(r, new, "idle") /\ pc[r] \in Advancing
      BY <2>2 DEF Complete, Advancing
    <3> HIDE DEF new
    <3> QED BY <2>2, <3>1, <3>2
  <2>3. CASE ReleaseLease(r)
    <3> DEFINE new == [rec EXCEPT !.lease = 0]
    <3>1. pc[r] = "undoFailed" /\ SaveOrGiveUp(r, new, "idle")
      BY <2>3 DEF ReleaseLease
    <3>2. rec.status = "compensating" /\ ~Complete(r)
      BY <1>1, <3>1 DEF Complete, Advancing
    <3>3. /\ new \in SagaRecord /\ new.lease = 0 /\ new.version = rec.version
          /\ new.completedSteps = rec.completedSteps /\ new.status = "compensating"
      BY <1>1, <3>2 DEF SagaRecord
    <3> HIDE DEF new
    <3> QED BY <3>1, <3>2, <3>3
  <2>4. CASE Fail(r)
    <3> DEFINE new == [rec EXCEPT !.status = "failed", !.currentStep = 0, !.lease = 0]
    <3>1. /\ new \in SagaRecord /\ new.lease = 0 /\ new.version = rec.version
          /\ new.completedSteps = rec.completedSteps /\ new.status = "failed"
      <4>1. rec \in SagaRecord /\ "failed" \in SagaStatus /\ 0 \in 0..StepCount
        BY <1>1, SagaConstants DEF SagaStatus
      <4> HIDE DEF rec
      <4> QED BY <4>1 DEF SagaRecord
    <3>2. SaveOrGiveUp(r, new, "idle") /\ ~Complete(r)
      BY <2>4 DEF Fail, Complete
    <3> HIDE DEF new
    <3> QED BY <3>1, <3>2
  <2> QED BY <2>1, <2>2, <2>3, <2>4
<1>5. WellFormed(new) /\ Done(new) = Done(rec)
  BY <1>1, <1>4 DEF WellFormed, Done
<1>6. ASSUME rec = record PROVE SavedWell(new, next)
  <2>1. Complete(r) => \A s \in Step : acted[s] > 0
    <3>1. Complete(r) => rec.status = "running"
      BY <1>1 DEF Complete, Advancing
    <3> QED BY <1>1, <1>2, <1>6, <3>1, OwnCopy DEF Step
  <2>2. Complete(r) => pc[r] \in Advancing
    BY DEF Complete, Advancing
  <2> QED BY <1>1, <1>4, <1>5, <1>6, <2>1, <2>2 DEF SavedWell, Working, Advancing
<1> QED BY <1>1, <1>3, <1>4, <1>6, SaveOrGiveUpInv

\* The steps that remain when the last one has been undone.
LEMMA UndoneSteps ==
  ASSUME SagaInv, NEW r \in Runner, pc[r] = "undone",
         NEW left, left = Without(cur[r].completedSteps, cur[r].currentStep)
  PROVE  /\ left \in Seq(Step) /\ Len(left) = Done(cur[r]) - 1
         /\ \A i \in 1..Len(left) : left[i] = i
<1> DEFINE rec == cur[r]
           n == Done(rec)
<1>1. /\ WellFormed(rec) /\ rec \in SagaRecord /\ n \in 0..StepCount
      /\ rec.currentStep = n /\ n > 0
  BY OwnCopy, ClaimedStep DEF Advancing, Working
<1>2. DOMAIN rec.completedSteps = 1..n /\ \A i \in 1..n : rec.completedSteps[i] = i
  BY <1>1 DEF WellFormed, Done, SagaRecord
<1>3. left = [i \in 1..(n - 1) |-> i]
  BY <1>1, <1>2, WithoutLast
<1>4. \A i \in 1..(n - 1) : i \in Step
  BY <1>1, SagaConstants DEF Step
<1>5. n - 1 \in Nat
  BY <1>1, SagaConstants
<1>6. left \in Seq(Step)
  BY <1>3, <1>4, <1>5
<1>7. Len(left) = n - 1
  BY <1>3, <1>5, <1>6
<1> QED BY <1>3, <1>6, <1>7

LEMMA RecordCompensationInv ==
  ASSUME SagaInv, NEW r \in Runner, RecordCompensation(r)
  PROVE  SagaInv'
<1> DEFINE rec == cur[r]
           left == Without(rec.completedSteps, rec.currentStep)
           new == [rec EXCEPT !.completedSteps = left, !.lease = 0]
<1>1. pc[r] = "undone" /\ pc[r] \in Working /\ SaveOrGiveUp(r, new, "compensate")
  BY DEF RecordCompensation, Working
<1>2. /\ WellFormed(rec) /\ rec \in SagaRecord /\ rec.status = "compensating"
      /\ Done(rec) \in 0..StepCount
  BY <1>1, OwnCopy DEF Advancing
<1>3. left \in Seq(Step) /\ Len(left) = Done(rec) - 1 /\ \A i \in 1..Len(left) : left[i] = i
  BY <1>1, UndoneSteps
<1>4. /\ new \in SagaRecord /\ new.status = "compensating" /\ new.version = rec.version
      /\ new.lease = 0 /\ new.completedSteps = left
  <2>1. rec \in SagaRecord /\ rec.status = "compensating" /\ left \in Seq(Step)
    BY <1>2, <1>3
  <2> HIDE DEF rec, left
  <2> QED BY <2>1 DEF SagaRecord
<1> HIDE DEF new, left
<1>5. WellFormed(new)
  BY <1>2, <1>3, <1>4, SagaConstants DEF WellFormed, Done
<1>6. rec = record => SavedWell(new, "compensate")
  BY <1>2, <1>4, <1>5 DEF SavedWell, Working, Advancing
<1> QED BY <1>1, <1>6, SaveOrGiveUpInv

-----------------------------------------------------------------------------
(* The invariant, and what follows from it.                                *)

LEMMA SagaNextInv ==
  ASSUME SagaInv, [Next]_vars
  PROVE  SagaInv'
<1>1. ASSUME NEW r \in Runner, Stop(r) PROVE SagaInv'
  <2>1. /\ budget' \in [stops : 0..MaxStops, slow : 0..MaxSlow, failures : 0..MaxFailures]
        /\ pc' = [pc EXCEPT ![r] = "idle"]
        /\ UNCHANGED <<record, cur, expiredUpTo, acted, undone>>
    BY <1>1, SagaConstants DEF Stop, SagaInv, TypeOK
  <2> QED BY <2>1, IdleInv
<1>2. CASE UNCHANGED vars
  BY <1>2 DEF vars, SagaInv, TypeOK, RecordInv, ClaimsDiffer, CopyInv, WorkInv, Started, Live
<1>3. ASSUME NEW r \in Runner, Advance(r) PROVE SagaInv'
  BY <1>3, ClaimInv, EffectInv, RecordActionInv, ReleaseInv DEF Advance
<1>4. ASSUME NEW r \in Runner, Compensate(r) PROVE SagaInv'
  BY <1>4, ClaimInv, EffectInv, RecordCompensationInv, ReleaseInv DEF Compensate
<1> QED BY <1>1, <1>2, <1>3, <1>4, RunInv, ResumeInv, ExpiryInv DEF Next

(* What every step of a runner, every resumption and every expiry of a     *)
(* lease preserves, whatever the other runners hold in their hands.        *)
THEOREM SagaInvariant == Spec => []SagaInv
<1>1. Init => SagaInv
  BY SagaInitInv
<1>2. SagaInv /\ [Next]_vars => SagaInv'
  BY SagaNextInv
<1> QED BY <1>1, <1>2, PTL DEF Spec

(* The types of the variables, for the row and for every copy of it.       *)
THEOREM SagaTypes == Spec => []TypeOK
<1>1. SagaInv => TypeOK
  BY DEF SagaInv
<1> QED BY <1>1, SagaInvariant, PTL

(* The recorded steps are the first ones of the order, each once.          *)
THEOREM CompletedInOrder == Spec => []CompletedIsPrefix
<1>1. SagaInv => CompletedIsPrefix
  BY DEF SagaInv, RecordInv, WellFormed, CompletedIsPrefix, Done, SagaRecord
<1> QED BY <1>1, SagaInvariant, PTL

(* Two runners are at work at the same time only if a lease has expired.   *)
THEOREM LeasesExclude == Spec => []LeaseExclusive
<1>1. SagaInv => LeaseExclusive
  BY DEF SagaInv, WorkInv, ClaimsDiffer, LeaseExclusive
<1> QED BY <1>1, SagaInvariant, PTL

(* A completed saga performed every step and undid none.                   *)
THEOREM CompletedIsWhole == Spec => []CompletedNeverUndone
<1>1. SagaInv => CompletedNeverUndone
  BY DEF SagaInv, RecordInv, CompletedNeverUndone
<1> QED BY <1>1, SagaInvariant, PTL

\* Who saves a new version has the record as it is.
LEMMA SaverKnows ==
  ASSUME SagaInv, NEW r \in Runner, pc[r] # "idle", NEW new, NEW next,
         SaveOrGiveUp(r, new, next), record' # record
  PROVE  cur[r] = record /\ record' = [new EXCEPT !.version = @ + 1]
BY DEF SagaInv, CopyInv, SaveOrGiveUp, GiveUp, Outrun

LEMMA StepsStay ==
  ASSUME NEW rec \in SagaRecord, NEW new, DOMAIN new = DOMAIN rec,
         new.completedSteps = rec.completedSteps,
         NEW stored, stored = [new EXCEPT !.version = @ + 1]
  PROVE  stored.completedSteps = rec.completedSteps
BY DEF SagaRecord

\* A step that changes the record of a saga.
LEMMA RecordChanges ==
  ASSUME SagaInv, Next, Started, record' # record
  PROVE  \E r \in Runner :
            /\ pc[r] # "idle" /\ cur[r] = record
            /\ \/ record'.completedSteps = record.completedSteps
               \/ RecordAction(r) \/ RecordCompensation(r)
<1>1. PICK r \in Runner : Advance(r) \/ Compensate(r)
  BY DEF Next, Run, Resume, Stop, LeaseExpires, SlowLeaseExpires
<1> DEFINE rec == cur[r]
<1>2. pc[r] # "idle"
  BY <1>1 DEF Advance, Compensate, ClaimNext, ActionSucceeds, ActionFails, RecordAction,
              StartCompensating, Complete, ClaimLastCompleted, CompensationSucceeds,
              CompensationFails, RecordCompensation, ReleaseLease, Fail
<1>3. rec \in SagaRecord
  BY <1>2, OwnCopy
<1>4. CASE RecordAction(r) \/ RecordCompensation(r)
  BY <1>2, <1>4, SaverKnows DEF RecordAction, RecordCompensation
<1>5. CASE ~(RecordAction(r) \/ RecordCompensation(r))
  <2>1. PICK new, next : /\ SaveOrGiveUp(r, new, next)
                         /\ DOMAIN new = DOMAIN rec
                         /\ new.completedSteps = rec.completedSteps
    <3>1. PICK s, t, u, l, next :
            \/ SaveOrGiveUp(r, ClaimOf(r, s), next)
            \/ SaveOrGiveUp(r, [rec EXCEPT !.status = t, !.lease = l], next)
            \/ SaveOrGiveUp(r, [rec EXCEPT !.status = t, !.currentStep = u, !.lease = l], next)
            \/ SaveOrGiveUp(r, [rec EXCEPT !.lease = l], next)
      BY <1>1, <1>5 DEF Advance, Compensate, ClaimNext, ActionSucceeds, ActionFails,
           StartCompensating, Complete, ClaimLastCompleted, CompensationSucceeds,
           CompensationFails, ReleaseLease, Fail, ClaimStep, GiveUp
    <3> DEFINE claim == [rec EXCEPT !.currentStep = s, !.lease = rec.version + 1]
               turn == [rec EXCEPT !.status = t, !.lease = l]
               end == [rec EXCEPT !.status = t, !.currentStep = u, !.lease = l]
               release == [rec EXCEPT !.lease = l]
    <3>2. ClaimOf(r, s) = claim
      BY DEF ClaimOf
    <3> HIDE DEF rec
    <3>3. DOMAIN claim = DOMAIN rec /\ claim.completedSteps = rec.completedSteps
      BY <1>3 DEF SagaRecord
    <3>4. DOMAIN turn = DOMAIN rec /\ turn.completedSteps = rec.completedSteps
      BY <1>3 DEF SagaRecord
    <3>5. DOMAIN end = DOMAIN rec /\ end.completedSteps = rec.completedSteps
      BY <1>3 DEF SagaRecord
    <3>6. DOMAIN release = DOMAIN rec /\ release.completedSteps = rec.completedSteps
      BY <1>3 DEF SagaRecord
    <3> HIDE DEF claim, turn, end, release
    <3> QED BY <3>1, <3>2, <3>3, <3>4, <3>5, <3>6 DEF turn, end, release
  <2> QED BY <1>2, <1>3, <2>1, SaverKnows, StepsStay
<1> QED BY <1>4, <1>5

(* A finished saga is finished, whatever stale runners save.               *)
THEOREM TerminalStays == Spec => TerminalIsFinal
<1>1. SagaInv /\ [Next]_vars => [Started /\ record.status \in Terminal => record' = record]_vars
  <2> SUFFICES ASSUME SagaInv, Next, Started, record.status \in Terminal, record' # record
               PROVE  FALSE
    OBVIOUS
  <2>1. PICK r \in Runner : pc[r] # "idle" /\ cur[r] = record
    BY RecordChanges
  <2> QED BY <2>1, OwnCopy DEF Terminal
<1> QED BY <1>1, SagaInvariant, PTL DEF Spec, TerminalIsFinal

\* How the list of the stored row changes when a runner records what it did.
LEMMA ActionRecorded ==
  ASSUME SagaInv, NEW r \in Runner, RecordAction(r), cur[r] = record, record' # record
  PROVE  ToSet(record.completedSteps) \subseteq ToSet(record'.completedSteps)
<1> DEFINE done == Append(record.completedSteps, record.currentStep)
           new == [record EXCEPT !.completedSteps = done, !.lease = 0]
<1>1. pc[r] # "idle" /\ SaveOrGiveUp(r, new, "advance")
  BY DEF RecordAction
<1>2. record \in SagaRecord /\ record' = [new EXCEPT !.version = @ + 1]
  BY <1>1, OwnCopy, SaverKnows
<1>3. DOMAIN new = DOMAIN record /\ new.completedSteps = done
  <2> HIDE DEF done
  <2> QED BY <1>2 DEF SagaRecord
<1>4. record'.completedSteps = done
  <2> HIDE DEF done, new
  <2> QED BY <1>2, <1>3 DEF SagaRecord
<1>5. record.completedSteps \in Seq(Step) /\ record.currentStep \in Step
  BY <1>2, ClaimedStep DEF RecordAction, Working, SagaRecord
<1> QED BY <1>4, <1>5 DEF ToSet

LEMMA CompensationRecorded ==
  ASSUME SagaInv, NEW r \in Runner, RecordCompensation(r), cur[r] = record, record' # record
  PROVE  ToSet(record'.completedSteps) = 1..(Done(record) - 1)
<1> DEFINE left == Without(record.completedSteps, record.currentStep)
           new == [record EXCEPT !.completedSteps = left, !.lease = 0]
<1>1. pc[r] = "undone" /\ SaveOrGiveUp(r, new, "compensate")
  BY DEF RecordCompensation
<1>2. record \in SagaRecord /\ record' = [new EXCEPT !.version = @ + 1]
  BY <1>1, OwnCopy, SaverKnows
<1>3. DOMAIN new = DOMAIN record /\ new.completedSteps = left
  <2> HIDE DEF left
  <2> QED BY <1>2 DEF SagaRecord
<1>4. record'.completedSteps = left
  <2> HIDE DEF left, new
  <2> QED BY <1>2, <1>3 DEF SagaRecord
<1>5. left \in Seq(Step) /\ Len(left) = Done(record) - 1 /\ \A i \in 1..Len(left) : left[i] = i
  BY <1>1, UndoneSteps
<1>6. DOMAIN left = 1..(Done(record) - 1)
  <2> HIDE DEF left
  <2> QED BY <1>5
<1> HIDE DEF left
<1> QED BY <1>4, <1>5, <1>6 DEF ToSet

(* A step leaves the record of a saga only after its compensation took     *)
(* effect.                                                                 *)
THEOREM NothingForgotten == Spec => ForgottenOnlyWhenUndone
<1> DEFINE Forgotten ==
        Started => \A s \in ToSet(record.completedSteps) :
                       s \notin ToSet(record'.completedSteps) => undone[s] > 0
<1>1. SagaInv /\ [Next]_vars => [Forgotten]_vars
  <2> SUFFICES ASSUME SagaInv, Next, Started,
                      NEW s \in ToSet(record.completedSteps),
                      s \notin ToSet(record'.completedSteps)
               PROVE  undone[s] > 0
    OBVIOUS
  <2>1. PICK r \in Runner :
            /\ pc[r] # "idle" /\ cur[r] = record
            /\ RecordAction(r) \/ RecordCompensation(r)
    BY RecordChanges
  <2>2. WellFormed(record) /\ ToSet(record.completedSteps) = 1..Done(record)
    BY <2>1, OwnCopy, DoneSteps
  <2>3. record \in SagaRecord /\ Done(record) \in 0..StepCount /\ record' # record
    BY <2>1, OwnCopy
  <2>4. CASE RecordAction(r)
    BY <2>1, <2>3, <2>4, ActionRecorded
  <2>5. CASE RecordCompensation(r)
    <3>1. ToSet(record'.completedSteps) = 1..(Done(record) - 1)
      BY <2>1, <2>3, <2>5, CompensationRecorded
    <3>2. s = Done(record)
      BY <2>2, <2>3, <3>1, SagaConstants
    <3>3. pc[r] = "undone"
      BY <2>5 DEF RecordCompensation
    <3>4. record.currentStep = Done(record) /\ undone[record.currentStep] > 0
      BY <2>1, <3>3, ClaimedStep, OwnCopy DEF Working, Advancing, SagaInv, WorkInv
    <3> QED BY <3>2, <3>4
  <2> QED BY <2>1, <2>4, <2>5
<1> QED BY <1>1, SagaInvariant, PTL DEF Spec, ForgottenOnlyWhenUndone

-----------------------------------------------------------------------------
(* SagaPromise.  A save that changes the row does so in one of six ways,   *)
(* and each is a step of the promise or none.                              *)

LEMMA SavedRecord ==
  ASSUME SagaInv, NEW r \in Runner, pc[r] # "idle", NEW new, new \in SagaRecord, NEW next,
         SaveOrGiveUp(r, new, next), record' # record
  PROVE  /\ cur[r] = record /\ cur' = [cur EXCEPT ![r] = record']
         /\ pc' = [pc EXCEPT ![r] = next]
         /\ record' \in SagaRecord
         /\ record'.status = new.status /\ record'.completedSteps = new.completedSteps
         /\ UNCHANGED <<acted, undone>>
<1>1. /\ cur[r] = record /\ record' = [new EXCEPT !.version = @ + 1]
      /\ cur' = [cur EXCEPT ![r] = record'] /\ pc' = [pc EXCEPT ![r] = next]
      /\ UNCHANGED <<acted, undone>>
  BY SaverKnows DEF SaveOrGiveUp, GiveUp, Continue
<1>2. /\ [new EXCEPT !.version = @ + 1] \in SagaRecord
      /\ [new EXCEPT !.version = @ + 1].status = new.status
      /\ [new EXCEPT !.version = @ + 1].completedSteps = new.completedSteps
  BY DEF SagaRecord
<1> QED BY <1>1, <1>2

\* The ways a save changes the row, with the effects that allow it.
RowChange ==
    LET before == record.status
        after == record'.status
        n == Len(record.completedSteps)
        m == Len(record'.completedSteps)
    IN  /\ record' \in SagaRecord
        /\ \/ after = before /\ m = n
           \/ before = "running" /\ after = "running" /\ m = n + 1 /\ acted[m] > 0
           \/ before = "running" /\ after = "compensating" /\ m = n
           \/ before = "running" /\ after = "completed" /\ m = n /\ n = StepCount
           \/ before = "compensating" /\ after = "compensating" /\ m = n - 1
              /\ undone[n] > 0
           \/ before = "compensating" /\ after = "failed" /\ m = n /\ n = 0

\* What is left to show of a save of new: the change new makes.
LEMMA SaveIsRowChange ==
  ASSUME SagaInv, NEW r \in Runner, pc[r] # "idle", NEW new, new \in SagaRecord, NEW next,
         SaveOrGiveUp(r, new, next), record' # record,
         LET before == cur[r].status
             after == new.status
             n == Done(cur[r])
             m == Done(new)
         IN  \/ after = before /\ m = n
             \/ before = "running" /\ after = "running" /\ m = n + 1 /\ acted[m] > 0
             \/ before = "running" /\ after = "compensating" /\ m = n
             \/ before = "running" /\ after = "completed" /\ m = n /\ n = StepCount
             \/ before = "compensating" /\ after = "compensating" /\ m = n - 1 /\ undone[n] > 0
             \/ before = "compensating" /\ after = "failed" /\ m = n /\ n = 0
  PROVE  RowChange
BY SavedRecord DEF RowChange, Done

LEMMA ClaimChangesRow ==
  ASSUME SagaInv, NEW r \in Runner, ClaimNext(r) \/ ClaimLastCompleted(r), record' # record
  PROVE  RowChange
<1> DEFINE rec == cur[r]
<1>1. /\ pc[r] # "idle" /\ WellFormed(rec) /\ rec \in SagaRecord /\ Done(rec) \in 0..StepCount
  BY OwnCopy DEF ClaimNext, ClaimLastCompleted
<1>2. PICK s, next : s \in 0..StepCount /\ ClaimStep(r, s, next)
  <2>1. CASE ClaimNext(r)
    <3>1. Done(rec) + 1 \in 0..StepCount /\ NextStep(rec) = Done(rec) + 1
      BY <1>1, <2>1, NextStepIs, SagaConstants DEF ClaimNext
    <3> QED BY <2>1, <3>1 DEF ClaimNext
  <2>2. CASE ClaimLastCompleted(r)
    <3>1. Last(rec.completedSteps) = Done(rec)
      BY <1>1, <2>2 DEF ClaimLastCompleted, Last, WellFormed, Done, SagaRecord
    <3> QED BY <1>1, <2>2, <3>1 DEF ClaimLastCompleted
  <2> QED BY <2>1, <2>2
<1> DEFINE new == ClaimOf(r, s)
           l == rec.version + 1
<1>3. SaveOrGiveUp(r, new, next)
  BY <1>2 DEF ClaimStep, GiveUp
<1>4. new \in SagaRecord /\ new.status = rec.status /\ new.completedSteps = rec.completedSteps
  <2>1. /\ l \in Nat /\ rec.status \in SagaStatus /\ rec.completedSteps \in Seq(Step)
        /\ s \in 0..StepCount
    BY <1>1, <1>2 DEF SagaRecord
  <2>2. new = [rec EXCEPT !.currentStep = s, !.lease = l]
    BY DEF ClaimOf
  <2> HIDE DEF new, l, rec
  <2> QED BY <1>1, <2>1, <2>2 DEF SagaRecord
<1> HIDE DEF new
<1> QED BY <1>1, <1>3, <1>4, SaveIsRowChange DEF Done

LEMMA RecordingChangesRow ==
  ASSUME SagaInv, NEW r \in Runner, RecordAction(r) \/ RecordCompensation(r), record' # record
  PROVE  RowChange
<1> DEFINE rec == cur[r]
           act == pc[r] = "acted"
           steps == IF act THEN Append(rec.completedSteps, rec.currentStep)
                    ELSE Without(rec.completedSteps, rec.currentStep)
           next == IF act THEN "advance" ELSE "compensate"
           new == [rec EXCEPT !.completedSteps = steps, !.lease = 0]
<1>1. /\ pc[r] = IF act THEN "acted" ELSE "undone"
      /\ SaveOrGiveUp(r, new, next)
  BY DEF RecordAction, RecordCompensation
<1>2. /\ pc[r] # "idle" /\ pc[r] \in Working /\ WellFormed(rec) /\ rec \in SagaRecord
      /\ rec.status = (IF act THEN "running" ELSE "compensating")
      /\ rec.currentStep \in Step /\ Done(rec) \in 0..StepCount
      /\ rec.currentStep = IF act THEN Done(rec) + 1 ELSE Done(rec)
  BY <1>1, OwnCopy, ClaimedStep DEF Working, Advancing
<1>3. IF act THEN acted[rec.currentStep] > 0 ELSE undone[rec.currentStep] > 0
  BY <1>1, <1>2 DEF SagaInv, WorkInv
<1>4. steps \in Seq(Step) /\ Len(steps) = IF act THEN Done(rec) + 1 ELSE Done(rec) - 1
  <2>1. rec.completedSteps \in Seq(Step)
    BY <1>2 DEF SagaRecord
  <2>2. CASE act
    BY <1>2, <2>1, <2>2 DEF Done
  <2>3. CASE ~act
    BY <1>1, <2>3, UndoneSteps
  <2> QED BY <2>2, <2>3
<1>5. new \in SagaRecord /\ new.status = rec.status /\ new.completedSteps = steps
  <2>1. rec.status \in SagaStatus /\ 0 \in 0..StepCount /\ 0 \in Nat
    BY <1>2, SagaConstants DEF SagaRecord
  <2> HIDE DEF rec, steps
  <2> QED BY <1>2, <1>4, <2>1 DEF SagaRecord
<1>6. Done(new) = Len(steps)
  <2> HIDE DEF new
  <2> QED BY <1>5 DEF Done
<1> HIDE DEF new, steps
<1> QED BY <1>1, <1>2, <1>3, <1>4, <1>5, <1>6, SaveIsRowChange

LEMMA TurnChangesRow ==
  ASSUME SagaInv, NEW r \in Runner, record' # record,
         StartCompensating(r) \/ Complete(r) \/ ReleaseLease(r) \/ Fail(r)
  PROVE  RowChange
<1> DEFINE rec == cur[r]
<1>1. /\ pc[r] # "idle" /\ WellFormed(rec) /\ rec \in SagaRecord /\ Done(rec) \in 0..StepCount
      /\ rec.status = IF pc[r] \in Advancing THEN "running" ELSE "compensating"
  BY OwnCopy DEF StartCompensating, Complete, ReleaseLease, Fail
<1>2. /\ rec.completedSteps \in Seq(Step) /\ rec.status \in SagaStatus
      /\ 0 \in 0..StepCount /\ 0 \in Nat
      /\ {"compensating", "completed", "failed"} \subseteq SagaStatus
  BY <1>1, SagaConstants DEF SagaRecord, SagaStatus
<1>3. CASE StartCompensating(r)
  <2> DEFINE new == [rec EXCEPT !.status = "compensating", !.lease = 0]
  <2>1. rec.status = "running" /\ SaveOrGiveUp(r, new, "compensate")
    BY <1>1, <1>3 DEF StartCompensating, Advancing
  <2>2. /\ new \in SagaRecord /\ new.status = "compensating"
        /\ new.completedSteps = rec.completedSteps
    <3> HIDE DEF rec
    <3> QED BY <1>1, <1>2 DEF SagaRecord
  <2> HIDE DEF new
  <2> QED BY <1>1, <2>1, <2>2, SaveIsRowChange DEF Done
<1>4. CASE Complete(r)
  <2> DEFINE new == [rec EXCEPT !.status = "completed", !.currentStep = 0, !.lease = 0]
  <2>1. /\ rec.status = "running" /\ SaveOrGiveUp(r, new, "idle") /\ Remaining(rec) = {}
    BY <1>1, <1>4 DEF Complete, Advancing
  <2>2. Done(rec) = StepCount
    <3>1. Remaining(rec) = (Done(rec) + 1)..StepCount
      BY <1>1, DoneSteps
    <3> HIDE DEF rec
    <3> QED BY <1>1, <2>1, <3>1, SagaConstants
  <2>3. /\ new \in SagaRecord /\ new.status = "completed"
        /\ new.completedSteps = rec.completedSteps
    <3> HIDE DEF rec
    <3> QED BY <1>1, <1>2 DEF SagaRecord
  <2> HIDE DEF new
  <2> QED BY <1>1, <2>1, <2>2, <2>3, SaveIsRowChange DEF Done
<1>5. CASE ReleaseLease(r)
  <2> DEFINE new == [rec EXCEPT !.lease = 0]
  <2>1. SaveOrGiveUp(r, new, "idle")
    BY <1>5 DEF ReleaseLease
  <2>2. /\ new \in SagaRecord /\ new.status = rec.status
        /\ new.completedSteps = rec.completedSteps
    <3> HIDE DEF rec
    <3> QED BY <1>1, <1>2 DEF SagaRecord
  <2> HIDE DEF new
  <2> QED BY <1>1, <2>1, <2>2, SaveIsRowChange DEF Done
<1>6. CASE Fail(r)
  <2> DEFINE new == [rec EXCEPT !.status = "failed", !.currentStep = 0, !.lease = 0]
  <2>1. /\ rec.status = "compensating" /\ SaveOrGiveUp(r, new, "idle") /\ Done(rec) = 0
    BY <1>1, <1>6 DEF Fail, Advancing, Done
  <2>2. /\ new \in SagaRecord /\ new.status = "failed"
        /\ new.completedSteps = rec.completedSteps
    <3> HIDE DEF rec
    <3> QED BY <1>1, <1>2 DEF SagaRecord
  <2> HIDE DEF new
  <2> QED BY <1>1, <2>1, <2>2, SaveIsRowChange DEF Done
<1> QED BY <1>3, <1>4, <1>5, <1>6

LEMMA RowChanges ==
  ASSUME SagaInv, Next, Started, record' # record
  PROVE  RowChange /\ UNCHANGED <<acted, undone>>
<1>1. PICK r \in Runner : Advance(r) \/ Compensate(r)
  BY DEF Next, Run, Resume, Stop, LeaseExpires, SlowLeaseExpires
<1>2. RowChange
  BY <1>1, ClaimChangesRow, RecordingChangesRow, TurnChangesRow
     DEF Advance, Compensate, ActionSucceeds, ActionFails, CompensationSucceeds, CompensationFails
<1>3. UNCHANGED <<acted, undone>>
  BY <1>1 DEF Advance, Compensate, ClaimNext, ActionSucceeds, ActionFails, RecordAction,
              StartCompensating, Complete, ClaimLastCompleted, CompensationSucceeds,
              CompensationFails, RecordCompensation, ReleaseLease, Fail, ClaimStep,
              SaveOrGiveUp, GiveUp
<1> QED BY <1>2, <1>3

\* After a step a runner at work has the copy it had, or the row itself.
LEMMA CopiesFollow ==
  ASSUME SagaInv, [Next]_vars, NEW q \in Runner, pc'[q] # "idle"
  PROVE  cur'[q] = record' \/ (pc[q] # "idle" /\ cur'[q] = cur[q])
<1>1. pc \in [Runner -> PC] /\ cur \in [Runner -> SagaRecord \cup {None}]
  BY DEF SagaInv, TypeOK
<1>2. CASE UNCHANGED vars
  BY <1>2 DEF vars
<1>3. ASSUME NEW r \in Runner, Run(r) \/ Resume(r)
      PROVE  cur'[q] = record' \/ (pc[q] # "idle" /\ cur'[q] = cur[q])
  BY <1>1, <1>3 DEF Run, Resume, Take
<1>4. ASSUME NEW r \in Runner, Advance(r) \/ Compensate(r)
      PROVE  cur'[q] = record' \/ (pc[q] # "idle" /\ cur'[q] = cur[q])
  <2>1. \/ cur' = cur /\ pc[r] # "idle" /\ \A t \in Runner : t # r => pc'[t] = pc[t]
        \/ \E stored, next : record' = stored /\ Continue(r, stored, next)
    BY <1>1, <1>4
       DEF Advance, Compensate, ClaimNext, ActionSucceeds, ActionFails, RecordAction,
           StartCompensating, Complete, ClaimLastCompleted, CompensationSucceeds,
           CompensationFails, RecordCompensation, ReleaseLease, Fail, ClaimStep,
           SaveOrGiveUp, GiveUp
  <2> QED BY <1>1, <2>1 DEF Continue
<1>5. ASSUME NEW r \in Runner, Stop(r)
      PROVE  cur'[q] = record' \/ (pc[q] # "idle" /\ cur'[q] = cur[q])
  BY <1>1, <1>5 DEF Stop
<1>6. CASE LeaseExpires \/ SlowLeaseExpires
  BY <1>6 DEF LeaseExpires, SlowLeaseExpires
<1> QED BY <1>2, <1>3, <1>4, <1>5, <1>6 DEF Next

\* Which step takes effect, or is undone, at a step of the specification.
LEMMA Effects ==
  ASSUME SagaInv, [Next]_vars
  PROVE  \/ UNCHANGED <<acted, undone>>
         \/ \E r \in Runner :
               /\ record' = record /\ undone' = undone
               /\ pc[r] = "acting"
               /\ \E effect \in {0, 1} :
                      acted' = [acted EXCEPT ![cur[r].currentStep] = @ + effect]
         \/ \E r \in Runner :
               /\ record' = record /\ acted' = acted
               /\ pc[r] = "undoing"
               /\ \E effect \in {0, 1} :
                      undone' = [undone EXCEPT ![cur[r].currentStep] = @ + effect]
<1>1. ASSUME NEW r \in Runner, ActionSucceeds(r) \/ ActionFails(r)
      PROVE  /\ record' = record /\ undone' = undone
             /\ pc[r] = "acting"
             /\ \E effect \in {0, 1} :
                    acted' = [acted EXCEPT ![cur[r].currentStep] = @ + effect]
  BY <1>1 DEF ActionSucceeds, ActionFails
<1>2. ASSUME NEW r \in Runner, CompensationSucceeds(r) \/ CompensationFails(r)
      PROVE  /\ record' = record /\ acted' = acted
             /\ pc[r] = "undoing"
             /\ \E effect \in {0, 1} :
                    undone' = [undone EXCEPT ![cur[r].currentStep] = @ + effect]
  BY <1>2 DEF CompensationSucceeds, CompensationFails
<1>3. ASSUME NEW r \in Runner, Advance(r) \/ Compensate(r),
             ~(ActionSucceeds(r) \/ ActionFails(r)),
             ~(CompensationSucceeds(r) \/ CompensationFails(r))
      PROVE  UNCHANGED <<acted, undone>>
  BY <1>3 DEF Advance, Compensate, ClaimNext, RecordAction, StartCompensating, Complete,
              ClaimLastCompleted, RecordCompensation, ReleaseLease, Fail, ClaimStep,
              SaveOrGiveUp, GiveUp
<1>4. ASSUME NEW r \in Runner, Run(r) \/ Resume(r) \/ Stop(r)
      PROVE  UNCHANGED <<acted, undone>>
  BY <1>4 DEF Run, Resume, Stop
<1>5. CASE LeaseExpires \/ SlowLeaseExpires \/ UNCHANGED vars
  BY <1>5 DEF LeaseExpires, SlowLeaseExpires, vars
<1> QED BY <1>1, <1>2, <1>3, <1>4, <1>5 DEF Next

LEMMA EffectsGrow ==
  ASSUME SagaInv, [Next]_vars
  PROVE  /\ acted \in [Step -> Nat] /\ undone \in [Step -> Nat]
         /\ \A s \in Step : acted'[s] >= acted[s] /\ undone'[s] >= undone[s]
<1>1. acted \in [Step -> Nat] /\ undone \in [Step -> Nat]
  BY DEF SagaInv, TypeOK
<1> QED BY <1>1, Effects

-----------------------------------------------------------------------------
(* What lies behind a copy.  The invariant above says of the row what a    *)
(* runner that saves needs; a runner that lost its lease goes on to act    *)
(* all the same, and what it does keeps to the order because its copy was  *)
(* once the row.                                                           *)

CopyPast(r) ==
    pc[r] # "idle" =>
        /\ \A s \in 1..Done(cur[r]) : acted[s] > 0
        /\ cur[r].status = "running" /\ record.status = "running" =>
                Done(cur[r]) =< Done(record)
        /\ cur[r].status = "running" /\ record.status \in {"compensating", "failed"} =>
                Done(cur[r]) =< Done(record) \/ undone[Done(cur[r])] > 0
        /\ cur[r].status = "compensating" => Done(record) =< Done(cur[r])

PastInv ==
    /\ Started => \A s \in 1..Done(record) : acted[s] > 0
    /\ Started /\ record.status = "completed" => Done(record) = StepCount
    /\ \A r \in Runner : CopyPast(r)

LEMMA FirstRun ==
  ASSUME SagaInv, [Next]_vars, ~Started, vars' # vars
  PROVE  record' = InitialRecord /\ UNCHANGED <<acted, undone>>
<1>1. \A r \in Runner : pc[r] = "idle"
  BY DEF SagaInv, CopyInv
<1>2. PICK r \in Runner : Run(r)
  BY <1>1 DEF Next, Resume, Stop, Advance, Compensate, ClaimNext, ActionSucceeds, ActionFails,
              RecordAction, StartCompensating, Complete, ClaimLastCompleted,
              CompensationSucceeds, CompensationFails, RecordCompensation, ReleaseLease, Fail,
              LeaseExpires, SlowLeaseExpires
<1> QED BY <1>2 DEF Run

\* A saga that has started is never gone again, and its row is well formed.
LEMMA RowsStay ==
  ASSUME SagaInv, SagaInv', [Next]_vars, Started
  PROVE  /\ Started' /\ WellFormed(record) /\ WellFormed(record')
         /\ record = record' \/ RowChange
         /\ Done(record) \in 0..StepCount /\ Done(record') \in 0..StepCount
<1>1. WellFormed(record)
  BY DEF SagaInv, RecordInv
<1>2. Started'
  BY RowChanges, NoneIsNoRecord DEF Started, RowChange, vars
<1> QED BY <1>1, <1>2, RowChanges, DoneSteps DEF SagaInv, RecordInv, vars

LEMMA PastNext ==
  ASSUME SagaInv, SagaInv', PastInv, [Next]_vars
  PROVE  PastInv'
<1>1. /\ acted \in [Step -> Nat]
      /\ \A s \in Step : acted[s] > 0 => acted'[s] > 0
      /\ \A s \in Step : undone[s] > 0 => undone'[s] > 0
  <2>1. Step = Step' /\ acted' \in [Step -> Nat] /\ undone' \in [Step -> Nat]
    BY DEF SagaInv, TypeOK, Step
  <2> QED BY <2>1, EffectsGrow
<1>2. Started' => /\ Done(record') \in 0..StepCount
                  /\ \A s \in 1..Done(record') : acted'[s] > 0
                  /\ record'.status = "completed" => Done(record') = StepCount
  <2>1. CASE ~Started
    <3>1. Started' => record' = InitialRecord
      BY <2>1, FirstRun DEF Started, vars
    <3>2. Done(InitialRecord) = 0 /\ InitialRecord.status = "running"
      BY DEF Done, InitialRecord
    <3> QED BY <3>1, <3>2, SagaConstants
  <2>2. CASE Started
    <3>1. /\ record' = record \/ RowChange
          /\ Done(record) \in 0..StepCount /\ Done(record') \in 0..StepCount
      BY <2>2, RowsStay
    <3>2. 1..Done(record) \subseteq Step /\ 1..Done(record') \subseteq Step
      BY <3>1, SagaConstants DEF Step
    <3>3. \A s \in 1..Done(record) : acted[s] > 0
      BY <2>2 DEF PastInv
    <3>4. \A s \in 1..Done(record') : acted[s] > 0
      BY <3>1, <3>3 DEF RowChange, Done
    <3>5. record'.status = "completed" => Done(record') = StepCount
      BY <2>2, <3>1 DEF PastInv, RowChange, Done
    <3> QED BY <1>1, <3>1, <3>2, <3>4, <3>5
  <2> QED BY <2>1, <2>2
<1>3. ASSUME NEW q \in Runner PROVE CopyPast(q)'
  <2> SUFFICES ASSUME pc'[q] # "idle" PROVE CopyPast(q)'
    BY DEF CopyPast
  <2>1. Started'
    BY DEF SagaInv, CopyInv
  <2>2. CASE cur'[q] = record'
    BY <1>2, <2>1, <2>2 DEF CopyPast
  <2>3. CASE pc[q] # "idle" /\ cur'[q] = cur[q]
    <3>1. /\ Started /\ Done(cur[q]) \in 0..StepCount
          /\ cur[q].status = "compensating" => record.status \in {"compensating", "failed"}
      BY <2>3, OwnCopy DEF SagaInv, CopyInv
    <3>2. /\ record' = record \/ RowChange
          /\ Done(record) \in 0..StepCount /\ Done(record') \in 0..StepCount
      BY <3>1, RowsStay
    <3>3. 1..Done(cur[q]) \subseteq Step
      BY <3>1, SagaConstants DEF Step
    <3>4. CopyPast(q)
      BY DEF PastInv
    <3>5. \A s \in 1..Done(cur'[q]) : acted'[s] > 0
      BY <1>1, <2>3, <3>3, <3>4 DEF CopyPast
    <3>6. cur'[q].status = "running" /\ record'.status = "running" =>
             Done(cur'[q]) =< Done(record')
      BY <2>3, <3>1, <3>2, <3>4 DEF CopyPast, RowChange, Done
    <3>7. cur'[q].status = "compensating" => Done(record') =< Done(cur'[q])
      BY <2>3, <3>1, <3>2, <3>4 DEF CopyPast, RowChange, Done
    <3>8. cur'[q].status = "running" /\ record'.status \in {"compensating", "failed"} =>
             Done(cur'[q]) =< Done(record') \/ undone'[Done(cur'[q])] > 0
      <4> DEFINE d == Done(cur[q])
                 n == Done(record)
                 m == Done(record')
      <4> SUFFICES ASSUME cur[q].status = "running", d > m,
                          record'.status \in {"compensating", "failed"}
                   PROVE  undone'[d] > 0
        BY <2>3, <3>1, <3>2
      <4>1. /\ record.status = "running" => d =< n
            /\ record.status \in {"compensating", "failed"} => d =< n \/ undone[d] > 0
        BY <2>3, <3>4 DEF CopyPast
      <4>2. \/ record.status \in {"compensating", "failed"} /\ m = n
            \/ record.status = "running" /\ m = n
            \/ record.status = "compensating" /\ m = n - 1 /\ undone[n] > 0
        BY <3>2 DEF RowChange, Done
      <4>3. d \in Step
        BY <3>1, <3>2, SagaConstants DEF Step
      <4> HIDE DEF d, n, m
      <4>4. n \in Nat /\ m \in Nat /\ d \in Nat
        BY <3>1, <3>2, SagaConstants DEF d, n, m
      <4>5. undone[d] > 0
        BY <4>1, <4>2, <4>4
      <4> QED BY <1>1, <4>3, <4>5
    <3> QED BY <3>5, <3>6, <3>7, <3>8 DEF CopyPast
  <2> QED BY <2>2, <2>3, CopiesFollow
<1> QED BY <1>2, <1>3 DEF PastInv

\* What the promise sees of a saga.
Seen ==
    /\ ~Started => PromisePhase = "new" /\ DoneCount = 0
    /\ Started =>
         /\ DoneCount = Done(record)
         /\ record.status = "running" => PromisePhase = "forward"
         /\ record.status = "compensating" => PromisePhase = "backward"
         /\ record.status \in Terminal => PromisePhase = record.status

LEMMA AlwaysSeen == Seen /\ Seen'
BY DEF Seen, PromisePhase, DoneCount, Done, Terminal

LEMMA RowKeepsPromise ==
  ASSUME SagaInv, SagaInv', [Next]_vars, Started, UNCHANGED <<acted, undone>>
  PROVE  [P!Next]_(P!promiseVars)
<1> DEFINE effective == {s \in Step : acted[s] > 0}
           reverted == {s \in Step : undone[s] > 0}
<1>1. UNCHANGED <<effective, reverted>>
  OBVIOUS
<1>2. /\ Started'
      /\ record' = record \/ RowChange
      /\ record \in SagaRecord /\ record' \in SagaRecord
      /\ Done(record) \in 0..StepCount /\ Done(record') \in 0..StepCount
  BY RowsStay DEF WellFormed
<1>3. Step = Step' /\ Step = 1..StepCount
  BY DEF Step
<1>4. CASE record' = record
  <2>1. UNCHANGED <<PromisePhase, DoneCount>>
    BY <1>4 DEF PromisePhase, DoneCount, Started
  <2> QED BY <1>1, <2>1 DEF P!promiseVars
<1>5. CASE RowChange
  <2> DEFINE n == Done(record)
             m == Done(record')
             before == record.status
             after == record'.status
  <2>1. /\ before \in SagaStatus /\ after \in SagaStatus
        /\ DoneCount = n /\ DoneCount' = m
        /\ before = "running" => PromisePhase = "forward"
        /\ before = "compensating" => PromisePhase = "backward"
        /\ before \in Terminal => PromisePhase = before
        /\ after = "running" => PromisePhase' = "forward"
        /\ after = "compensating" => PromisePhase' = "backward"
        /\ after \in Terminal => PromisePhase' = after
    <3>1. before \in SagaStatus /\ after \in SagaStatus
      BY <1>2 DEF SagaRecord
    <3>2. Seen /\ Seen'
      BY AlwaysSeen
    <3> QED BY <1>2, <3>1, <3>2 DEF Seen, Terminal, SagaStatus
  <2>2. \/ PromisePhase' = PromisePhase /\ m = n
        \/ PromisePhase = "forward" /\ PromisePhase' = "forward" /\ m = n + 1 /\ acted[m] > 0
        \/ PromisePhase = "forward" /\ PromisePhase' = "backward" /\ m = n
        \/ PromisePhase = "forward" /\ PromisePhase' = "completed" /\ m = n /\ n = StepCount
        \/ PromisePhase = "backward" /\ PromisePhase' = "backward" /\ m = n - 1
           /\ undone[n] > 0
        \/ PromisePhase = "backward" /\ PromisePhase' = "failed" /\ m = n /\ n = 0
    BY <1>5, <2>1 DEF RowChange, Done, Terminal, SagaStatus
  <2> HIDE DEF n, m
  <2>3. CASE PromisePhase' = PromisePhase /\ m = n
    BY <1>1, <2>1, <2>3 DEF P!promiseVars
  <2>4. CASE PromisePhase = "forward" /\ PromisePhase' = "forward" /\ m = n + 1 /\ acted[m] > 0
    <3>1. m \in effective
      BY <1>2, <1>3, <2>4 DEF n, m
    <3> QED BY <1>1, <2>1, <2>4, <3>1 DEF P!CountDone, P!Next
  <2>5. CASE PromisePhase = "forward" /\ PromisePhase' = "backward" /\ m = n
    BY <1>1, <2>1, <2>5 DEF P!TurnBack, P!Next
  <2>6. CASE PromisePhase = "forward" /\ PromisePhase' = "completed" /\ m = n /\ n = StepCount
    BY <1>1, <2>1, <2>6 DEF P!Complete, P!Next
  <2>7. CASE /\ PromisePhase = "backward" /\ PromisePhase' = "backward" /\ m = n - 1
             /\ undone[n] > 0
    <3>1. n \in reverted
      BY <1>2, <1>3, <2>7 DEF n, m
    <3> QED BY <1>1, <2>1, <2>7, <3>1 DEF P!CountUndone, P!Next
  <2>8. CASE PromisePhase = "backward" /\ PromisePhase' = "failed" /\ m = n /\ n = 0
    BY <1>1, <2>1, <2>8 DEF P!Fail, P!Next
  <2> QED BY <2>2, <2>3, <2>4, <2>5, <2>6, <2>7, <2>8
<1> QED BY <1>2, <1>4, <1>5

\* A runner acts on the step after its copy's, or undoes its copy's last one.
LEMMA EffectKeepsPromise ==
  ASSUME SagaInv, PastInv, NEW r \in Runner, pc[r] \in {"acting", "undoing"},
         record' = record, NEW effect \in {0, 1},
         \/ /\ pc[r] = "acting" /\ undone' = undone
            /\ acted' = [acted EXCEPT ![cur[r].currentStep] = @ + effect]
         \/ /\ pc[r] = "undoing" /\ acted' = acted
            /\ undone' = [undone EXCEPT ![cur[r].currentStep] = @ + effect]
  PROVE  [P!Next]_(P!promiseVars)
<1> DEFINE n == Done(cur[r])
           effective == {t \in Step : acted[t] > 0}
           reverted == {t \in Step : undone[t] > 0}
<1>0. PICK s \in Step : s = cur[r].currentStep
  BY ClaimedStep DEF Working
<1>1. /\ Started /\ UNCHANGED <<PromisePhase, DoneCount>>
      /\ n \in 0..StepCount /\ Done(record) \in 0..StepCount
      /\ Done(record) = DoneCount /\ WellFormed(record) /\ record.status \in SagaStatus
  <2>1. Started /\ n \in 0..StepCount
    BY ClaimedStep, OwnCopy DEF Working
  <2>2. UNCHANGED <<PromisePhase, DoneCount>>
    BY DEF PromisePhase, DoneCount, Started
  <2>3. WellFormed(record)
    BY <2>1 DEF SagaInv, RecordInv
  <2>4. Done(record) \in 0..StepCount /\ record.status \in SagaStatus
    BY <2>3, DoneSteps DEF WellFormed, SagaRecord
  <2> QED BY <2>1, <2>2, <2>3, <2>4, AlwaysSeen DEF Seen
<1>2. /\ acted \in [Step -> Nat] /\ undone \in [Step -> Nat]
      /\ Step = Step' /\ Step = P!Step
  BY DEF SagaInv, TypeOK, Step, P!Step
<1>3. CopyPast(r) /\ CopyInv(r)
  BY DEF PastInv, SagaInv
<1>4. CASE pc[r] = "acting"
  <2>1. cur[r].status = "running" /\ s = n + 1
    BY <1>0, <1>3, <1>4, ClaimedStep DEF CopyInv, Working, Advancing
  <2>2. s > 1 => s - 1 \in effective
    BY <1>1, <1>3, <1>4, <2>1, SagaConstants DEF CopyPast, Step
  <2>3. PromisePhase # "new" /\ (s - 1 =< DoneCount \/ s - 1 \in reverted)
    <3>1. /\ record.status = "running" => n =< Done(record)
          /\ record.status = "completed" => Done(record) = StepCount
          /\ record.status \in {"compensating", "failed"} => n =< Done(record) \/ undone[n] > 0
      BY <1>1, <1>3, <1>4, <2>1 DEF CopyPast, PastInv
    <3>2. n =< Done(record) \/ undone[n] > 0
      BY <1>1, <3>1 DEF SagaStatus
    <3>3. n =< Done(record) \/ n \in reverted
      BY <1>1, <3>2, SagaConstants DEF Step
    <3>4. PromisePhase # "new"
      BY <1>1, AlwaysSeen DEF Seen, SagaStatus, Terminal
    <3> QED BY <1>1, <2>1, <3>3, <3>4
  <2>4. CASE effect = 0
    BY <1>0, <1>1, <1>2, <1>4, <2>4 DEF P!promiseVars
  <2>5. CASE effect = 1
    <3>1. effective' = effective \cup {s} /\ reverted' = reverted
      BY <1>0, <1>2, <1>4, <2>5
    <3>2. P!TakeEffect(s)
      BY <1>1, <2>2, <2>3, <3>1 DEF P!TakeEffect
    <3> QED BY <3>2 DEF P!Next, P!Step, Step
  <2> QED BY <2>4, <2>5
<1>5. CASE pc[r] = "undoing"
  <2>1. /\ cur[r].status = "compensating" /\ s = n /\ n > 0
        /\ record.status \in {"compensating", "failed"}
    BY <1>0, <1>3, <1>5, ClaimedStep DEF CopyInv, Working, Advancing
  <2>2. s \in effective /\ s >= DoneCount
    BY <1>1, <1>3, <1>5, <2>1 DEF CopyPast
  <2>3. PromisePhase \in {"backward", "failed"}
    BY <1>1, <2>1, AlwaysSeen DEF Seen, Terminal
  <2>4. CASE effect = 0
    BY <1>0, <1>1, <1>2, <1>5, <2>4 DEF P!promiseVars
  <2>5. CASE effect = 1
    <3>1. reverted' = reverted \cup {s} /\ effective' = effective
      BY <1>0, <1>2, <1>5, <2>5
    <3>2. P!Revert(s)
      BY <1>1, <2>2, <2>3, <3>1 DEF P!Revert
    <3> QED BY <3>2 DEF P!Next, P!Step, Step
  <2> QED BY <2>4, <2>5
<1> QED BY <1>4, <1>5

LEMMA StepKeepsPromise ==
  ASSUME SagaInv, SagaInv', PastInv, [Next]_vars
  PROVE  [P!Next]_(P!promiseVars)
<1>1. CASE ~Started
  <2>1. CASE vars' = vars
    <3>1. UNCHANGED <<record, acted, undone>>
      BY <2>1 DEF vars
    <3>2. UNCHANGED P!promiseVars
      BY <3>1 DEF P!promiseVars, PromisePhase, DoneCount, Started, Step
    <3> QED BY <3>2
  <2>2. CASE vars' # vars
    <3>1. record' = InitialRecord /\ UNCHANGED <<acted, undone>>
      BY <1>1, <2>2, FirstRun
    <3>2. InitialRecord \in SagaRecord /\ InitialRecord.status = "running"
          /\ Done(InitialRecord) = 0
      BY SagaConstants DEF InitialRecord, SagaRecord, SagaStatus, Step, Done
    <3>3. Started'
      BY <3>1, <3>2, NoneIsNoRecord DEF Started
    <3>4. /\ PromisePhase = "new" /\ PromisePhase' = "forward"
          /\ DoneCount = 0 /\ DoneCount' = 0
      BY <1>1, <3>1, <3>2, <3>3, AlwaysSeen DEF Seen
    <3>5. P!Start
      BY <3>1, <3>4 DEF P!Start, Step
    <3> QED BY <3>5 DEF P!Next
  <2> QED BY <2>1, <2>2
<1>2. CASE Started /\ UNCHANGED <<acted, undone>>
  BY <1>2, RowKeepsPromise
<1>3. CASE Started /\ ~UNCHANGED <<acted, undone>>
  BY <1>3, Effects, EffectKeepsPromise
<1> QED BY <1>1, <1>2, <1>3

(* The coordinator keeps the promise: through any races, lost leases,      *)
(* crashes and failures a saga does its steps in order, undoes what it     *)
(* recorded in reverse, and ends whole or with nothing of that left.       *)
THEOREM PromiseKept == Spec => KeepsPromise
<1>1. Init => PastInv
  BY DEF Init, PastInv, CopyPast, Started
<1>2. Init => P!Init
  <2> SUFFICES ASSUME Init PROVE P!Init
    OBVIOUS
  <2>1. PromisePhase = "new" /\ DoneCount = 0
    BY AlwaysSeen DEF Seen, Init, Started
  <2> QED BY <2>1 DEF Init, P!Init
<1>3. SagaInv /\ SagaInv' /\ PastInv /\ [Next]_vars => PastInv'
  BY PastNext
<1>4. SagaInv /\ SagaInv' /\ PastInv /\ [Next]_vars => [P!Next]_(P!promiseVars)
  BY StepKeepsPromise
<1> QED BY <1>1, <1>2, <1>3, <1>4, SagaInvariant, PTL DEF Spec, KeepsPromise, P!Spec

\* What the promise says of the order of the effects: when one has another
\* behind it, it counts as done or it was undone.
EffectsInOrder ==
    \A s, t \in Step : acted[t] > 0 /\ s < t => s =< DoneCount \/ undone[s] > 0

LEMMA OrderNext ==
  ASSUME SagaInv, SagaInv', EffectsInOrder, [Next]_vars, [P!Next]_(P!promiseVars)
  PROVE  EffectsInOrder'
<1> DEFINE effective == {s \in Step : acted[s] > 0}
           reverted == {s \in Step : undone[s] > 0}
           Order == \A s, t \in Step :
                        t \in effective /\ s < t => s =< DoneCount \/ s \in reverted
<1>1. Step' = Step /\ P!Step = Step /\ \A s \in Step : s \in Nat /\ (s > 1 => s - 1 \in Step)
  BY SagaConstants DEF Step, P!Step
<1>2. (EffectsInOrder <=> Order) /\ (EffectsInOrder' <=> Order')
  BY <1>1 DEF EffectsInOrder
<1>3. DoneCount \in Nat
  BY DoneSteps, AlwaysSeen DEF Seen, SagaInv, RecordInv
<1>4. /\ effective \subseteq Step /\ reverted \subseteq Step
      /\ \/ UNCHANGED <<PromisePhase, DoneCount, effective, reverted>>
         \/ P!Start \/ P!CountDone \/ P!Complete \/ P!TurnBack \/ P!CountUndone \/ P!Fail
         \/ \E s \in Step : P!TakeEffect(s) \/ P!Revert(s)
  BY <1>1 DEF P!Next, P!promiseVars
<1>5. CASE \E s \in Step : P!TakeEffect(s)
  <2>1. PICK u \in Step : P!TakeEffect(u)
    BY <1>5
  <2>2. /\ u > 1 => u - 1 \in effective
        /\ u - 1 =< DoneCount \/ u - 1 \in reverted
        /\ effective' = effective \cup {u} /\ UNCHANGED <<DoneCount, reverted>>
    BY <2>1 DEF P!TakeEffect
  <2> HIDE DEF effective, reverted
  <2> QED BY <1>1, <1>2, <1>3, <2>2
<1>6. CASE P!CountUndone
  <2>1. /\ DoneCount \in reverted /\ DoneCount' = DoneCount - 1
        /\ UNCHANGED <<effective, reverted>>
    BY <1>6 DEF P!CountUndone
  <2> HIDE DEF effective, reverted
  <2> QED BY <1>1, <1>2, <1>3, <2>1
<1>7. CASE \E s \in Step : P!Revert(s)
  <2>1. PICK u \in Step : P!Revert(u)
    BY <1>7
  <2>2. reverted' = reverted \cup {u} /\ UNCHANGED <<effective, DoneCount>>
    BY <2>1 DEF P!Revert
  <2> HIDE DEF effective, reverted
  <2> QED BY <1>1, <1>2, <2>2
<1>8. CASE \/ UNCHANGED <<PromisePhase, DoneCount, effective, reverted>>
           \/ P!Start \/ P!CountDone \/ P!Complete \/ P!TurnBack \/ P!Fail
  <2>1. /\ UNCHANGED <<effective, reverted>>
        /\ DoneCount' = DoneCount \/ DoneCount' = DoneCount + 1
    BY <1>8 DEF P!Start, P!CountDone, P!Complete, P!TurnBack, P!Fail
  <2>2. \A s \in Step : s =< DoneCount => s =< DoneCount'
    BY <1>1, <1>3, <2>1
  <2> HIDE DEF effective, reverted
  <2> QED BY <1>1, <1>2, <2>1, <2>2
<1> QED BY <1>4, <1>5, <1>6, <1>7, <1>8

(* At most one effect escapes, however actions throw after they took       *)
(* effect and however late runners act that lost their lease: it is the    *)
(* last one, for nothing is built on an effect that is neither recorded    *)
(* nor compensated.                                                        *)
THEOREM EscapesBounded == Spec => []OneEffectEscapes
<1>1. Init => PastInv /\ EffectsInOrder
  BY DEF Init, PastInv, CopyPast, Started, EffectsInOrder
<1>2. SagaInv /\ SagaInv' /\ PastInv /\ EffectsInOrder /\ [Next]_vars
        => PastInv' /\ EffectsInOrder'
  BY PastNext, StepKeepsPromise, OrderNext
<1>3. SagaInv /\ EffectsInOrder => OneEffectEscapes
  <2> SUFFICES ASSUME SagaInv, EffectsInOrder, Started,
                      NEW s \in Step, s \notin ToSet(record.completedSteps),
                      acted[s] > 0, undone[s] = 0,
                      NEW t \in Step, t > s
               PROVE  acted[t] = 0
    BY DEF OneEffectEscapes
  <2>1. ToSet(record.completedSteps) = 1..Done(record) /\ Done(record) \in 0..StepCount
    BY DoneSteps DEF SagaInv, RecordInv
  <2>2. Done(record) = DoneCount
    BY AlwaysSeen DEF Seen
  <2>3. ~(s =< DoneCount)
    BY <2>1, <2>2, SagaConstants DEF Step
  <2>4. acted[t] \in Nat
    BY DEF SagaInv, TypeOK
  <2> QED BY <2>3, <2>4 DEF EffectsInOrder, Step
<1> QED BY <1>1, <1>2, <1>3, SagaInvariant, PTL DEF Spec
=============================================================================
