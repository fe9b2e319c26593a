------------------------------- MODULE Arbiters -------------------------------
(***************************************************************************)
(* The dispute over one escrow in the memory of the payments service:      *)
(* arbiters sign, and the signature that reaches the threshold submits the *)
(* resolution to the wallet service (payments/src/index.ts).  The map of   *)
(* disputes lives and dies with the process; this is one life of it.       *)
(*                                                                         *)
(* The wallet service is external: it may carry a submission out and still *)
(* have its answer lost.                                                   *)
(***************************************************************************)
EXTENDS Integers, FiniteSets, Sequences

CONSTANTS Arbiter, Threshold    \* Threshold is ARBITER_THRESHOLD

ASSUME ArbitersConstants == Threshold \in Nat \ {0}

VARIABLES
    disputeStatus,      \* "none", "collecting", "threshold_met", "submitted", "resolved"
    disputeSignatures,  \* who has signed
    submitter,          \* whose signature is being submitted, a set of at most one
    submissions         \* observation only: what was submitted, [signers, answer]

arbiterVars == <<disputeStatus, disputeSignatures, submitter, submissions>>

ArbitersInit ==
    /\ disputeStatus = "none" /\ disputeSignatures = {}
    /\ submitter = {} /\ submissions = <<>>

\* Every other signature is refused: it is the arbiter's second, or it is too late.
MaySign(arbiter) ==
    /\ arbiter \notin disputeSignatures
    /\ disputeStatus \notin {"submitted", "resolved"}

\* Faulty variant: a signature that comes during a submission is taken as well.
CollectDuringSubmission(arbiter) ==
    LET signed == disputeSignatures \cup {arbiter}
        full   == Cardinality(signed) >= Threshold
    IN  /\ arbiter \notin disputeSignatures /\ disputeStatus # "resolved"
        /\ disputeSignatures' = signed
        /\ disputeStatus' = IF full THEN "submitted" ELSE "collecting"
        /\ submitter' = IF full THEN submitter \cup {arbiter} ELSE submitter
        /\ submissions' = IF full THEN Append(submissions, [signers |-> signed, answer |-> "none"])
                          ELSE submissions

\* collectArbiterSignature up to its first await.  The one that reaches the
\* threshold goes on to submitDisputeResolution, "submitted" before it calls.
CollectArbiterSignature(arbiter) ==
    LET signed == disputeSignatures \cup {arbiter}
        full   == Cardinality(signed) >= Threshold
    IN  /\ MaySign(arbiter)
        /\ disputeSignatures' = signed
        /\ disputeStatus' = IF full THEN "submitted" ELSE "collecting"
        /\ submitter' = IF full THEN submitter \cup {arbiter} ELSE submitter
        /\ submissions' = IF full THEN Append(submissions, [signers |-> signed, answer |-> "none"])
                          ELSE submissions

\* The wallet service answers well, or the call fails; then the dispute waits for
\* an arbiter who has not signed yet, and nobody else can submit it again.
SubmissionAnswered(arbiter, answer) ==
    /\ arbiter \in submitter
    /\ submitter' = submitter \ {arbiter}
    /\ disputeStatus' = IF answer = "ok" THEN "resolved" ELSE "threshold_met"
    /\ submissions' = [submissions EXCEPT ![Len(submissions)].answer = answer]
    /\ UNCHANGED disputeSignatures

ArbitersNext ==
    \E arbiter \in Arbiter :
        \/ CollectArbiterSignature(arbiter)
        \/ \E answer \in {"ok", "failed"} : SubmissionAnswered(arbiter, answer)

ArbitersSpec == ArbitersInit /\ [][ArbitersNext]_arbiterVars

\* However signatures and answers interleave, every submission carries a quorum,
\* one is made only after the one before it failed and with a new signature, and
\* none follows a resolution.
ResolvedOnce ==
    /\ \A i \in 1..Len(submissions) :
        /\ Cardinality(submissions[i].signers) >= Threshold
        /\ i > 1 => /\ submissions[i-1].answer = "failed"
                    /\ submissions[i-1].signers \subseteq submissions[i].signers
                    /\ submissions[i-1].signers # submissions[i].signers
    /\ Cardinality(submitter) =< 1

\* payments/src/index.ts says where a submission failed: "Revert to threshold_met so
\* callers can retry".  A dispute that was brought back so must be one that some
\* arbiter can have submitted again.
CallersCanRetry ==
    disputeStatus = "threshold_met" => \E arbiter \in Arbiter : MaySign(arbiter)
================================================================================
