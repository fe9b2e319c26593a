---------------------------- MODULE DelegationRows ----------------------------
(***************************************************************************)
(* One delegation in the database of the gateway, with the policy and the  *)
(* spending limit that belong to it (gateway/routes/delegations.ts).       *)
(*                                                                         *)
(* A transaction of the database shows nothing before it commits.  It runs *)
(* at READ COMMITTED, so it reads what was committed before each of its    *)
(* statements, and a row it has written is locked until it commits.        *)
(* Sequelize writes a column only when its value differs from the one it   *)
(* read, and no row of which nothing differs.  What an update writes is    *)
(* fixed when it reads, so that its writes can all be made as it commits.  *)
(***************************************************************************)

CONSTANTS
    DelegationCall, \* requests that arrive at the handlers
    Bodies,         \* bodies of requests tried: each field Absent or with a value
    Absent          \* a field that is not given, a row that is not there

\* The status and the expiry are columns of delegations, the merchants (as the
\* categories) of its policy, the maximum (as that of a transaction) of its limit.
Field == {"status", "expiresAt", "merchants", "maxTotal"}
FieldValue == {"active", "revoked", Absent} \cup {body[f] : body \in Bodies, f \in Field}

ASSUME DelegationRowsConstants ==
    Bodies \subseteq [Field -> FieldValue] /\ Absent \notin [Field -> FieldValue]

VARIABLES
    delegation,     \* the row of delegations with its policy and its limit
    rowLock,        \* the transaction that has written the row of delegations
    delegationPc,   \* where each call is
    readRow,        \* the values as each call read them
    askedFor,       \* the body of each call
    requested,      \* observation only: the last value committed calls asked for
    passed,         \* observation only: the fields that calls have named which
                    \* committed since each call read them
    overtaken       \* observation only: the fields whose last request was passed

delegationVars == <<delegation, rowLock, delegationPc, readRow, askedFor,
                    requested, passed, overtaken>>

DelegationsInit ==
    /\ delegation = Absent /\ rowLock = Absent
    /\ delegationPc = [c \in DelegationCall |-> "new"]
    /\ readRow = [c \in DelegationCall |-> Absent]
    /\ askedFor = [c \in DelegationCall |-> Absent]
    /\ requested = Absent
    /\ passed = [c \in DelegationCall |-> {}] /\ overtaken = {}

DelegationGoto(c, place) == delegationPc' = [delegationPc EXCEPT ![c] = place]
Updating(c) == delegationPc[c] \in {"writing", "comparing", "committing"}
Named(c) == {f \in Field : askedFor[c][f] # Absent}

\* No user, a body against the schema, somebody else's wallet or delegation, or
\* one that is not there.
RefuseDelegationCall(c) ==
    /\ delegationPc[c] = "new"
    /\ DelegationGoto(c, "refused")
    /\ UNCHANGED <<delegation, rowLock, readRow, askedFor, requested, passed, overtaken>>

\* createDelegationHandler: four rows or none.
CreateDelegation(c) ==
    /\ delegationPc[c] = "new" /\ delegation = Absent
    /\ \E body \in Bodies : delegation' = [body EXCEPT !["status"] = "active"]
    /\ requested' = delegation'
    /\ DelegationGoto(c, "answered")
    /\ UNCHANGED <<rowLock, readRow, askedFor, passed, overtaken>>

\* updateDelegationHandler checks the owner, and its transaction reads the row.
ReadForUpdate(c, body) ==
    /\ delegationPc[c] = "new" /\ delegation # Absent
    /\ DelegationGoto(c, "writing")
    /\ readRow' = [readRow EXCEPT ![c] = delegation]
    /\ askedFor' = [askedFor EXCEPT ![c] = body]
    /\ UNCHANGED <<delegation, rowLock, requested, passed, overtaken>>

\* revokeDelegationHandler reads the row and updates its status; the limits stay.
ReadForRevoke(c) ==
    ReadForUpdate(c, [f \in Field |-> IF f = "status" THEN "revoked" ELSE Absent])

\* Faulty variant: the policy column is replaced by what the body says of it.
WritesReplacedPolicy(c, f) ==
    \/ f = "expiresAt" /\ Named(c) \cap {"expiresAt", "merchants", "maxTotal"} # {}
    \/ /\ f \in Named(c)
       /\ f # "maxTotal" => askedFor[c][f] # readRow[c][f]

\* A maximum is read as a string and asked for as a number, and always differs.
Writes(c, f) ==
    /\ f \in Named(c)
    /\ f # "maxTotal" => askedFor[c][f] # readRow[c][f]

\* The UPDATE of delegations waits for the transaction that has the row, and has it
\* until it commits; there is none when neither the status nor the policy differs.
\* The merchants are read again, in their own table, when the body names some.
WriteRow(c) ==
    /\ delegationPc[c] = "writing"
    /\ IF Writes(c, "status") \/ Writes(c, "expiresAt")
       THEN rowLock = Absent /\ rowLock' = c
       ELSE UNCHANGED rowLock
    /\ DelegationGoto(c, IF "merchants" \in Named(c) THEN "comparing" ELSE "committing")
    /\ UNCHANGED <<delegation, readRow, askedFor, requested, passed, overtaken>>

ReadMerchants(c) ==
    /\ delegationPc[c] = "comparing"
    /\ readRow' = [readRow EXCEPT ![c]["merchants"] = delegation["merchants"]]
    /\ passed' = [passed EXCEPT ![c] = @ \ {"merchants"}]
    /\ DelegationGoto(c, "committing")
    /\ UNCHANGED <<delegation, rowLock, askedFor, requested, overtaken>>

EndTransaction(c, place) ==
    /\ rowLock' = IF rowLock = c THEN Absent ELSE rowLock
    /\ readRow' = [readRow EXCEPT ![c] = Absent]
    /\ askedFor' = [askedFor EXCEPT ![c] = Absent]
    /\ DelegationGoto(c, place)

CommitUpdate(c) ==
    /\ delegationPc[c] = "committing"
    /\ delegation' = [f \in Field |-> IF Writes(c, f) THEN askedFor[c][f] ELSE delegation[f]]
    /\ requested' = [f \in Field |-> IF f \in Named(c) THEN askedFor[c][f] ELSE requested[f]]
    /\ passed' = [d \in DelegationCall |->
            IF d # c /\ Updating(d) THEN passed[d] \cup Named(c) ELSE {}]
    /\ overtaken' = (overtaken \ Named(c)) \cup (Named(c) \cap passed[c])
    /\ EndTransaction(c, "answered")

\* The database fails, and the transaction is rolled back.
RollBackUpdate(c) ==
    /\ Updating(c)
    /\ EndTransaction(c, "failed")
    /\ passed' = [passed EXCEPT ![c] = {}]
    /\ UNCHANGED <<delegation, requested, overtaken>>

DelegationsNext ==
    \E c \in DelegationCall :
        \/ RefuseDelegationCall(c) \/ CreateDelegation(c) \/ ReadForRevoke(c)
        \/ \E body \in Bodies : ReadForUpdate(c, body)
        \/ WriteRow(c) \/ ReadMerchants(c) \/ CommitUpdate(c) \/ RollBackUpdate(c)

\* Each field of a delegation is as the last request that named it wanted it, and a
\* request that does not name a field leaves it alone, however long ago it read it
\* (updateDelegationHandler, revokeDelegationHandler).  Only a request that was
\* passed by another naming the same field may be lost although it came last: one
\* that asked for the value it had read is not written.  The maximum, which is
\* written without comparing, is never lost.
LastRequestWins ==
    delegation # Absent =>
        \A f \in Field : f = "maxTotal" \/ f \notin overtaken => delegation[f] = requested[f]
================================================================================
