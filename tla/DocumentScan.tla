----------------------------- MODULE DocumentScan -----------------------------
(***************************************************************************)
(* The secure document pipeline: documents.documents and its scan jobs, the *)
(* operations of SecureDocumentService, and the DocumentScanWorker          *)
(* processes that lease jobs, have the objects scanned and record verdicts. *)
(*                                                                          *)
(* A document has at most one scan job, so the job's columns are functions  *)
(* of the document.  Of the timestamps only what a claim compares is kept:  *)
(* due (next_attempt_at has passed) and expired (lease_expires_at has).     *)
(* The operations of the service and the records of a worker are database   *)
(* transactions that decide on rows they lock, hence one step each; a       *)
(* worker waits for storage and scanner outside of any transaction.         *)
(***************************************************************************)
EXTENDS Naturals, FiniteSets

CONSTANTS
    Documents, NoDocument,
    Workers,       \* the processes that run a DocumentScanWorker
    Identity,      \* [Workers -> workerId]; the default is the same for all
    NoOwner,       \* lease_owner IS NULL
    BatchSize, MaxAttempts,
    MaxCrashes,    \* bound: processes that die, or calls of theirs that fail
    MaxOverruns    \* bound: leases that end while a process has the job in hand

Owners == {Identity[w] : w \in Workers}

ASSUME SetsAssumption ==
    /\ NoDocument \notin Documents
    /\ NoOwner \notin Owners

ASSUME NumbersAssumption ==
    /\ BatchSize \in Nat \ {0}
    /\ MaxAttempts \in Nat \ {0}
    /\ MaxCrashes \in Nat
    /\ MaxOverruns \in Nat

VARIABLES
    docStatus,     \* documents.status, "absent" before the upload intent
    verdict,       \* documents.scan_status
    prior,         \* prior_document_id
    supersededBy,  \* superseded_by_document_id
    jobStatus,     \* scan_jobs.status, "absent" before finalization
    result,        \* scan_jobs.result_code of a job that SUCCEEDED
    attempts,      \* attempt_count
    due, expired,
    owner,         \* lease_owner
    pc,            \* where each process is in runOnce()
    held,          \* claimed jobs it has still to take
    cur,           \* the job it is on
    finding,       \* how its scan of the current document ended
    cleared,       \* history: documents the scanner found clean
    crashes, overruns

docVars == <<docStatus, verdict, prior, supersededBy>>
jobVars == <<jobStatus, result, attempts, due, expired, owner>>
workerVars == <<pc, held, cur, finding>>
historyVars == <<cleared, crashes, overruns>>
vars == <<docStatus, verdict, prior, supersededBy, jobStatus, result, attempts,
          due, expired, owner, pc, held, cur, finding, cleared, crashes, overruns>>

\* "gone": the document had left quarantine when it was read (also when no scan
\* is in hand).  "retry": storage
\* or scanner unavailable, malformed or retryable result.  "permanent": the
\* object is not the finalized one, or the scanner gave up on it.
Findings == {"gone", "retry", "permanent", "CLEAN", "INFECTED"}

DocTypes ==
    /\ docStatus \in [Documents -> {"absent", "UPLOAD_PENDING", "QUARANTINED",
                                    "ACTIVE", "REJECTED", "SUPERSEDED", "WITHDRAWN"}]
    /\ verdict \in [Documents -> {"NOT_REQUESTED", "PENDING", "CLEAN", "INFECTED",
                                  "FAILED"}]
    /\ prior \in [Documents -> Documents \cup {NoDocument}]
    /\ supersededBy \in [Documents -> Documents \cup {NoDocument}]

JobTypes ==
    /\ jobStatus \in [Documents -> {"absent", "PENDING", "LEASED", "SUCCEEDED",
                                    "FAILED_RETRYABLE", "DEAD_LETTER"}]
    /\ result \in [Documents -> {"none", "CLEAN", "INFECTED"}]
    /\ attempts \in [Documents -> 0 .. MaxAttempts]
    /\ due \in [Documents -> BOOLEAN]
    /\ expired \in [Documents -> BOOLEAN]
    /\ owner \in [Documents -> Owners \cup {NoOwner}]

WorkerTypes ==
    /\ pc \in [Workers -> {"idle", "loop", "scanning", "recording"}]
    /\ held \in [Workers -> SUBSET Documents]
    /\ cur \in [Workers -> Documents \cup {NoDocument}]
    /\ finding \in [Workers -> Findings]

TypeOK ==
    /\ DocTypes
    /\ JobTypes
    /\ WorkerTypes
    /\ cleared \subseteq Documents
    /\ crashes \in 0 .. MaxCrashes
    /\ overruns \in 0 .. MaxOverruns

Init ==
    /\ docStatus = [d \in Documents |-> "absent"]
    /\ verdict = [d \in Documents |-> "NOT_REQUESTED"]
    /\ prior = [d \in Documents |-> NoDocument]
    /\ supersededBy = [d \in Documents |-> NoDocument]
    /\ jobStatus = [d \in Documents |-> "absent"]
    /\ result = [d \in Documents |-> "none"]
    /\ attempts = [d \in Documents |-> 0]
    /\ due = [d \in Documents |-> FALSE]
    /\ expired = [d \in Documents |-> FALSE]
    /\ owner = [d \in Documents |-> NoOwner]
    /\ pc = [w \in Workers |-> "idle"]
    /\ held = [w \in Workers |-> {}]
    /\ cur = [w \in Workers |-> NoDocument]
    /\ finding = [w \in Workers |-> "gone"]
    /\ cleared = {}
    /\ crashes = 0
    /\ overruns = 0

-------------------------------------------------------------------------------
(* SecureDocumentService. *)

\* initiateDocumentUpload, or createReplacementDocument of document p, which is
\* read ACTIVE and not locked: a supersession or withdrawal of p that commits
\* before the insert is ordered after it here, since neither reads d.
Initiate(d, p) ==
    /\ docStatus[d] = "absent"
    /\ p # NoDocument => docStatus[p] = "ACTIVE"
    /\ docStatus' = [docStatus EXCEPT ![d] = "UPLOAD_PENDING"]
    /\ prior' = [prior EXCEPT ![d] = p]
    /\ UNCHANGED <<verdict, supersededBy, jobVars, workerVars, historyVars>>

\* The stored object matched the intent.  The scan job is created with it; a
\* repeated finalization returns the document and changes nothing.
Finalize(d) ==
    /\ docStatus[d] = "UPLOAD_PENDING"
    /\ docStatus' = [docStatus EXCEPT ![d] = "QUARANTINED"]
    /\ verdict' = [verdict EXCEPT ![d] = "PENDING"]
    /\ jobStatus' = [jobStatus EXCEPT ![d] = "PENDING"]
    /\ due' = [due EXCEPT ![d] = TRUE]
    /\ UNCHANGED <<prior, supersededBy, result, attempts, expired, owner,
                   workerVars, historyVars>>

\* Mutant of Replaces: the state of the replacement is not looked at.
AnyLaterVersion(r, d) == prior[r] = d

\* The replacement belongs to the lineage and is ACTIVE in the statement's
\* snapshot.  It is not locked: a withdrawal of r that commits during the
\* statement is ordered after it, since it does not read d.
Replaces(r, d) == prior[r] = d /\ docStatus[r] = "ACTIVE"

Supersede(d, r) ==
    /\ docStatus[d] = "ACTIVE"
    /\ Replaces(r, d)
    /\ docStatus' = [docStatus EXCEPT ![d] = "SUPERSEDED"]
    /\ supersededBy' = [supersededBy EXCEPT ![d] = r]
    /\ UNCHANGED <<verdict, prior, jobVars, workerVars, historyVars>>

\* In any state, a running scan included; the scan job is not told.
Withdraw(d) ==
    /\ docStatus[d] \notin {"absent", "WITHDRAWN", "SUPERSEDED"}
    /\ docStatus' = [docStatus EXCEPT ![d] = "WITHDRAWN"]
    /\ UNCHANGED <<verdict, prior, supersededBy, jobVars, workerVars, historyVars>>

\* Mutant of RetryScan: attempt_count is kept.
RetryKeepingCount(d) ==
    /\ jobStatus[d] = "DEAD_LETTER"
    /\ jobStatus' = [jobStatus EXCEPT ![d] = "PENDING"]
    /\ due' = [due EXCEPT ![d] = TRUE]
    /\ UNCHANGED <<docVars, result, attempts, expired, owner, workerVars, historyVars>>

\* retryDocumentScan: the state of the document is not looked at.
RetryScan(d) ==
    /\ jobStatus[d] = "DEAD_LETTER"
    /\ jobStatus' = [jobStatus EXCEPT ![d] = "PENDING"]
    /\ attempts' = [attempts EXCEPT ![d] = 0]
    /\ due' = [due EXCEPT ![d] = TRUE]
    /\ UNCHANGED <<docVars, result, expired, owner, workerVars, historyVars>>

-------------------------------------------------------------------------------
(* runOnce() of process w. *)

Waiting == {d \in Documents : jobStatus[d] \in {"PENDING", "FAILED_RETRYABLE"}}

\* Mutant of Claimable: a stale lease is never reclaimed.
OnlyWaiting == {d \in Waiting : due[d]}

Claimable == {d \in Documents : \/ d \in Waiting /\ due[d]
                                \/ jobStatus[d] = "LEASED" /\ expired[d]}

\* LIMIT takes what there is, in any order.
Batches == {S \in SUBSET Claimable :
              /\ S # {}
              /\ Cardinality(S) <= BatchSize
              /\ S # Claimable => Cardinality(S) = BatchSize}

Claim(w) ==
    /\ pc[w] = "idle"
    /\ \E S \in Batches :
         /\ jobStatus' = [d \in Documents |-> IF d \in S THEN "LEASED" ELSE jobStatus[d]]
         /\ owner' = [d \in Documents |-> IF d \in S THEN Identity[w] ELSE owner[d]]
         /\ expired' = [d \in Documents |-> IF d \in S THEN FALSE ELSE expired[d]]
         /\ held' = [held EXCEPT ![w] = S]
    /\ pc' = [pc EXCEPT ![w] = "loop"]
    /\ UNCHANGED <<docVars, result, attempts, due, cur, finding, historyVars>>

\* The document is read when its turn comes, whoever owns the lease by then.
TakeNext(w) ==
    /\ pc[w] = "loop"
    /\ \E d \in held[w] :
         /\ cur' = [cur EXCEPT ![w] = d]
         /\ held' = [held EXCEPT ![w] = @ \ {d}]
         /\ IF docStatus[d] = "QUARANTINED"
              THEN pc' = [pc EXCEPT ![w] = "scanning"]
              ELSE pc' = [pc EXCEPT ![w] = "recording"]
    /\ UNCHANGED <<docVars, jobVars, finding, historyVars>>

\* Storage evidence and scanner answer.
ScanEnds(w) ==
    /\ pc[w] = "scanning"
    /\ \E f \in Findings \ {"gone"} :
         /\ finding' = [finding EXCEPT ![w] = f]
         /\ cleared' = IF f = "CLEAN" THEN cleared \cup {cur[w]} ELSE cleared
    /\ pc' = [pc EXCEPT ![w] = "recording"]
    /\ UNCHANGED <<docVars, jobVars, held, cur, crashes, overruns>>

Owns(w) == jobStatus[cur[w]] = "LEASED" /\ owner[cur[w]] = Identity[w]

\* Mutant of MayDecide: the locked document is not compared.
OwnsJob(w) == Owns(w)

\* The document must still be in quarantine for a verdict, under its lock.
MayDecide(w) == Owns(w) /\ docStatus[cur[w]] = "QUARANTINED"

FreeLease(d) ==
    /\ owner' = [owner EXCEPT ![d] = NoOwner]
    /\ expired' = [expired EXCEPT ![d] = FALSE]

NextIteration(w) ==
    /\ pc' = [pc EXCEPT ![w] = IF held[w] = {} THEN "idle" ELSE "loop"]
    /\ cur' = [cur EXCEPT ![w] = NoDocument]
    /\ finding' = [finding EXCEPT ![w] = "gone"]
    /\ UNCHANGED <<held, historyVars>>

\* An exception leaves runOnce(): the rest of the batch stays leased.
AbandonBatch(w) ==
    /\ pc' = [pc EXCEPT ![w] = "idle"]
    /\ cur' = [cur EXCEPT ![w] = NoDocument]
    /\ held' = [held EXCEPT ![w] = {}]
    /\ finding' = [finding EXCEPT ![w] = "gone"]

\* markRetryableFailure; the retry time is counted from before the scan, so the
\* job may be due at once.
RecordRetry(w) ==
    LET d == cur[w]
        dead == attempts[d] + 1 >= MaxAttempts
    IN /\ pc[w] = "recording"
       /\ finding[w] = "retry"
       /\ Owns(w)
       /\ attempts' = [attempts EXCEPT ![d] = @ + 1]
       /\ jobStatus' = [jobStatus EXCEPT ![d] =
                          IF dead THEN "DEAD_LETTER" ELSE "FAILED_RETRYABLE"]
       /\ \E now \in BOOLEAN : due' = [due EXCEPT ![d] = dead \/ now]
       /\ FreeLease(d)
       /\ NextIteration(w)
       /\ UNCHANGED <<docVars, result>>

MarkPermanentFailure(d) ==
    /\ attempts' = [attempts EXCEPT ![d] = @ + 1]
    /\ jobStatus' = [jobStatus EXCEPT ![d] = "DEAD_LETTER"]
    /\ FreeLease(d)
    /\ UNCHANGED <<result, due>>

\* The document leaves quarantine, released or rejected.
Conclude(d, outcome) ==
    /\ docStatus' = [docStatus EXCEPT ![d] =
                       IF outcome = "CLEAN" THEN "ACTIVE" ELSE "REJECTED"]
    /\ verdict' = [verdict EXCEPT ![d] = outcome]
    /\ UNCHANGED <<prior, supersededBy>>

\* Nothing to scan: only the job is closed.
RecordGone(w) ==
    /\ pc[w] = "recording"
    /\ finding[w] = "gone"
    /\ Owns(w)
    /\ MarkPermanentFailure(cur[w])
    /\ NextIteration(w)
    /\ UNCHANGED docVars

RecordRejection(w) ==
    /\ pc[w] = "recording"
    /\ finding[w] = "permanent"
    /\ MayDecide(w)
    /\ Conclude(cur[w], "FAILED")
    /\ MarkPermanentFailure(cur[w])
    /\ NextIteration(w)

\* Mutant of RecordVerdict: the release does not wait for the job's record.
UncoupledVerdict(w) ==
    LET d == cur[w]
    IN /\ pc[w] = "recording"
       /\ finding[w] \in {"CLEAN", "INFECTED"}
       /\ docStatus[d] = "QUARANTINED"
       /\ Conclude(d, finding[w])
       /\ IF Owns(w)
            THEN /\ jobStatus' = [jobStatus EXCEPT ![d] = "SUCCEEDED"]
                 /\ result' = [result EXCEPT ![d] = finding[w]]
                 /\ FreeLease(d)
            ELSE UNCHANGED <<jobStatus, result, owner, expired>>
       /\ NextIteration(w)
       /\ UNCHANGED <<attempts, due>>

\* Release or rejection of the document and completion of the job, in one
\* transaction.
RecordVerdict(w) ==
    LET d == cur[w]
    IN /\ pc[w] = "recording"
       /\ finding[w] \in {"CLEAN", "INFECTED"}
       /\ MayDecide(w)
       /\ Conclude(d, finding[w])
       /\ jobStatus' = [jobStatus EXCEPT ![d] = "SUCCEEDED"]
       /\ result' = [result EXCEPT ![d] = finding[w]]
       /\ FreeLease(d)
       /\ NextIteration(w)
       /\ UNCHANGED <<attempts, due>>

\* The lease was lost, or the document left quarantine during the scan: the
\* transaction is rolled back and the exception ends runOnce().
RecordConflict(w) ==
    /\ pc[w] = "recording"
    /\ IF finding[w] \in {"gone", "retry"} THEN ~Owns(w) ELSE ~MayDecide(w)
    /\ AbandonBatch(w)
    /\ UNCHANGED <<docVars, jobVars, historyVars>>

\* The process dies and restarts, or a database call of it fails.
Crash(w) ==
    /\ pc[w] # "idle"
    /\ crashes < MaxCrashes
    /\ crashes' = crashes + 1
    /\ AbandonBatch(w)
    /\ UNCHANGED <<docVars, jobVars, cleared, overruns>>

InHand(w) == held[w] \cup ({cur[w]} \ {NoDocument})

\* next_attempt_at passes.
FallsDue(d) ==
    /\ d \in Waiting
    /\ ~due[d]
    /\ due' = [due EXCEPT ![d] = TRUE]
    /\ UNCHANGED <<docVars, jobStatus, result, attempts, expired, owner, workerVars,
                   historyVars>>

\* lease_expires_at passes.
Expires(d) ==
    /\ jobStatus[d] = "LEASED"
    /\ ~expired[d]
    /\ expired' = [expired EXCEPT ![d] = TRUE]
    /\ overruns' = IF \E w \in Workers : d \in InHand(w) THEN overruns + 1 ELSE overruns
    /\ overruns' <= MaxOverruns
    /\ UNCHANGED <<docVars, jobStatus, result, attempts, due, owner, workerVars,
                   cleared, crashes>>

Record(w) ==
    \/ RecordRetry(w)
    \/ RecordGone(w)
    \/ RecordRejection(w)
    \/ RecordVerdict(w)
    \/ RecordConflict(w)

RunOnce(w) == Claim(w) \/ TakeNext(w) \/ ScanEnds(w) \/ Record(w)

Service(d) ==
    \/ \E p \in Documents \cup {NoDocument} : Initiate(d, p)
    \/ Finalize(d)
    \/ \E r \in Documents : Supersede(d, r)
    \/ Withdraw(d)
    \/ RetryScan(d)

Next ==
    \/ \E d \in Documents : Service(d) \/ FallsDue(d) \/ Expires(d)
    \/ \E w \in Workers : RunOnce(w) \/ Crash(w)

Spec == Init /\ [][Next]_vars

\* Time passes, and each process keeps calling runOnce(), whose calls to
\* storage, scanner and database settle.
Fairness ==
    /\ \A d \in Documents : WF_vars(FallsDue(d)) /\ WF_vars(Expires(d))
    /\ \A w \in Workers : WF_vars(RunOnce(w))

FairSpec == Spec /\ Fairness

-------------------------------------------------------------------------------
(* Properties. *)

\* Document and scan job never disagree: a document in quarantine has a job that
\* is not completed, a completed job carries the verdict of its document, and a
\* document is ACTIVE only with a job completed as CLEAN.
JobMatchesDocument == \A d \in Documents :
    /\ docStatus[d] = "QUARANTINED" =>
         verdict[d] = "PENDING" /\ jobStatus[d] \notin {"absent", "SUCCEEDED"}
    /\ jobStatus[d] = "SUCCEEDED" => verdict[d] = result[d]
    /\ docStatus[d] = "ACTIVE" => jobStatus[d] = "SUCCEEDED" /\ result[d] = "CLEAN"

\* A job that may still be claimed has attempts left, although several processes
\* may have had it, or share one workerId, and dead letters are retried.
AttemptsLeft == \A d \in Documents :
    jobStatus[d] \in {"PENDING", "FAILED_RETRYABLE", "LEASED"} =>
        attempts[d] < MaxAttempts

\* A superseded document names a version of its own lineage that was released.
SupersededByRelease == \A d \in Documents :
    docStatus[d] = "SUPERSEDED" =>
        /\ supersededBy[d] \in Documents
        /\ prior[supersededBy[d]] = d
        /\ verdict[supersededBy[d]] = "CLEAN"

\* A verdict is final: no scan that ends late, no repeated scan of a dead-letter
\* job and no withdrawal changes it.
VerdictIsFinal ==
    [][\A d \in Documents :
          verdict[d] \in {"CLEAN", "INFECTED", "FAILED"} => verdict'[d] = verdict[d]]_vars

\* Every scan job ends, completed or as a dead letter, whatever crashes, lost
\* leases, withdrawals and abandoned batches come in between.
EventuallySettled == \A d \in Documents :
    jobStatus[d] = "PENDING" ~> jobStatus[d] \in {"SUCCEEDED", "DEAD_LETTER"}

Gate == [absent |-> "closed", UPLOAD_PENDING |-> "closed", QUARANTINED |-> "waiting",
         ACTIVE |-> "released", REJECTED |-> "barred", SUPERSEDED |-> "retired",
         WITHDRAWN |-> "retired"]

Release == INSTANCE DocumentRelease WITH
    gate <- [d \in Documents |-> Gate[docStatus[d]]]

\* The pipeline implements DocumentRelease: only what the scanner found clean is
\* released, once, and never after a rejection or a withdrawal.
ImplementsRelease == Release!Spec
===============================================================================
