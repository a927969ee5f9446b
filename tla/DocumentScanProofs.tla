-------------------------- MODULE DocumentScanProofs ---------------------------
(***************************************************************************)
(* Proofs about DocumentScan for every set of documents and processes,      *)
(* whatever workerIds they share, and every bound: its invariants, that a   *)
(* verdict is final, and that the pipeline implements DocumentRelease.      *)
(***************************************************************************)
EXTENDS DocumentScan, TLAPS

\* Before finalization there is neither a verdict nor a job.
Fresh == \A d \in Documents :
    /\ docStatus[d] \in {"absent", "UPLOAD_PENDING"} =>
         verdict[d] = "NOT_REQUESTED" /\ jobStatus[d] = "absent"
    /\ jobStatus[d] = "absent" => attempts[d] = 0

\* What a process may rely on while it has a job in hand.
Hands == \A w \in Workers :
    /\ pc[w] \in {"scanning", "recording"} => cur[w] \in Documents
    /\ pc[w] = "scanning" => docStatus[cur[w]] \notin {"absent", "UPLOAD_PENDING"}
    /\ pc[w] # "recording" => finding[w] = "gone"
    /\ finding[w] = "CLEAN" => cur[w] \in cleared

\* The inductive invariant.  A verdict needs Fresh (Finalize gives none away),
\* AttemptsLeft keeps attempt_count within its type, and Hands carries the
\* scanner's answer from the scan to the record.
IInv ==
    /\ TypeOK
    /\ JobMatchesDocument
    /\ AttemptsLeft
    /\ SupersededByRelease
    /\ Fresh
    /\ Hands

-------------------------------------------------------------------------------

LEMMA InitIInv == Init => IInv
<1> SUFFICES ASSUME Init PROVE IInv
  OBVIOUS
<1>1. TypeOK
  BY NumbersAssumption DEF Init, TypeOK, DocTypes, JobTypes, WorkerTypes, Findings
<1>2. JobMatchesDocument /\ AttemptsLeft /\ SupersededByRelease
  BY NumbersAssumption DEF Init, JobMatchesDocument, AttemptsLeft, SupersededByRelease
<1>3. Fresh /\ Hands
  BY DEF Init, Fresh, Hands
<1> QED
  BY <1>1, <1>2, <1>3 DEF IInv

\* The document a process is about to record on.
LEMMA CurIsDocument ==
    ASSUME Hands, NEW w \in Workers, pc[w] \in {"scanning", "recording"}
    PROVE  cur[w] \in Documents
BY DEF Hands

\* A leased job has an attempt left to count.
LEMMA CountFits ==
    ASSUME TypeOK, AttemptsLeft, NEW d \in Documents, jobStatus[d] = "LEASED"
    PROVE  attempts[d] \in Nat /\ attempts[d] + 1 \in 0 .. MaxAttempts
BY NumbersAssumption DEF TypeOK, JobTypes, AttemptsLeft

\* A supersession stays justified while released versions stay what they are.
LEMMA SupersessionStays ==
    ASSUME SupersededByRelease,
           supersededBy' = supersededBy,
           \A d \in Documents : docStatus'[d] = "SUPERSEDED" => docStatus[d] = "SUPERSEDED",
           \A r \in Documents : verdict[r] = "CLEAN" =>
               verdict'[r] = "CLEAN" /\ prior'[r] = prior[r]
    PROVE  SupersededByRelease'
BY DEF SupersededByRelease

-------------------------------------------------------------------------------
(* Every action keeps the inductive invariant. *)

LEMMA InitiateKeeps ==
    ASSUME IInv, NEW d \in Documents, NEW p \in Documents \cup {NoDocument},
           Initiate(d, p)
    PROVE  IInv'
<1> USE DEF Initiate,
           docVars, jobVars, workerVars, historyVars
<1>1. TypeOK'
  BY DEF IInv, TypeOK, DocTypes, JobTypes, WorkerTypes
<1>2. JobMatchesDocument'
  BY DEF IInv, TypeOK, DocTypes, JobTypes, Fresh, JobMatchesDocument
<1>3. AttemptsLeft'
  BY NumbersAssumption DEF IInv, TypeOK, DocTypes, JobTypes, Fresh, AttemptsLeft
<1>4. SupersededByRelease'
  BY SupersessionStays DEF IInv, TypeOK, DocTypes, JobTypes, Fresh
<1>5. Fresh'
  BY DEF IInv, TypeOK, DocTypes, JobTypes, Fresh
<1>6. Hands'
  BY DEF IInv, TypeOK, DocTypes, JobTypes, WorkerTypes, Hands
<1> QED
  BY <1>1, <1>2, <1>3, <1>4, <1>5, <1>6 DEF IInv

LEMMA FinalizeKeeps ==
    ASSUME IInv, NEW d \in Documents,
           Finalize(d)
    PROVE  IInv'
<1> USE DEF Finalize,
           docVars, jobVars, workerVars, historyVars
<1>1. TypeOK'
  BY NumbersAssumption DEF IInv, TypeOK, DocTypes, JobTypes, WorkerTypes
<1>2. JobMatchesDocument'
  BY DEF IInv, TypeOK, DocTypes, JobTypes, Fresh, JobMatchesDocument
<1>3. AttemptsLeft'
  BY NumbersAssumption DEF IInv, TypeOK, DocTypes, JobTypes, Fresh, AttemptsLeft
<1>4. SupersededByRelease'
  BY SupersessionStays DEF IInv, TypeOK, DocTypes, JobTypes, Fresh
<1>5. Fresh'
  BY DEF IInv, TypeOK, DocTypes, JobTypes, Fresh
<1>6. Hands'
  BY DEF IInv, TypeOK, DocTypes, JobTypes, WorkerTypes, Hands
<1> QED
  BY <1>1, <1>2, <1>3, <1>4, <1>5, <1>6 DEF IInv

LEMMA SupersedeKeeps ==
    ASSUME IInv, NEW d \in Documents, NEW r \in Documents,
           Supersede(d, r)
    PROVE  IInv'
<1> USE DEF Supersede, Replaces,
           docVars, jobVars, workerVars, historyVars
<1>1. TypeOK'
  BY DEF IInv, TypeOK, DocTypes, JobTypes, WorkerTypes
<1>2. JobMatchesDocument'
  BY DEF IInv, TypeOK, DocTypes, JobTypes, Fresh, JobMatchesDocument
<1>3. AttemptsLeft'
  BY NumbersAssumption DEF IInv, TypeOK, DocTypes, JobTypes, Fresh, AttemptsLeft
<1>4. SupersededByRelease'
  BY DEF IInv, TypeOK, DocTypes, JobTypes, JobMatchesDocument, SupersededByRelease
<1>5. Fresh'
  BY DEF IInv, TypeOK, DocTypes, JobTypes, Fresh
<1>6. Hands'
  BY DEF IInv, TypeOK, DocTypes, JobTypes, WorkerTypes, Hands
<1> QED
  BY <1>1, <1>2, <1>3, <1>4, <1>5, <1>6 DEF IInv

LEMMA WithdrawKeeps ==
    ASSUME IInv, NEW d \in Documents,
           Withdraw(d)
    PROVE  IInv'
<1> USE DEF Withdraw,
           docVars, jobVars, workerVars, historyVars
<1>1. TypeOK'
  BY DEF IInv, TypeOK, DocTypes, JobTypes, WorkerTypes
<1>2. JobMatchesDocument'
  BY DEF IInv, TypeOK, DocTypes, JobTypes, Fresh, JobMatchesDocument
<1>3. AttemptsLeft'
  BY NumbersAssumption DEF IInv, TypeOK, DocTypes, JobTypes, Fresh, AttemptsLeft
<1>4. SupersededByRelease'
  BY DEF IInv, TypeOK, DocTypes, JobTypes, JobMatchesDocument, SupersededByRelease
<1>5. Fresh'
  BY DEF IInv, TypeOK, DocTypes, JobTypes, Fresh
<1>6. Hands'
  BY DEF IInv, TypeOK, DocTypes, JobTypes, WorkerTypes, Hands
<1> QED
  BY <1>1, <1>2, <1>3, <1>4, <1>5, <1>6 DEF IInv

LEMMA RetryScanKeeps ==
    ASSUME IInv, NEW d \in Documents,
           RetryScan(d)
    PROVE  IInv'
<1> USE DEF RetryScan,
           docVars, jobVars, workerVars, historyVars
<1>1. TypeOK'
  BY NumbersAssumption DEF IInv, TypeOK, DocTypes, JobTypes, WorkerTypes
<1>2. JobMatchesDocument'
  BY DEF IInv, TypeOK, DocTypes, JobTypes, Fresh, JobMatchesDocument
<1>3. AttemptsLeft'
  BY NumbersAssumption DEF IInv, TypeOK, DocTypes, JobTypes, Fresh, AttemptsLeft
<1>4. SupersededByRelease'
  BY DEF IInv, TypeOK, DocTypes, JobTypes, JobMatchesDocument, SupersededByRelease
<1>5. Fresh'
  BY DEF IInv, TypeOK, DocTypes, JobTypes, Fresh
<1>6. Hands'
  BY DEF IInv, TypeOK, DocTypes, JobTypes, WorkerTypes, Hands
<1> QED
  BY <1>1, <1>2, <1>3, <1>4, <1>5, <1>6 DEF IInv

LEMMA FallsDueKeeps ==
    ASSUME IInv, NEW d \in Documents,
           FallsDue(d)
    PROVE  IInv'
<1> USE DEF FallsDue,
           docVars, jobVars, workerVars, historyVars
<1>1. TypeOK'
  BY DEF IInv, TypeOK, DocTypes, JobTypes, WorkerTypes
<1>2. JobMatchesDocument'
  BY DEF IInv, TypeOK, DocTypes, JobTypes, Fresh, JobMatchesDocument
<1>3. AttemptsLeft'
  BY NumbersAssumption DEF IInv, TypeOK, DocTypes, JobTypes, Fresh, AttemptsLeft
<1>4. SupersededByRelease'
  BY DEF IInv, TypeOK, DocTypes, JobTypes, JobMatchesDocument, SupersededByRelease
<1>5. Fresh'
  BY DEF IInv, TypeOK, DocTypes, JobTypes, Fresh
<1>6. Hands'
  BY DEF IInv, TypeOK, DocTypes, JobTypes, WorkerTypes, Hands
<1> QED
  BY <1>1, <1>2, <1>3, <1>4, <1>5, <1>6 DEF IInv

LEMMA ExpiresKeeps ==
    ASSUME IInv, NEW d \in Documents,
           Expires(d)
    PROVE  IInv'
<1> USE DEF Expires,
           docVars, jobVars, workerVars, historyVars
<1>1. TypeOK'
  BY NumbersAssumption DEF IInv, TypeOK, DocTypes, JobTypes, WorkerTypes
<1>2. JobMatchesDocument'
  BY DEF IInv, TypeOK, DocTypes, JobTypes, Fresh, JobMatchesDocument
<1>3. AttemptsLeft'
  BY NumbersAssumption DEF IInv, TypeOK, DocTypes, JobTypes, Fresh, AttemptsLeft
<1>4. SupersededByRelease'
  BY DEF IInv, TypeOK, DocTypes, JobTypes, JobMatchesDocument, SupersededByRelease
<1>5. Fresh'
  BY DEF IInv, TypeOK, DocTypes, JobTypes, Fresh
<1>6. Hands'
  BY DEF IInv, TypeOK, DocTypes, JobTypes, WorkerTypes, Hands
<1> QED
  BY <1>1, <1>2, <1>3, <1>4, <1>5, <1>6 DEF IInv

LEMMA ClaimKeeps ==
    ASSUME IInv, NEW w \in Workers,
           Claim(w)
    PROVE  IInv'
<1> USE DEF Claim, Batches, Claimable, Waiting,
           docVars, jobVars, workerVars, historyVars
<1>1. DocTypes'
  BY DEF IInv, TypeOK, DocTypes
<1>2. JobTypes'
  <2>1. Identity[w] \in Owners
    BY DEF Owners
  <2> QED
    BY <2>1 DEF IInv, TypeOK, JobTypes
<1>3. WorkerTypes'
  BY DEF IInv, TypeOK, WorkerTypes
<1>4. TypeOK'
  BY <1>1, <1>2, <1>3 DEF IInv, TypeOK
<1>5. JobMatchesDocument'
  BY DEF IInv, TypeOK, DocTypes, JobTypes, Fresh, JobMatchesDocument
<1>6. AttemptsLeft'
  BY NumbersAssumption DEF IInv, TypeOK, DocTypes, JobTypes, Fresh, AttemptsLeft
<1>7. SupersededByRelease'
  BY DEF IInv, TypeOK, DocTypes, JobTypes, JobMatchesDocument, SupersededByRelease
<1>8. Fresh'
  BY DEF IInv, TypeOK, DocTypes, JobTypes, Fresh
<1>9. Hands'
  BY DEF IInv, TypeOK, DocTypes, JobTypes, WorkerTypes, Hands
<1> QED
  BY <1>4, <1>5, <1>6, <1>7, <1>8, <1>9 DEF IInv

LEMMA TakeNextKeeps ==
    ASSUME IInv, NEW w \in Workers,
           TakeNext(w)
    PROVE  IInv'
<1> USE DEF TakeNext,
           docVars, jobVars, workerVars, historyVars
<1>1. TypeOK'
  BY DEF IInv, TypeOK, DocTypes, JobTypes, WorkerTypes, Findings
<1>2. JobMatchesDocument'
  BY DEF IInv, TypeOK, DocTypes, JobTypes, Fresh, JobMatchesDocument
<1>3. AttemptsLeft'
  BY NumbersAssumption DEF IInv, TypeOK, DocTypes, JobTypes, Fresh, AttemptsLeft
<1>4. SupersededByRelease'
  BY DEF IInv, TypeOK, DocTypes, JobTypes, JobMatchesDocument, SupersededByRelease
<1>5. Fresh'
  BY DEF IInv, TypeOK, DocTypes, JobTypes, Fresh
<1>6. Hands'
  BY DEF IInv, TypeOK, DocTypes, JobTypes, WorkerTypes, Hands
<1> QED
  BY <1>1, <1>2, <1>3, <1>4, <1>5, <1>6 DEF IInv

LEMMA ScanEndsKeeps ==
    ASSUME IInv, NEW w \in Workers,
           ScanEnds(w)
    PROVE  IInv'
<1> USE DEF ScanEnds,
           docVars, jobVars, workerVars, historyVars
<1>1. cur[w] \in Documents
  BY CurIsDocument DEF IInv
<1>2. DocTypes' /\ JobTypes'
  BY DEF IInv, TypeOK, DocTypes, JobTypes
<1>3. WorkerTypes'
  BY DEF IInv, TypeOK, WorkerTypes, Findings
<1>4. TypeOK'
  BY <1>1, <1>2, <1>3 DEF IInv, TypeOK
<1>5. JobMatchesDocument'
  BY DEF IInv, TypeOK, DocTypes, JobTypes, Fresh, JobMatchesDocument
<1>6. AttemptsLeft'
  BY NumbersAssumption DEF IInv, TypeOK, DocTypes, JobTypes, Fresh, AttemptsLeft
<1>7. SupersededByRelease'
  BY DEF IInv, TypeOK, DocTypes, JobTypes, JobMatchesDocument, SupersededByRelease
<1>8. Fresh'
  BY DEF IInv, TypeOK, DocTypes, JobTypes, Fresh
<1>9. Hands'
  BY DEF IInv, TypeOK, DocTypes, JobTypes, WorkerTypes, Hands
<1> QED
  BY <1>4, <1>5, <1>6, <1>7, <1>8, <1>9 DEF IInv

LEMMA RecordRetryKeeps ==
    ASSUME IInv, NEW w \in Workers,
           RecordRetry(w)
    PROVE  IInv'
<1> USE DEF RecordRetry, Owns, FreeLease, NextIteration,
           docVars, jobVars, workerVars, historyVars
<1>1. cur[w] \in Documents
  BY CurIsDocument DEF IInv
<1>2. attempts[cur[w]] \in Nat /\ attempts[cur[w]] + 1 \in 0 .. MaxAttempts
  BY <1>1, CountFits DEF IInv
<1>3. DocTypes'
  BY <1>1 DEF IInv, TypeOK, DocTypes, Findings
<1>4. JobTypes'
  BY <1>1, <1>2 DEF IInv, TypeOK, JobTypes
<1>5. WorkerTypes'
  BY DEF IInv, TypeOK, WorkerTypes, Findings
<1>6. TypeOK'
  BY <1>3, <1>4, <1>5 DEF IInv, TypeOK
<1>7. JobMatchesDocument'
  BY <1>1 DEF IInv, TypeOK, DocTypes, JobTypes, Fresh, JobMatchesDocument
<1>8. AttemptsLeft'
  BY NumbersAssumption, <1>1, <1>2 DEF IInv, TypeOK, DocTypes, JobTypes, Fresh, AttemptsLeft
<1>9. SupersededByRelease'
  BY DEF IInv, TypeOK, DocTypes, JobTypes, JobMatchesDocument, SupersededByRelease
<1>10. Fresh'
  BY <1>1 DEF IInv, TypeOK, DocTypes, JobTypes, Fresh
<1>11. Hands'
  BY DEF IInv, TypeOK, DocTypes, JobTypes, WorkerTypes, Hands
<1> QED
  BY <1>6, <1>7, <1>8, <1>9, <1>10, <1>11 DEF IInv

LEMMA RecordGoneKeeps ==
    ASSUME IInv, NEW w \in Workers,
           RecordGone(w)
    PROVE  IInv'
<1> USE DEF RecordGone, Owns, MarkPermanentFailure, FreeLease, NextIteration,
           docVars, jobVars, workerVars, historyVars
<1>1. cur[w] \in Documents
  BY CurIsDocument DEF IInv
<1>2. attempts[cur[w]] \in Nat /\ attempts[cur[w]] + 1 \in 0 .. MaxAttempts
  BY <1>1, CountFits DEF IInv
<1>3. DocTypes'
  BY <1>1 DEF IInv, TypeOK, DocTypes, Findings
<1>4. JobTypes'
  BY <1>1, <1>2 DEF IInv, TypeOK, JobTypes
<1>5. WorkerTypes'
  BY DEF IInv, TypeOK, WorkerTypes, Findings
<1>6. TypeOK'
  BY <1>3, <1>4, <1>5 DEF IInv, TypeOK
<1>7. JobMatchesDocument'
  BY <1>1 DEF IInv, TypeOK, DocTypes, JobTypes, Fresh, JobMatchesDocument
<1>8. AttemptsLeft'
  BY NumbersAssumption, <1>1, <1>2 DEF IInv, TypeOK, DocTypes, JobTypes, Fresh, AttemptsLeft
<1>9. SupersededByRelease'
  BY DEF IInv, TypeOK, DocTypes, JobTypes, JobMatchesDocument, SupersededByRelease
<1>10. Fresh'
  BY <1>1 DEF IInv, TypeOK, DocTypes, JobTypes, Fresh
<1>11. Hands'
  BY DEF IInv, TypeOK, DocTypes, JobTypes, WorkerTypes, Hands
<1> QED
  BY <1>6, <1>7, <1>8, <1>9, <1>10, <1>11 DEF IInv

LEMMA RecordRejectionKeeps ==
    ASSUME IInv, NEW w \in Workers,
           RecordRejection(w)
    PROVE  IInv'
<1> USE DEF RecordRejection, Conclude, MayDecide, Owns, MarkPermanentFailure,
           FreeLease, NextIteration,
           docVars, jobVars, workerVars, historyVars
<1>1. cur[w] \in Documents
  BY CurIsDocument DEF IInv
<1>2. attempts[cur[w]] \in Nat /\ attempts[cur[w]] + 1 \in 0 .. MaxAttempts
  BY <1>1, CountFits DEF IInv
<1>3. DocTypes'
  BY <1>1 DEF IInv, TypeOK, DocTypes, Findings
<1>4. JobTypes'
  BY <1>1, <1>2 DEF IInv, TypeOK, JobTypes
<1>5. WorkerTypes'
  BY DEF IInv, TypeOK, WorkerTypes, Findings
<1>6. TypeOK'
  BY <1>3, <1>4, <1>5 DEF IInv, TypeOK
<1>7. JobMatchesDocument'
  BY <1>1 DEF IInv, TypeOK, DocTypes, JobTypes, Fresh, JobMatchesDocument
<1>8. AttemptsLeft'
  BY NumbersAssumption, <1>1, <1>2 DEF IInv, TypeOK, DocTypes, JobTypes, Fresh, AttemptsLeft
<1>9. SupersededByRelease'
  BY <1>1, SupersessionStays DEF IInv, TypeOK, DocTypes, JobTypes, JobMatchesDocument
<1>10. Fresh'
  BY <1>1 DEF IInv, TypeOK, DocTypes, JobTypes, Fresh
<1>11. Hands'
  BY DEF IInv, TypeOK, DocTypes, JobTypes, WorkerTypes, Hands
<1> QED
  BY <1>6, <1>7, <1>8, <1>9, <1>10, <1>11 DEF IInv

LEMMA RecordVerdictKeeps ==
    ASSUME IInv, NEW w \in Workers,
           RecordVerdict(w)
    PROVE  IInv'
<1> USE DEF RecordVerdict, Conclude, MayDecide, Owns, FreeLease, NextIteration,
           docVars, jobVars, workerVars, historyVars
<1>1. cur[w] \in Documents
  BY CurIsDocument DEF IInv
<1>2. attempts[cur[w]] \in Nat /\ attempts[cur[w]] + 1 \in 0 .. MaxAttempts
  BY <1>1, CountFits DEF IInv
<1>3. DocTypes'
  BY <1>1 DEF IInv, TypeOK, DocTypes, Findings
<1>4. JobTypes'
  BY <1>1, <1>2 DEF IInv, TypeOK, JobTypes
<1>5. WorkerTypes'
  BY DEF IInv, TypeOK, WorkerTypes, Findings
<1>6. TypeOK'
  BY <1>3, <1>4, <1>5 DEF IInv, TypeOK
<1>7. JobMatchesDocument'
  BY <1>1 DEF IInv, TypeOK, DocTypes, JobTypes, Fresh, JobMatchesDocument
<1>8. AttemptsLeft'
  BY NumbersAssumption, <1>1, <1>2 DEF IInv, TypeOK, DocTypes, JobTypes, Fresh, AttemptsLeft
<1>9. SupersededByRelease'
  BY <1>1, SupersessionStays DEF IInv, TypeOK, DocTypes, JobTypes, JobMatchesDocument
<1>10. Fresh'
  BY <1>1 DEF IInv, TypeOK, DocTypes, JobTypes, Fresh
<1>11. Hands'
  BY DEF IInv, TypeOK, DocTypes, JobTypes, WorkerTypes, Hands
<1> QED
  BY <1>6, <1>7, <1>8, <1>9, <1>10, <1>11 DEF IInv

LEMMA RecordConflictKeeps ==
    ASSUME IInv, NEW w \in Workers,
           RecordConflict(w)
    PROVE  IInv'
<1> USE DEF RecordConflict, AbandonBatch,
           docVars, jobVars, workerVars, historyVars
<1>1. TypeOK'
  BY DEF IInv, TypeOK, DocTypes, JobTypes, WorkerTypes, Findings
<1>2. JobMatchesDocument'
  BY DEF IInv, TypeOK, DocTypes, JobTypes, Fresh, JobMatchesDocument
<1>3. AttemptsLeft'
  BY NumbersAssumption DEF IInv, TypeOK, DocTypes, JobTypes, Fresh, AttemptsLeft
<1>4. SupersededByRelease'
  BY DEF IInv, TypeOK, DocTypes, JobTypes, JobMatchesDocument, SupersededByRelease
<1>5. Fresh'
  BY DEF IInv, TypeOK, DocTypes, JobTypes, Fresh
<1>6. Hands'
  BY DEF IInv, TypeOK, DocTypes, JobTypes, WorkerTypes, Hands
<1> QED
  BY <1>1, <1>2, <1>3, <1>4, <1>5, <1>6 DEF IInv

LEMMA CrashKeeps ==
    ASSUME IInv, NEW w \in Workers,
           Crash(w)
    PROVE  IInv'
<1> USE DEF Crash, AbandonBatch,
           docVars, jobVars, workerVars, historyVars
<1>1. TypeOK'
  BY NumbersAssumption DEF IInv, TypeOK, DocTypes, JobTypes, WorkerTypes, Findings
<1>2. JobMatchesDocument'
  BY DEF IInv, TypeOK, DocTypes, JobTypes, Fresh, JobMatchesDocument
<1>3. AttemptsLeft'
  BY NumbersAssumption DEF IInv, TypeOK, DocTypes, JobTypes, Fresh, AttemptsLeft
<1>4. SupersededByRelease'
  BY DEF IInv, TypeOK, DocTypes, JobTypes, JobMatchesDocument, SupersededByRelease
<1>5. Fresh'
  BY DEF IInv, TypeOK, DocTypes, JobTypes, Fresh
<1>6. Hands'
  BY DEF IInv, TypeOK, DocTypes, JobTypes, WorkerTypes, Hands
<1> QED
  BY <1>1, <1>2, <1>3, <1>4, <1>5, <1>6 DEF IInv

LEMMA StutterKeeps ==
    ASSUME IInv, UNCHANGED vars
    PROVE  IInv'
<1> USE DEF vars
<1>1. TypeOK'
  BY DEF IInv, TypeOK, DocTypes, JobTypes, WorkerTypes
<1>2. JobMatchesDocument' /\ AttemptsLeft' /\ SupersededByRelease'
  BY DEF IInv, JobMatchesDocument, AttemptsLeft, SupersededByRelease
<1>3. Fresh' /\ Hands'
  BY DEF IInv, Fresh, Hands
<1> QED
  BY <1>1, <1>2, <1>3 DEF IInv

LEMMA StepKeeps == IInv /\ [Next]_vars => IInv'
<1> SUFFICES ASSUME IInv, [Next]_vars PROVE IInv'
  OBVIOUS
<1>1. ASSUME NEW d \in Documents, Service(d) PROVE IInv'
  BY <1>1, InitiateKeeps, FinalizeKeeps, SupersedeKeeps, WithdrawKeeps, RetryScanKeeps
     DEF Service
<1>2. ASSUME NEW d \in Documents, FallsDue(d) \/ Expires(d) PROVE IInv'
  BY <1>2, FallsDueKeeps, ExpiresKeeps
<1>3. ASSUME NEW w \in Workers, RunOnce(w) \/ Crash(w) PROVE IInv'
  BY <1>3, ClaimKeeps, TakeNextKeeps, ScanEndsKeeps, RecordRetryKeeps, RecordGoneKeeps,
     RecordRejectionKeeps, RecordVerdictKeeps, RecordConflictKeeps, CrashKeeps
     DEF RunOnce, Record
<1> QED
  BY <1>1, <1>2, <1>3, StutterKeeps DEF Next

\* The inductive invariant holds in every reachable state.
THEOREM Invariance == Spec => []IInv
<1>1. Init => IInv
  BY InitIInv
<1>2. IInv /\ [Next]_vars => IInv'
  BY StepKeeps
<1> QED
  BY <1>1, <1>2, PTL DEF Spec

\* Every variable keeps its type; attempt_count never exceeds max_attempts.
THEOREM TypeCorrectness == Spec => []TypeOK
<1>1. IInv => TypeOK
  BY DEF IInv
<1> QED
  BY <1>1, Invariance, PTL

\* A document and its scan job never disagree, whoever lost a lease when.
THEOREM JobsMatchDocuments == Spec => []JobMatchesDocument
<1>1. IInv => JobMatchesDocument
  BY DEF IInv
<1> QED
  BY <1>1, Invariance, PTL

\* What may be claimed has an attempt left.
THEOREM AttemptsAreLeft == Spec => []AttemptsLeft
<1>1. IInv => AttemptsLeft
  BY DEF IInv
<1> QED
  BY <1>1, Invariance, PTL

\* A document is superseded only by a released version of itself.
THEOREM SupersessionIsJustified == Spec => []SupersededByRelease
<1>1. IInv => SupersededByRelease
  BY DEF IInv
<1> QED
  BY <1>1, Invariance, PTL

-------------------------------------------------------------------------------

\* verdict changes in three actions, of documents that had none.
LEMMA VerdictMoves ==
    ASSUME IInv, Next, NEW d \in Documents, verdict'[d] # verdict[d]
    PROVE  verdict[d] \in {"NOT_REQUESTED", "PENDING"}
<1> USE DEF docVars, jobVars, workerVars, historyVars
<1>1. ASSUME NEW e \in Documents, Service(e) \/ FallsDue(e) \/ Expires(e)
      PROVE  verdict[d] \in {"NOT_REQUESTED", "PENDING"}
  <2>1. CASE Finalize(e)
    BY <2>1 DEF Finalize, IInv, TypeOK, DocTypes, Fresh
  <2>2. CASE ~Finalize(e)
    BY <1>1, <2>2 DEF Service, Initiate, Supersede, Withdraw, RetryScan, FallsDue, Expires
  <2> QED
    BY <2>1, <2>2
<1>2. ASSUME NEW w \in Workers, RunOnce(w) \/ Crash(w)
      PROVE  verdict[d] \in {"NOT_REQUESTED", "PENDING"}
  <2>1. CASE RecordRejection(w)
    BY <2>1, CurIsDocument
       DEF RecordRejection, Conclude, MayDecide, IInv, TypeOK, DocTypes, JobMatchesDocument
  <2>2. CASE RecordVerdict(w)
    BY <2>2, CurIsDocument
       DEF RecordVerdict, Conclude, MayDecide, IInv, TypeOK, DocTypes, JobMatchesDocument
  <2>3. CASE ~RecordRejection(w) /\ ~RecordVerdict(w)
    BY <1>2, <2>3
       DEF RunOnce, Record, Claim, TakeNext, ScanEnds, RecordRetry, RecordGone,
           RecordConflict, Crash
  <2> QED
    BY <2>1, <2>2, <2>3
<1> QED
  BY <1>1, <1>2 DEF Next

\* A scan that ends late, a repeated scan or a withdrawal never changes a verdict.
THEOREM VerdictsAreFinal == Spec => VerdictIsFinal
<1> DEFINE Final == \A d \in Documents :
             verdict[d] \in {"CLEAN", "INFECTED", "FAILED"} => verdict'[d] = verdict[d]
<1>1. IInv /\ [Next]_vars => [Final]_vars
  BY VerdictMoves
<1> QED
  BY <1>1, Invariance, PTL DEF Spec, VerdictIsFinal

-------------------------------------------------------------------------------
(* Refinement: the gate of a document follows from its status alone. *)

G == [d \in Documents |-> Gate[docStatus[d]]]

LEMMA GateOf ==
    /\ Gate["absent"] = "closed"       /\ Gate["UPLOAD_PENDING"] = "closed"
    /\ Gate["QUARANTINED"] = "waiting" /\ Gate["ACTIVE"] = "released"
    /\ Gate["REJECTED"] = "barred"     /\ Gate["SUPERSEDED"] = "retired"
    /\ Gate["WITHDRAWN"] = "retired"
BY DEF Gate

\* A step that changes no status moves no gate.
LEMMA GateStays ==
    ASSUME docStatus' = docStatus
    PROVE  G' = G
BY DEF G

LEMMA InitRefines == Init => Release!Init
BY GateOf DEF Init, Release!Init, G

LEMMA ServiceRefines ==
    ASSUME IInv, NEW d \in Documents, Service(d)
    PROVE  [Release!Next]_Release!vars
<1> USE DEF historyVars, Release!vars, Release!Next, Release!Move
<1>t. DocTypes
  BY DEF IInv, TypeOK
<1>1. ASSUME NEW p, Initiate(d, p) PROVE UNCHANGED Release!vars
  <2>1. G' = [G EXCEPT ![d] = "closed"]
    BY <1>1, <1>t, GateOf DEF Initiate, DocTypes, G
  <2>2. G[d] = "closed"
    BY <1>1, GateOf DEF Initiate, G
  <2> QED
    BY <1>1, <2>1, <2>2 DEF Initiate, G
<1>2. CASE Finalize(d)
  <2>1. G' = [G EXCEPT ![d] = "waiting"] /\ G[d] = "closed"
    BY <1>2, <1>t, GateOf DEF Finalize, DocTypes, G
  <2>2. Release!Submit(d)
    BY <1>2, <2>1 DEF Finalize, G, Release!Submit
  <2> QED
    BY <2>2
<1>3. ASSUME NEW r, Supersede(d, r) PROVE Release!Retire(d)
  <2>1. G' = [G EXCEPT ![d] = "retired"] /\ G[d] = "released"
    BY <1>3, <1>t, GateOf DEF Supersede, DocTypes, G
  <2> QED
    BY <1>3, <2>1 DEF Supersede, G, Release!Retire
<1>4. CASE Withdraw(d)
  <2>1. G' = [G EXCEPT ![d] = "retired"]
    BY <1>4, <1>t, GateOf DEF Withdraw, DocTypes, G
  <2>2. G[d] \in {"closed", "waiting", "released", "barred"}
    BY <1>4, GateOf DEF Withdraw, G, IInv, TypeOK, DocTypes
  <2>3. Release!Retire(d)
    BY <1>4, <2>1, <2>2 DEF Withdraw, G, Release!Retire
  <2> QED
    BY <2>3
<1>5. CASE RetryScan(d)
  BY <1>5, GateStays DEF RetryScan, docVars, G
<1> QED
  BY <1>1, <1>2, <1>3, <1>4, <1>5 DEF Service

LEMMA WorkerRefines ==
    ASSUME IInv, NEW w \in Workers, RunOnce(w) \/ Crash(w)
    PROVE  [Release!Next]_Release!vars
<1> USE DEF historyVars, docVars, Release!vars, Release!Next, Release!Move
<1>t. DocTypes
  BY DEF IInv, TypeOK
<1>1. CASE ScanEnds(w)
  <2>1. cur[w] \in Documents /\ docStatus[cur[w]] \notin {"absent", "UPLOAD_PENDING"}
    BY <1>1 DEF ScanEnds, IInv, Hands
  <2>2. G[cur[w]] # "closed" /\ G' = G
    BY <1>1, <2>1, GateOf, GateStays DEF ScanEnds, G, IInv, TypeOK, DocTypes
  <2>3. cleared' = cleared \/ cleared' = cleared \cup {cur[w]}
    BY <1>1 DEF ScanEnds
  <2>4. cleared' = cleared \/ Release!FoundClean(cur[w])
    BY <2>2, <2>3 DEF G, Release!FoundClean
  <2> QED
    BY <2>1, <2>2, <2>4 DEF G
<1>2. CASE RecordRejection(w)
  <2>1. PICK d \in Documents : d = cur[w]
    BY <1>2, CurIsDocument DEF RecordRejection, IInv
  <2>2. G' = [G EXCEPT ![d] = "barred"] /\ G[d] = "waiting"
    BY <1>2, <1>t, <2>1, GateOf DEF RecordRejection, Conclude, MayDecide, DocTypes, G
  <2>3. Release!Bar(d)
    BY <1>2, <2>2 DEF RecordRejection, NextIteration, G, Release!Bar
  <2> QED
    BY <2>1, <2>3
<1>3. CASE RecordVerdict(w)
  <2>1. PICK d \in Documents : d = cur[w]
    BY <1>3, CurIsDocument DEF RecordVerdict, IInv
  <2>2. G[d] = "waiting" /\ cleared' = cleared
    BY <1>3, <2>1, GateOf DEF RecordVerdict, Conclude, MayDecide, NextIteration, G
  <2>3. CASE finding[w] = "CLEAN"
    <3>1. G' = [G EXCEPT ![d] = "released"] /\ d \in cleared
      BY <1>3, <1>t, <2>1, <2>3, GateOf DEF RecordVerdict, Conclude, DocTypes, G, IInv, Hands
    <3>2. Release!Release(d)
      BY <2>2, <3>1 DEF G, Release!Release
    <3> QED
      BY <2>1, <3>2
  <2>4. CASE finding[w] = "INFECTED"
    <3>1. G' = [G EXCEPT ![d] = "barred"]
      BY <1>3, <1>t, <2>1, <2>4, GateOf DEF RecordVerdict, Conclude, DocTypes, G
    <3>2. Release!Bar(d)
      BY <2>2, <3>1 DEF G, Release!Bar
    <3> QED
      BY <2>1, <3>2
  <2> QED
    BY <1>3, <2>3, <2>4 DEF RecordVerdict
<1>4. CASE ~ScanEnds(w) /\ ~RecordRejection(w) /\ ~RecordVerdict(w)
  <2>1. docStatus' = docStatus /\ cleared' = cleared
    BY <1>4 DEF RunOnce, Record, Claim, TakeNext, RecordRetry, RecordGone,
                RecordConflict, NextIteration, Crash
  <2> QED
    BY <2>1, GateStays DEF G
<1> QED
  BY <1>1, <1>2, <1>3, <1>4

\* The pipeline implements DocumentRelease: nothing is released that the scanner
\* did not find clean, and nothing once it was rejected or withdrawn.
THEOREM PipelineImplementsRelease == Spec => ImplementsRelease
<1>1. Init => Release!Init
  BY InitRefines
<1>2. IInv /\ [Next]_vars => [Release!Next]_Release!vars
  <2> SUFFICES ASSUME IInv, [Next]_vars PROVE [Release!Next]_Release!vars
    OBVIOUS
  <2>1. ASSUME NEW d \in Documents, FallsDue(d) \/ Expires(d)
        PROVE  UNCHANGED Release!vars
    BY <2>1, GateStays DEF FallsDue, Expires, docVars, historyVars, G, Release!vars
  <2>2. CASE UNCHANGED vars
    BY <2>2, GateStays DEF vars, G, Release!vars
  <2> QED
    BY <2>1, <2>2, ServiceRefines, WorkerRefines DEF Next
<1> QED
  BY <1>1, <1>2, Invariance, PTL DEF Spec, ImplementsRelease, Release!Spec
===============================================================================
