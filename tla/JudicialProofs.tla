---------------------------- MODULE JudicialProofs -----------------------------
(***************************************************************************)
(* Theorems about Judicial for every set of hearings, judgments and        *)
(* sessions.                                                               *)
(***************************************************************************)
EXTENDS Judicial, TLAPS

\* A session that is scheduling and has met no disposition: the case is still
\* ASSIGNED and nobody is disposing of it.
UncontestedScheduling ==
    \A s \in Sessions : pc[s] = "scheduling" /\ s \notin met =>
        caseStatus = "ASSIGNED" /\ \A t \in Sessions : ~InDisposition(t)

\* A disposition that has passed its checks: every hearing that became active
\* since is contested, and the judgment it names is issued.
ClearedDisposition ==
    \A s \in Sessions : pc[s] = "clear" =>
        /\ \A h \in Hearings : IsActive(h) => h \in contested
        /\ about[s] # Nothing => about[s] \in Judgments /\ judgment[about[s]] = "ISSUED"

\* The other sessions are about rows of the right kind.
SessionShape ==
    \A s \in Sessions :
        /\ pc[s] = "disposing" => about[s] \in Judgments \cup {Nothing}
        /\ pc[s] = "recording" => about[s] \in started

StartedFirst == \A h \in Hearings : hearing[h] = "IN_PROGRESS" => h \in started

HearingInv == AdjournmentsChain /\ RecordsOfHeldHearings /\ StartedFirst

SessionInv == UncontestedScheduling /\ ClearedDisposition /\ SessionShape

IInv == /\ TypeOK
        /\ OnlyContestedHearingsOutlive
        /\ HearingInv
        /\ JudgmentsRestOnHearings
        /\ SessionInv

-------------------------------------------------------------------------------

LEMMA InitIInv == Init => IInv
BY JudicialAssumption
   DEF Init, IInv, TypeOK, OnlyContestedHearingsOutlive, HearingInv,
       AdjournmentsChain, RecordsOfHeldHearings, StartedFirst,
       JudgmentsRestOnHearings, SessionInv, UncontestedScheduling,
       ClearedDisposition, SessionShape, IsActive, InDisposition

\* An ending session leaves the others as they are.
LEMMA EndKeeps ==
    ASSUME TypeOK, NEW s \in Sessions, End(s)
    PROVE  /\ pc' \in [Sessions -> {"none", "scheduling", "recording",
                                    "disposing", "clear"}]
           /\ about' \in [Sessions -> Hearings \cup Judgments \cup {Nothing}]
           /\ met' \subseteq Sessions
           /\ pc'[s] = "none"
           /\ \A t \in Sessions \ {s} : pc'[t] = pc[t] /\ about'[t] = about[t]
                                        /\ (t \in met' <=> t \in met)
BY DEF TypeOK, End

\* What holds of sessions is not disturbed when one ends and the rows they look
\* at stay.
LEMMA EndSession ==
    ASSUME IInv, NEW s \in Sessions, End(s),
           UNCHANGED <<caseStatus, hearing, judgment, contested>>,
           started \subseteq started'
    PROVE  SessionInv'
<1>1. \A t \in Sessions : pc'[t] # "none" =>
          t # s /\ pc'[t] = pc[t] /\ about'[t] = about[t] /\ (t \in met' <=> t \in met)
  BY EndKeeps DEF IInv
<1>2. UncontestedScheduling' /\ ClearedDisposition' /\ SessionShape'
  BY <1>1 DEF IInv, SessionInv, UncontestedScheduling, ClearedDisposition,
       SessionShape, InDisposition, IsActive
<1>3. QED
  BY <1>2 DEF SessionInv

-------------------------------------------------------------------------------

LEMMA CaseStepKeeps == ASSUME IInv, CaseStep PROVE IInv'
<1>1. PICK from, to \in {"AWAITING_ASSIGNMENT", "ASSIGNED", "DISPOSED", "CLOSED"} :
        from # "ASSIGNED" /\ MoveCase(from, to)
        /\ UNCHANGED <<disposedOn, sessionVars, history>>
  BY DEF CaseStep, AssignCase, CloseCase, ReopenCase
<1>2. TypeOK'
  BY <1>1 DEF IInv, TypeOK, MoveCase, hearingVars, judgmentVars, sessionVars, history
<1>3. OnlyContestedHearingsOutlive'
  BY <1>1 DEF IInv, OnlyContestedHearingsOutlive, MoveCase, hearingVars, history,
       IsActive
<1>4. HearingInv' /\ JudgmentsRestOnHearings'
  BY <1>1 DEF IInv, HearingInv, AdjournmentsChain, RecordsOfHeldHearings,
       StartedFirst, JudgmentsRestOnHearings, MoveCase, hearingVars, judgmentVars
<1>5. SessionInv'
  BY <1>1 DEF IInv, SessionInv, UncontestedScheduling, ClearedDisposition,
       SessionShape, InDisposition, IsActive, MoveCase, hearingVars,
       judgmentVars, sessionVars, history
<1>6. QED
  BY <1>2, <1>3, <1>4, <1>5 DEF IInv

-------------------------------------------------------------------------------
(* Hearings. *)

LEMMA ProgressKeeps ==
    ASSUME IInv, NEW h \in Hearings, StartHearing(h) \/ CompleteHearing(h)
    PROVE  IInv'
<1> USE DEF StartHearing, CompleteHearing, MayStart, MayComplete, judgmentVars,
            sessionVars, history
<1>1. PICK to \in {"IN_PROGRESS", "COMPLETED"} :
        /\ IsActive(h)
        /\ hearing' = [hearing EXCEPT ![h] = to]
        /\ started' = started \cup {h}
        /\ UNCHANGED <<caseStatus, adjourned, recorded, judgmentVars, disposedOn,
                       sessionVars, history>>
  BY DEF IInv, HearingInv, StartedFirst, IsActive
<1>2. TypeOK'
  BY <1>1 DEF IInv, TypeOK
<1>3. /\ \A x \in Hearings : IsActive(x)' => IsActive(x)
      /\ \A x \in Hearings : hearing'[x] = "ADJOURNED" <=> hearing[x] = "ADJOURNED"
      /\ \A x \in Hearings : hearing'[x] = "absent" <=> hearing[x] = "absent"
      /\ \A x \in Hearings : hearing[x] = "COMPLETED" => hearing'[x] = "COMPLETED"
      /\ \A x \in Hearings : hearing'[x] \in {"IN_PROGRESS", "COMPLETED"} =>
            x = h \/ hearing[x] = hearing'[x]
  BY <1>1 DEF IInv, TypeOK, IsActive
<1>4. OnlyContestedHearingsOutlive'
  BY <1>1, <1>3 DEF IInv, OnlyContestedHearingsOutlive
<1>5. AdjournmentsChain'
  BY <1>1, <1>3 DEF IInv, HearingInv, AdjournmentsChain, TypeOK, Adjournment
<1>6. RecordsOfHeldHearings' /\ StartedFirst'
  BY <1>1, <1>3 DEF IInv, HearingInv, RecordsOfHeldHearings, StartedFirst
<1>7. JudgmentsRestOnHearings'
  BY <1>1, <1>3 DEF IInv, JudgmentsRestOnHearings
<1>8. SessionInv'
  BY <1>1, <1>3 DEF IInv, SessionInv, UncontestedScheduling, ClearedDisposition,
       SessionShape, InDisposition
<1>9. QED
  BY <1>2, <1>4, <1>5, <1>6, <1>7, <1>8 DEF IInv, HearingInv

LEMMA AdjournmentKeeps ==
    ASSUME IInv, NEW h \in Hearings,
           NEW next \in (Hearings \cup {Nothing}) \ {h}, AdjournHearing(h, next)
    PROVE  IInv'
<1> USE DEF AdjournHearing, MayAdjourn, judgmentVars, sessionVars
<1>1. /\ IsActive(h)
      /\ hearing'[h] = "ADJOURNED"
      /\ \A x \in Hearings : x = next => hearing[x] = "absent" /\ hearing'[x] = "SCHEDULED"
      /\ \A x \in Hearings : x # h /\ x # next => hearing'[x] = hearing[x]
  BY JudicialAssumption
<1>2. TypeOK'
  <2>1. hearing' \in [Hearings -> {"absent", "SCHEDULED", "IN_PROGRESS",
                                   "ADJOURNED", "COMPLETED"}]
    BY DEF IInv, TypeOK
  <2>2. adjourned' \subseteq Adjournment /\ contested' \subseteq Hearings
    BY DEF IInv, TypeOK, Adjournment
  <2>3. QED
    BY <2>1, <2>2 DEF IInv, TypeOK
<1>3. ASSUME NEW x \in Hearings, IsActive(x)'
      PROVE  \/ IsActive(x) /\ x # h
             \/ x = next /\ (h \in contested => x \in contested')
  <2>1. CASE x = next
    <3>1. h \in contested => x \in contested'
      BY <2>1, JudicialAssumption
    <3>2. QED
      BY <2>1, <3>1
  <2>2. CASE x # next
    BY <1>1, <1>3, <2>2 DEF IsActive
  <2>3. QED
    BY <2>1, <2>2
<1>4. contested \subseteq contested'
  OBVIOUS
<1>5. OnlyContestedHearingsOutlive'
  BY <1>1, <1>3, <1>4 DEF IInv, OnlyContestedHearingsOutlive
<1>6. AdjournmentsChain'
  <2>1. \A a \in adjourned : a.of # h /\ (next # Nothing => a.next # next)
    BY <1>1 DEF IInv, HearingInv, AdjournmentsChain, IsActive, TypeOK, Adjournment
  <2>2. \A x \in Hearings : hearing'[x] = "ADJOURNED" <=> \E a \in adjourned' : a.of = x
    <3>1. \A x \in Hearings : hearing[x] = "ADJOURNED" <=> \E a \in adjourned : a.of = x
      BY DEF IInv, HearingInv, AdjournmentsChain
    <3>2. \A x \in Hearings :
             (\E a \in adjourned' : a.of = x) <=> x = h \/ \E a \in adjourned : a.of = x
      <4>1. PICK row : row.of = h /\ adjourned' = adjourned \cup {row}
        OBVIOUS
      <4>2. QED
        BY ONLY <4>1
    <3>3. \A x \in Hearings : hearing'[x] = "ADJOURNED" <=> x = h \/ hearing[x] = "ADJOURNED"
      BY <1>1
    <3>4. QED
      BY <3>1, <3>2, <3>3
  <2>3. \A a, b \in adjourned' :
           a.of = b.of \/ (a.next = b.next /\ a.next # Nothing) => a = b
    BY <2>1 DEF IInv, HearingInv, AdjournmentsChain
  <2>4. \A a \in adjourned' : a.next # Nothing => hearing'[a.next] # "absent"
    <3>1. \A a \in adjourned : a.next # Nothing =>
             a.next \in Hearings /\ hearing[a.next] # "absent"
      BY DEF IInv, HearingInv, AdjournmentsChain, TypeOK, Adjournment
    <3>2. next # Nothing => hearing'[next] # "absent"
      BY <1>1
    <3>3. QED
      BY <1>1, <3>1, <3>2
  <2>5. QED
    BY <2>2, <2>3, <2>4 DEF AdjournmentsChain
<1>7. RecordsOfHeldHearings' /\ StartedFirst'
  BY <1>1 DEF IInv, HearingInv, RecordsOfHeldHearings, StartedFirst
<1>8. JudgmentsRestOnHearings'
  BY <1>1 DEF IInv, JudgmentsRestOnHearings, IsActive
<1>9. SessionInv'
  BY <1>1, <1>3, <1>4 DEF IInv, SessionInv, UncontestedScheduling,
       ClearedDisposition, SessionShape, InDisposition
<1>10. QED
  BY <1>2, <1>5, <1>6, <1>7, <1>8, <1>9 DEF IInv, HearingInv

LEMMA HearingStepKeeps == ASSUME IInv, HearingStep PROVE IInv'
BY ProgressKeeps, AdjournmentKeeps DEF HearingStep

-------------------------------------------------------------------------------
(* Judgments. *)

LEMMA JudgmentStepKeeps == ASSUME IInv, JudgmentStep PROVE IInv'
<1> USE DEF hearingVars, sessionVars, history
<1>1. PICK j \in Judgments :
        \/ \E h \in Hearings : CreateJudgment(j, h)
        \/ UpdateJudgmentDraft(j)
        \/ \E to \in {"FINAL", "SIGNED", "ISSUED"} :
              \E from \in {"DRAFT", "FINAL", "SIGNED"} : MoveJudgment(j, from, to)
  BY DEF JudgmentStep, ReviewJudgment, SignJudgment, IssueJudgment
<1>2. UNCHANGED <<caseStatus, hearingVars, disposedOn, sessionVars, history>>
  BY <1>1 DEF CreateJudgment, UpdateJudgmentDraft, MoveJudgment
<1>3. TypeOK'
  <2>1. CASE \E h \in Hearings : CreateJudgment(j, h)
    BY <1>2, <2>1, JudicialAssumption DEF CreateJudgment, IInv, TypeOK
  <2>2. CASE UpdateJudgmentDraft(j)
    BY <1>2, <2>2, JudicialAssumption DEF UpdateJudgmentDraft, IInv, TypeOK
  <2>3. CASE \E to \in {"FINAL", "SIGNED", "ISSUED"} :
               \E from \in {"DRAFT", "FINAL", "SIGNED"} : MoveJudgment(j, from, to)
    BY <1>2, <2>3 DEF MoveJudgment, IInv, TypeOK
  <2>4. QED
    BY <1>1, <2>1, <2>2, <2>3
<1>4. \A i \in Judgments : judgment[i] = "ISSUED" => judgment'[i] = "ISSUED"
  BY <1>1 DEF CreateJudgment, UpdateJudgmentDraft, MayEdit, MoveJudgment, IInv, TypeOK
<1>5. \A i \in Judgments : judgment'[i] # "absent" =>
         \/ judgment[i] # "absent" /\ restsOn'[i] = restsOn[i]
         \/ restsOn'[i] \in Hearings /\ hearing[restsOn'[i]] = "COMPLETED"
  <2>1. CASE \E h \in Hearings : CreateJudgment(j, h)
    BY <2>1 DEF CreateJudgment, MayBeJudged, IInv, TypeOK
  <2>2. CASE UpdateJudgmentDraft(j)
    BY <2>2 DEF UpdateJudgmentDraft, IInv, TypeOK
  <2>3. CASE \E to \in {"FINAL", "SIGNED", "ISSUED"} :
               \E from \in {"DRAFT", "FINAL", "SIGNED"} : MoveJudgment(j, from, to)
    BY <2>3 DEF MoveJudgment, IInv, TypeOK
  <2>4. QED
    BY <1>1, <2>1, <2>2, <2>3
<1>6. OnlyContestedHearingsOutlive' /\ HearingInv'
  BY <1>2 DEF IInv, OnlyContestedHearingsOutlive, IsActive, HearingInv,
       AdjournmentsChain, RecordsOfHeldHearings, StartedFirst
<1>7. JudgmentsRestOnHearings'
  BY <1>2, <1>4, <1>5 DEF IInv, JudgmentsRestOnHearings, TypeOK
<1>8. SessionInv'
  BY <1>2, <1>4 DEF IInv, SessionInv, UncontestedScheduling, ClearedDisposition,
       SessionShape, InDisposition, IsActive
<1>9. QED
  BY <1>3, <1>6, <1>7, <1>8 DEF IInv

-------------------------------------------------------------------------------
(* Sessions. *)

LEMMA DispositionKeeps ==
    ASSUME IInv, NEW s \in Sessions,
           \/ \E j \in Judgments \cup {Nothing} : BeginDisposition(s, j)
           \/ CheckDisposition(s)
    PROVE  IInv'
<1> USE DEF BeginDisposition, CheckDisposition, Begin, hearingVars, judgmentVars,
            history
<1>1. TypeOK'
  BY DEF IInv, TypeOK
<1>2. UNCHANGED <<caseStatus, hearingVars, judgmentVars, disposedOn, contested>>
  OBVIOUS
<1>3. OnlyContestedHearingsOutlive' /\ HearingInv' /\ JudgmentsRestOnHearings'
  BY <1>2 DEF IInv, OnlyContestedHearingsOutlive, IsActive, HearingInv,
       AdjournmentsChain, RecordsOfHeldHearings, StartedFirst,
       JudgmentsRestOnHearings
<1>4. UncontestedScheduling'
  BY <1>2 DEF IInv, TypeOK, SessionInv, UncontestedScheduling, InDisposition
<1>5. ClearedDisposition'
  BY <1>2 DEF IInv, TypeOK, SessionInv, ClearedDisposition, SessionShape,
       NoActiveHearing, Issued, IsActive
<1>6. SessionShape'
  BY <1>2 DEF IInv, TypeOK, SessionInv, SessionShape
<1>7. QED
  BY <1>1, <1>3, <1>4, <1>5, <1>6 DEF IInv, SessionInv

LEMMA DisposeKeeps ==
    ASSUME IInv, NEW s \in Sessions, DisposeCase(s)
    PROVE  IInv'
<1> USE DEF DisposeCase, MoveCase, hearingVars, judgmentVars
<1>1. TypeOK'
  BY EndKeeps DEF IInv, TypeOK, SessionInv, ClearedDisposition
<1>2. OnlyContestedHearingsOutlive'
  BY DEF IInv, SessionInv, ClearedDisposition, OnlyContestedHearingsOutlive, IsActive
<1>3. HearingInv' /\ JudgmentsRestOnHearings'
  BY DEF IInv, HearingInv, AdjournmentsChain, RecordsOfHeldHearings, StartedFirst,
       JudgmentsRestOnHearings, SessionInv, ClearedDisposition
<1>4. \A t \in Sessions : pc'[t] # "none" =>
          t # s /\ pc'[t] = pc[t] /\ about'[t] = about[t] /\ (t \in met' <=> t \in met)
  BY EndKeeps DEF IInv
<1>5. \A t \in Sessions : pc[t] = "scheduling" => t \in met
  BY DEF IInv, SessionInv, UncontestedScheduling, InDisposition
<1>6. SessionInv'
  BY <1>4, <1>5 DEF IInv, SessionInv, UncontestedScheduling, ClearedDisposition,
       SessionShape, IsActive
<1>7. QED
  BY <1>1, <1>2, <1>3, <1>6 DEF IInv

LEMMA BeginSchedulingKeeps ==
    ASSUME IInv, NEW s \in Sessions, BeginScheduling(s)
    PROVE  IInv'
<1> USE DEF BeginScheduling, Begin, hearingVars, judgmentVars
<1>1. TypeOK'
  BY DEF IInv, TypeOK
<1>2. OnlyContestedHearingsOutlive' /\ HearingInv' /\ JudgmentsRestOnHearings'
  BY DEF IInv, OnlyContestedHearingsOutlive, IsActive, HearingInv,
       AdjournmentsChain, RecordsOfHeldHearings, StartedFirst,
       JudgmentsRestOnHearings
<1>3. \A t \in Sessions : InDisposition(t)' <=> InDisposition(t)
  BY DEF IInv, TypeOK, InDisposition
<1>4. UncontestedScheduling'
  BY <1>3 DEF IInv, TypeOK, SessionInv, UncontestedScheduling
<1>5. ClearedDisposition' /\ SessionShape'
  BY DEF IInv, TypeOK, SessionInv, ClearedDisposition, SessionShape, IsActive
<1>6. QED
  BY <1>1, <1>2, <1>4, <1>5 DEF IInv, SessionInv

LEMMA ScheduleKeeps ==
    ASSUME IInv, NEW s \in Sessions, NEW h \in Hearings, ScheduleHearing(s, h)
    PROVE  IInv'
<1> USE DEF ScheduleHearing, judgmentVars
<1>1. TypeOK'
  BY EndKeeps DEF IInv, TypeOK
<1>2. /\ \A x \in Hearings : IsActive(x)' => IsActive(x) \/ x = h
      /\ \A x \in Hearings : x # h => hearing'[x] = hearing[x]
      /\ hearing[h] = "absent" /\ hearing'[h] = "SCHEDULED"
      /\ contested \subseteq contested'
      /\ s \in met => h \in contested'
  BY DEF IInv, TypeOK, IsActive
<1>3. s \notin met => caseStatus = "ASSIGNED" /\ \A t \in Sessions : ~InDisposition(t)
  BY DEF IInv, SessionInv, UncontestedScheduling
<1>4. OnlyContestedHearingsOutlive'
  BY <1>2, <1>3 DEF IInv, OnlyContestedHearingsOutlive
<1>5. AdjournmentsChain'
  <2>1. \A x \in Hearings : hearing'[x] = "ADJOURNED" <=> hearing[x] = "ADJOURNED"
    BY <1>2
  <2>2. \A a \in adjourned : a.next # Nothing => a.next \in Hearings
    BY DEF IInv, TypeOK, Adjournment
  <2>3. QED
    BY <1>2, <2>1, <2>2 DEF IInv, HearingInv, AdjournmentsChain
<1>6. RecordsOfHeldHearings' /\ StartedFirst'
  BY <1>2 DEF IInv, HearingInv, RecordsOfHeldHearings, StartedFirst
<1>7. JudgmentsRestOnHearings'
  BY <1>2 DEF IInv, JudgmentsRestOnHearings
<1>8. \A t \in Sessions : pc'[t] # "none" =>
          t # s /\ pc'[t] = pc[t] /\ about'[t] = about[t] /\ (t \in met' <=> t \in met)
  BY EndKeeps DEF IInv
<1>9. SessionInv'
  BY <1>2, <1>3, <1>8 DEF IInv, SessionInv, UncontestedScheduling,
       ClearedDisposition, SessionShape, InDisposition
<1>10. QED
  BY <1>1, <1>4, <1>5, <1>6, <1>7, <1>9 DEF IInv, HearingInv

LEMMA BeginRecordKeeps ==
    ASSUME IInv, NEW s \in Sessions, NEW h \in Hearings, BeginRecord(s, h)
    PROVE  IInv'
<1> USE DEF BeginRecord, InSession, Begin, hearingVars, judgmentVars, history
<1>1. TypeOK'
  BY DEF IInv, TypeOK
<1>2. OnlyContestedHearingsOutlive' /\ HearingInv' /\ JudgmentsRestOnHearings'
  BY DEF IInv, OnlyContestedHearingsOutlive, IsActive, HearingInv,
       AdjournmentsChain, RecordsOfHeldHearings, StartedFirst,
       JudgmentsRestOnHearings
<1>3. SessionInv'
  BY DEF IInv, TypeOK, HearingInv, StartedFirst, SessionInv,
       UncontestedScheduling, ClearedDisposition, SessionShape, InDisposition,
       IsActive
<1>4. QED
  BY <1>1, <1>2, <1>3 DEF IInv

LEMMA EndingKeeps ==
    ASSUME IInv, NEW s \in Sessions, CommitRecord(s) \/ Rollback(s)
    PROVE  IInv'
<1> USE DEF CommitRecord, Rollback, hearingVars, judgmentVars
<1>1. /\ End(s)
      /\ UNCHANGED <<caseStatus, hearing, started, adjourned, judgmentVars,
                     disposedOn, contested>>
      /\ recorded' \subseteq recorded \cup started
  BY DEF IInv, SessionInv, SessionShape
<1>2. TypeOK'
  BY <1>1, EndKeeps DEF IInv, TypeOK
<1>3. OnlyContestedHearingsOutlive' /\ HearingInv' /\ JudgmentsRestOnHearings'
  BY <1>1 DEF IInv, OnlyContestedHearingsOutlive, IsActive, HearingInv,
       AdjournmentsChain, RecordsOfHeldHearings, StartedFirst,
       JudgmentsRestOnHearings
<1>4. SessionInv'
  BY <1>1, EndSession
<1>5. QED
  BY <1>2, <1>3, <1>4 DEF IInv

LEMMA Stutter == ASSUME IInv, UNCHANGED vars PROVE IInv'
BY DEF vars, IInv, TypeOK, OnlyContestedHearingsOutlive, IsActive, HearingInv,
       AdjournmentsChain, RecordsOfHeldHearings, StartedFirst,
       JudgmentsRestOnHearings, SessionInv, UncontestedScheduling,
       ClearedDisposition, SessionShape, InDisposition

\* The inductive invariant.
THEOREM Invariance == Spec => []IInv
<1>1. ASSUME IInv, [Next]_vars PROVE IInv'
  <2>1. CASE SessionStep
    BY <1>1, <2>1, DispositionKeeps, DisposeKeeps, BeginSchedulingKeeps,
       ScheduleKeeps, BeginRecordKeeps, EndingKeeps DEF SessionStep
  <2>2. QED
    BY <1>1, <2>1, CaseStepKeeps, HearingStepKeeps, JudgmentStepKeeps, Stutter
       DEF Next
<1>2. QED
  BY InitIInv, <1>1, PTL DEF Spec

-------------------------------------------------------------------------------

\* Statuses, identifiers and versions stay in their ranges.
THEOREM TypeInvariant == Spec => []TypeOK
<1>1. IInv => TypeOK
  BY DEF IInv
<1>2. QED
  BY <1>1, Invariance, PTL

\* disposeCase() checks for active hearings without a lock: only a scheduling
\* that overlapped a disposition can leave one behind.
THEOREM DispositionsAreClean == Spec => []OnlyContestedHearingsOutlive
<1>1. IInv => OnlyContestedHearingsOutlive
  BY DEF IInv
<1>2. QED
  BY <1>1, Invariance, PTL

\* adjournHearing(): one adjournment for each adjourned hearing, and no hearing
\* is the successor of two.
THEOREM ChainsHold == Spec => []AdjournmentsChain
<1>1. IInv => AdjournmentsChain
  BY DEF IInv, HearingInv
<1>2. QED
  BY <1>1, Invariance, PTL

\* recordAppearance() and recordProceeding(): what was recorded was started.
THEOREM RecordsRest == Spec => []RecordsOfHeldHearings
<1>1. IInv => RecordsOfHeldHearings
  BY DEF IInv, HearingInv
<1>2. QED
  BY <1>1, Invariance, PTL

\* createJudgment() and disposeCase(): judgments rest on completed hearings,
\* dispositions on issued judgments.
THEOREM HearingsRest == Spec => []JudgmentsRestOnHearings
<1>1. IInv => JudgmentsRestOnHearings
  BY DEF IInv
<1>2. QED
  BY <1>1, Invariance, PTL

Kept == \A j \in Judgments : judgment[j] \in {"FINAL", "SIGNED", "ISSUED"} =>
            /\ version'[j] = version[j]
            /\ restsOn'[j] = restsOn[j]
            /\ judgment'[j] \notin {"absent", "DRAFT"}

LEMMA StepKeepsText == ASSUME TypeOK, Next PROVE Kept
<1> USE DEF judgmentVars
<1>1. CASE JudgmentStep
  <2>1. PICK j \in Judgments :
          \/ \E h \in Hearings : CreateJudgment(j, h)
          \/ UpdateJudgmentDraft(j)
          \/ ReviewJudgment(j) \/ SignJudgment(j) \/ IssueJudgment(j)
    BY <1>1 DEF JudgmentStep
  <2>2. QED
    BY <2>1 DEF CreateJudgment, UpdateJudgmentDraft, MayEdit, ReviewJudgment,
         SignJudgment, IssueJudgment, MoveJudgment, TypeOK, Kept
<1>2. CASE ~JudgmentStep
  <2>1. UNCHANGED judgmentVars
    BY <1>2 DEF Next, CaseStep, AssignCase, CloseCase, ReopenCase, MoveCase,
         HearingStep, StartHearing, CompleteHearing, AdjournHearing,
         SessionStep, BeginDisposition, CheckDisposition, DisposeCase,
         BeginScheduling, ScheduleHearing, BeginRecord, CommitRecord, Rollback
  <2>2. QED
    BY <2>1 DEF Kept
<1>3. QED
  BY <1>1, <1>2

\* updateJudgmentDraft() and the immutability trigger: a reviewed text is fixed.
THEOREM TextsAreFixed == Spec => FinalTextIsFixed
<1>1. ASSUME TypeOK, [Next]_vars PROVE [Kept]_vars
  BY <1>1, StepKeepsText
<1>2. QED
  BY <1>1, TypeInvariant, PTL DEF Spec, FinalTextIsFixed, Kept
===============================================================================
