------------------------------ MODULE JobsProofs ------------------------------
(***************************************************************************)
(* Proofs about Jobs, for every number of servers, ticks, crashes and      *)
(* bounces: the advisory lock, which lives in the database, is with the    *)
(* run that works in the handler and with no other; and what one run asks  *)
(* the mail provider for begins where the runs before it have covered.     *)
(***************************************************************************)
EXTENDS Jobs, TLAPS

\* A lock that is not free belongs to a run that is still there.
LockHasHolder == lock # NoRun => pc[lock] \in Holding

JobsInv == TypeOK /\ OneAtATime /\ LockHasHolder

LEMMA InitJobs == Init => JobsInv
<1> SUFFICES ASSUME Init PROVE JobsInv
  OBVIOUS
<1>1. MaxTime \in Nat /\ MaxTime >= 1 /\ MaxCrashes \in Nat
  BY JobsAssumption DEF MaxTime
<1>2. TypeOK
  BY <1>1 DEF Init, TypeOK
<1>3. OneAtATime /\ LockHasHolder
  BY DEF Init, OneAtATime, LockHasHolder, Holding
<1> QED
  BY <1>2, <1>3 DEF JobsInv

-----------------------------------------------------------------------------
(* Kinds of steps of one run                                               *)

\* A step that neither takes nor returns the lock, of a run that does not
\* have it or keeps it.
LEMMA LockStays ==
  ASSUME JobsInv, TypeOK', NEW r \in Runs, NEW to,
         pc' = [pc EXCEPT ![r] = to], lock' = lock,
         to \in Holding <=> pc[r] \in Holding
  PROVE  JobsInv'
<1>1. OneAtATime'
  BY DEF JobsInv, TypeOK, OneAtATime
<1>2. LockHasHolder'
  BY DEF JobsInv, TypeOK, LockHasHolder
<1> QED
  BY <1>1, <1>2 DEF JobsInv

\* A run that had the lock ends, and the lock is free.
LEMMA LockReturned ==
  ASSUME JobsInv, TypeOK', NEW r \in Runs, NEW to,
         pc' = [pc EXCEPT ![r] = to], lock' = NoRun,
         pc[r] \in Holding, to \notin Holding
  PROVE  JobsInv'
<1>1. OneAtATime'
  BY DEF JobsInv, TypeOK, OneAtATime
<1> QED
  BY <1>1 DEF JobsInv, LockHasHolder

-----------------------------------------------------------------------------
\* What a run writes into its own variables, and the database into its own,
\* keeps their types.
LEMMA RunTypes ==
  ASSUME JobsInv, NEW r \in Runs, RunStep(r)
  PROVE  TypeOK'
<1>t. TypeOK
  BY DEF JobsInv
<1>m. MaxTime \in Nat
  BY JobsAssumption DEF MaxTime
<1> USE DEF worldVars, localVars, dbVars, Goto, Return, Holding, Running
<1>1. CASE Begin(r)
  BY <1>t, <1>m, <1>1 DEF Begin, TypeOK
<1>2. CASE BeginFails(r)
  BY <1>t, <1>m, <1>2 DEF BeginFails, TypeOK
<1>3. CASE ReadLastSuccess(r)
  BY <1>t, <1>m, <1>3 DEF ReadLastSuccess, TypeOK
<1>4. CASE TryLock(r)
  BY <1>t, <1>m, <1>4 DEF TryLock, TypeOK
<1>5. CASE Skip(r)
  BY <1>t, <1>m, <1>5 DEF Skip, TypeOK
<1>6. ASSUME NEW result \in {"ran", "errored", "panicked"}, Handle(r, result) PROVE TypeOK'
  BY <1>t, <1>m, <1>6 DEF Handle, TypeOK
<1>7. ASSUME NEW result \in {"errored", "panicked"}, HandleFails(r, result) PROVE TypeOK'
  BY <1>t, <1>m, <1>7 DEF HandleFails, TypeOK
<1>8. CASE MarkSuccess(r)
  BY <1>t, <1>m, <1>8 DEF MarkSuccess, TypeOK
<1>9. ASSUME NEW result \in {"marked", "panicked"}, MarkSuccessFails(r, result) PROVE TypeOK'
  BY <1>t, <1>m, <1>9 DEF MarkSuccessFails, TypeOK
<1>10. CASE Commit(r) \/ CommitFails(r)
  BY <1>t, <1>m, <1>10 DEF Commit, CommitFails, TypeOK
<1>11. CASE Rollback(r) \/ MarkFailureFails(r)
  BY <1>t, <1>m, <1>11 DEF Rollback, MarkFailureFails, TypeOK
<1>12. ASSUME NEW ok \in BOOLEAN, FinishPanic(r, ok) PROVE TypeOK'
  BY <1>t, <1>m, <1>12 DEF FinishPanic, TypeOK
<1> QED
  BY <1>1, <1>2, <1>3, <1>4, <1>5, <1>6, <1>7, <1>8, <1>9, <1>10, <1>11, <1>12 DEF RunStep

LEMMA RunPreserves ==
  ASSUME JobsInv, NEW r \in Runs, RunStep(r)
  PROVE  JobsInv'
<1>t. TypeOK'
  BY RunTypes
<1> USE DEF worldVars, localVars, dbVars, Goto, Return, Holding, Running
<1>1. CASE Begin(r) \/ BeginFails(r) \/ ReadLastSuccess(r) \/ Skip(r)
  BY <1>t, <1>1, LockStays DEF Begin, BeginFails, ReadLastSuccess, Skip
<1>2. CASE TryLock(r)
  <2>1. \A q \in Runs : pc[q] \notin Holding
    BY <1>2, NoRunAssumption DEF TryLock, JobsInv, OneAtATime
  <2>2. OneAtATime' /\ LockHasHolder'
    BY <1>2, <2>1 DEF TryLock, JobsInv, TypeOK, OneAtATime, LockHasHolder
  <2> QED
    BY <1>t, <2>2 DEF JobsInv
<1>3. ASSUME NEW result \in {"ran", "errored", "panicked"}, Handle(r, result) PROVE JobsInv'
  BY <1>t, <1>3, LockStays DEF Handle
<1>4. ASSUME NEW result \in {"errored", "panicked"}, HandleFails(r, result) PROVE JobsInv'
  BY <1>t, <1>4, LockStays DEF HandleFails
<1>5. CASE MarkSuccess(r) \/ MarkFailureFails(r)
  BY <1>t, <1>5, LockStays DEF MarkSuccess, MarkFailureFails
<1>6. ASSUME NEW result \in {"marked", "panicked"}, MarkSuccessFails(r, result) PROVE JobsInv'
  BY <1>t, <1>6, LockStays DEF MarkSuccessFails
<1>7. CASE Commit(r) \/ CommitFails(r) \/ Rollback(r)
  BY <1>t, <1>7, LockReturned DEF Commit, CommitFails, Rollback
<1>8. ASSUME NEW ok \in BOOLEAN, FinishPanic(r, ok) PROVE JobsInv'
  BY <1>t, <1>8, LockReturned DEF FinishPanic
<1> QED
  BY <1>1, <1>2, <1>3, <1>4, <1>5, <1>6, <1>7, <1>8 DEF RunStep

LEMMA StepJobs == JobsInv /\ [Next]_vars => JobsInv'
<1> SUFFICES ASSUME JobsInv, [Next]_vars PROVE JobsInv'
  OBVIOUS
<1>t. TypeOK
  BY DEF JobsInv
<1>m. MaxTime \in Nat /\ MaxCrashes \in Nat
  BY JobsAssumption DEF MaxTime
<1> USE DEF localVars, dbVars, Holding, Running
<1>1. ASSUME NEW r \in Runs, RunStep(r) PROVE JobsInv'
  BY <1>1, RunPreserves
<1>2. ASSUME Advance PROVE JobsInv'
  <2>1. TypeOK'
    BY <1>t, <1>m, <1>2 DEF Advance, TypeOK
  <2>2. OneAtATime' /\ LockHasHolder'
    BY <1>t, <1>2 DEF Advance, TypeOK, JobsInv, OneAtATime, LockHasHolder
  <2> QED
    BY <2>1, <2>2 DEF JobsInv
<1>3. ASSUME NEW b \in Bounces, Bounce(b) PROVE JobsInv'
  <2>1. TypeOK'
    BY <1>t, <1>m, <1>3 DEF Bounce, TypeOK
  <2>2. OneAtATime' /\ LockHasHolder'
    BY <1>3 DEF Bounce, JobsInv, OneAtATime, LockHasHolder
  <2> QED
    BY <2>1, <2>2 DEF JobsInv
<1>4. ASSUME NEW s \in Servers, Crash(s) PROVE JobsInv'
  <2> DEFINE dying == {r \in Runs : Server(r) = s /\ pc[r] \in Running}
  <2>1. /\ pc' \in [Runs -> {"due", "skipped", "over"} \cup Running]
        /\ \A r \in dying : pc'[r] = "over"
        /\ \A r \in Runs \ dying : pc'[r] = pc[r] \/ (pc[r] = "due" /\ pc'[r] = "skipped")
    BY <1>t, <1>4 DEF Crash, TypeOK
  <2>2. lock' = IF lock \in dying THEN NoRun ELSE lock
    BY <1>4 DEF Crash
  <2>3. TypeOK'
    <3>1. up' \in [Servers -> BOOLEAN] /\ crashes' \in 0..MaxCrashes
      BY <1>t, <1>m, <1>4 DEF Crash, TypeOK
    <3>2. /\ start' \in [Runs -> 0..MaxTime] /\ since' \in [Runs -> 0..MaxTime]
          /\ marking' \in [Runs -> SUBSET Bounces]
      BY <1>t, <1>m, <1>4 DEF Crash, TypeOK
    <3>3. cutShort' \in SUBSET Bounces
      BY <1>t, <1>4 DEF Crash, TypeOK
    <3>4. lock' \in Runs \cup {NoRun}
      BY <1>t, <2>2 DEF TypeOK
    <3> QED
      BY <1>t, <1>4, <2>1, <3>1, <3>2, <3>3, <3>4 DEF Crash, TypeOK
  <2>4. OneAtATime' /\ LockHasHolder'
    BY <1>t, <2>1, <2>2 DEF TypeOK, JobsInv, OneAtATime, LockHasHolder
  <2> QED
    BY <2>3, <2>4 DEF JobsInv
<1>5. ASSUME NEW s \in Servers, Restart(s) PROVE JobsInv'
  <2>1. TypeOK'
    BY <1>t, <1>m, <1>5 DEF Restart, TypeOK
  <2>2. OneAtATime' /\ LockHasHolder'
    BY <1>5 DEF Restart, JobsInv, OneAtATime, LockHasHolder
  <2> QED
    BY <2>1, <2>2 DEF JobsInv
<1>6. ASSUME UNCHANGED vars PROVE JobsInv'
  BY <1>6 DEF vars, JobsInv, TypeOK, OneAtATime, LockHasHolder
<1> QED
  BY <1>1, <1>2, <1>3, <1>4, <1>5, <1>6 DEF Next

\* At any moment at most one run, on whichever server, is in the handler or
\* has uncommitted work of it, however servers crash and panics are cleaned up.
THEOREM AlwaysOneAtATime == Spec => []OneAtATime
<1>1. Spec => []JobsInv
  BY InitJobs, StepJobs, PTL DEF Spec
<1> QED
  BY <1>1, PTL DEF JobsInv

\* The variables of every run and of the database keep their types.
THEOREM RunsKeepTheirTypes == Spec => []TypeOK
<1>1. Spec => []JobsInv
  BY InitJobs, StepJobs, PTL DEF Spec
<1> QED
  BY <1>1, PTL DEF JobsInv

-----------------------------------------------------------------------------
(* Windows leave no gap.  lastSuccess goes back and forth, so what is      *)
(* invariant is said of every value a run may bring back: what bounced     *)
(* before the time a run read is covered, and what bounced before its      *)
(* start is covered or in its own transaction once it has fetched.         *)

Covered(b) == b \in suppressed \cup cutShort \/ \E r \in Runs : pc[r] = "marked" /\ b \in marking[r]

Before(b, t) == bounced[b] # 0 /\ bounced[b] < t

ClockIsAhead ==
  /\ lastSuccess <= now
  /\ \A r \in Runs : start[r] <= now /\ since[r] <= now

ReadTimesCovered == \A r \in Runs, b \in Bounces : Before(b, since[r]) => Covered(b)

FetchedTimesCovered ==
  \A r \in Runs, b \in Bounces : pc[r] = "ran" /\ Before(b, start[r]) => Covered(b) \/ b \in marking[r]

WindowsInv == ClockIsAhead /\ WindowsLeaveNoGap /\ ReadTimesCovered /\ FetchedTimesCovered

LEMMA InitWindows == Init => WindowsInv
BY DEF Init, WindowsInv, ClockIsAhead, WindowsLeaveNoGap, ReadTimesCovered, FetchedTimesCovered, Before

LEMMA TimesAreNumbers ==
  ASSUME TypeOK
  PROVE  /\ now \in Nat /\ now >= 1 /\ lastSuccess \in Nat
         /\ \A r \in Runs : start[r] \in Nat /\ since[r] \in Nat
         /\ \A b \in Bounces : bounced[b] \in Nat
BY JobsAssumption DEF TypeOK, MaxTime

\* What is covered stays so when the rows of the database are kept, and no
\* run forgets what it marked before it ends.
LEMMA CoveredStays ==
  ASSUME suppressed \subseteq suppressed', cutShort \subseteq cutShort',
         \A r \in Runs : pc[r] = "marked" =>
           \/ pc'[r] = "marked" /\ marking'[r] = marking[r]
           \/ marking[r] \subseteq suppressed' \cup cutShort'
  PROVE  \A b : Covered(b) => Covered(b)'
BY DEF Covered

\* Steps that read no time and record none.
LEMMA TimesStay ==
  ASSUME WindowsInv, \A b : Covered(b) => Covered(b)',
         TypeOK, now' = now, bounced' = bounced, lastSuccess' = lastSuccess,
         \A q \in Runs : /\ since'[q] = since[q] \/ since'[q] = 0
                         /\ start'[q] = start[q] \/ start'[q] \in 0..now,
         \A q \in Runs : pc'[q] = "ran" =>
           pc[q] = "ran" /\ start'[q] = start[q] /\ marking'[q] = marking[q]
  PROVE  WindowsInv'
<1>1. ClockIsAhead'
  BY TimesAreNumbers DEF WindowsInv, ClockIsAhead
<1>2. WindowsLeaveNoGap'
  <2>1. \A b \in Bounces : Before(b, lastSuccess) => Covered(b)
    BY DEF WindowsInv, WindowsLeaveNoGap, Covered, Before
  <2>2. \A b \in Bounces : Before(b, lastSuccess)' => Covered(b)'
    BY <2>1 DEF Before
  <2> QED
    BY <2>2 DEF WindowsLeaveNoGap, Covered, Before
<1>3. ReadTimesCovered'
  <2> SUFFICES ASSUME NEW q \in Runs, NEW b \in Bounces, Before(b, since[q])'
               PROVE  Covered(b)'
    BY DEF ReadTimesCovered
  <2>1. Before(b, since[q])
    BY TimesAreNumbers DEF Before
  <2> QED
    BY <2>1 DEF WindowsInv, ReadTimesCovered
<1>4. FetchedTimesCovered'
  BY DEF WindowsInv, FetchedTimesCovered, Before
<1> QED
  BY <1>1, <1>2, <1>3, <1>4 DEF WindowsInv

LEMMA RunKeepsWindows ==
  ASSUME WindowsInv, TypeOK, NEW r \in Runs, RunStep(r)
  PROVE  WindowsInv'
<1> USE DEF worldVars, localVars, dbVars, Goto, Return
<1>t. /\ pc \in [Runs -> {"due", "skipped", "over"} \cup Running]
      /\ start \in [Runs -> 0..MaxTime] /\ since \in [Runs -> 0..MaxTime]
      /\ marking \in [Runs -> SUBSET Bounces]
  BY DEF TypeOK
<1>0. \A b : Covered(b) => Covered(b)'
  <2>1. CASE Begin(r) \/ BeginFails(r) \/ ReadLastSuccess(r) \/ TryLock(r) \/ Skip(r) \/ MarkSuccess(r)
             \/ Rollback(r) \/ MarkFailureFails(r)
    BY <1>t, <2>1, CoveredStays DEF Begin, BeginFails, ReadLastSuccess, TryLock, Skip, MarkSuccess, Rollback, MarkFailureFails
  <2>2. ASSUME NEW result \in {"ran", "errored", "panicked"}, Handle(r, result) PROVE \A b : Covered(b) => Covered(b)'
    BY <1>t, <2>2, CoveredStays DEF Handle
  <2>3. ASSUME NEW result, HandleFails(r, result) PROVE \A b : Covered(b) => Covered(b)'
    BY <1>t, <2>3, CoveredStays DEF HandleFails
  <2>4. ASSUME NEW result, MarkSuccessFails(r, result) PROVE \A b : Covered(b) => Covered(b)'
    BY <1>t, <2>4, CoveredStays DEF MarkSuccessFails
  <2>5. CASE Commit(r) \/ CommitFails(r)
    BY <1>t, <2>5, CoveredStays DEF Commit, CommitFails
  <2>6. ASSUME NEW ok \in BOOLEAN, FinishPanic(r, ok) PROVE \A b : Covered(b) => Covered(b)'
    BY <1>t, <2>6, CoveredStays DEF FinishPanic
  <2> QED
    BY <2>1, <2>2, <2>3, <2>4, <2>5, <2>6 DEF RunStep
<1>n. now \in Nat /\ 0 \in 0..now /\ now \in 0..now
  BY TimesAreNumbers
<1>1. CASE Begin(r) \/ BeginFails(r) \/ TryLock(r) \/ Skip(r) \/ Rollback(r) \/ MarkFailureFails(r)
  BY <1>t, <1>n, <1>0, <1>1, TimesStay DEF Begin, BeginFails, TryLock, Skip, Rollback, MarkFailureFails
<1>2. CASE ReadLastSuccess(r)
  <2>1. since'[r] = lastSuccess /\ \A q \in Runs : q # r => since'[q] = since[q]
    BY <1>t, <1>2 DEF ReadLastSuccess
  <2>2. UNCHANGED <<now, bounced, lastSuccess, suppressed, cutShort, marking, start>>
    BY <1>2 DEF ReadLastSuccess
  <2>3. \A q \in Runs : pc'[q] \in {"ran", "marked"} <=> pc[q] \in {"ran", "marked"}
    BY <1>t, <1>2 DEF ReadLastSuccess
  <2>4. \A q \in Runs : pc'[q] \in {"ran", "marked"} => pc'[q] = pc[q]
    BY <1>t, <1>2 DEF ReadLastSuccess
  <2>5. ClockIsAhead'
    BY <2>1, <2>2 DEF WindowsInv, ClockIsAhead
  <2>6. \A b \in Bounces : Before(b, lastSuccess) => Covered(b)
    BY DEF WindowsInv, WindowsLeaveNoGap, Covered, Before
  <2>7. WindowsLeaveNoGap'
    <3>1. \A b \in Bounces : Before(b, lastSuccess)' => Covered(b)'
      BY <1>0, <2>2, <2>6 DEF Before
    <3> QED
      BY <3>1 DEF WindowsLeaveNoGap, Covered, Before
  <2>8. ReadTimesCovered'
    <3> SUFFICES ASSUME NEW q \in Runs, NEW b \in Bounces, Before(b, since[q])'
                 PROVE  Covered(b)
      BY <1>0 DEF ReadTimesCovered
    <3>1. CASE q = r
      BY <2>1, <2>2, <2>6, <3>1 DEF Before
    <3>2. CASE q # r
      <4>1. Before(b, since[q])
        BY <2>1, <2>2, <3>2 DEF Before
      <4> QED
        BY <4>1 DEF WindowsInv, ReadTimesCovered
    <3> QED
      BY <3>1, <3>2
  <2>9. FetchedTimesCovered'
    BY <1>0, <2>2, <2>4 DEF WindowsInv, FetchedTimesCovered, Before
  <2> QED
    BY <2>5, <2>7, <2>8, <2>9 DEF WindowsInv
<1>3. ASSUME NEW result \in {"ran", "errored", "panicked"}, Handle(r, result) PROVE WindowsInv'
  <2>1. UNCHANGED <<now, bounced, lastSuccess, suppressed, cutShort, start, since>>
    BY <1>3 DEF Handle
  <2>2. \A q \in Runs : q # r => pc'[q] = pc[q] /\ marking'[q] = marking[q]
    BY <1>t, <1>3 DEF Handle
  <2>3. marking'[r] = {b \in Bounces \ suppressed : bounced[b] # 0 /\ bounced[b] >= since[r]}
    BY <1>t, <1>3 DEF Handle
  <2>5. ClockIsAhead'
    BY <2>1 DEF WindowsInv, ClockIsAhead
  <2>6. WindowsLeaveNoGap'
    <3>1. \A b \in Bounces : Before(b, lastSuccess) => Covered(b)
      BY DEF WindowsInv, WindowsLeaveNoGap, Covered, Before
    <3>2. \A b \in Bounces : Before(b, lastSuccess)' => Covered(b)'
      BY <1>0, <2>1, <3>1 DEF Before
    <3> QED
      BY <3>2 DEF WindowsLeaveNoGap, Covered, Before
  <2>7. ReadTimesCovered'
    BY <1>0, <2>1 DEF WindowsInv, ReadTimesCovered, Before
  <2>8. FetchedTimesCovered'
    <3> SUFFICES ASSUME NEW q \in Runs, NEW b \in Bounces, pc'[q] = "ran", Before(b, start[q])'
                 PROVE  Covered(b)' \/ b \in marking'[q]
      BY DEF FetchedTimesCovered
    <3>1. CASE q # r
      BY <1>0, <2>1, <2>2, <3>1 DEF WindowsInv, FetchedTimesCovered, Before
    <3>2. CASE q = r
      <4>1. CASE Before(b, since[r])
        BY <1>0, <4>1 DEF WindowsInv, ReadTimesCovered
      <4>2. CASE ~Before(b, since[r])
        <5>1. bounced[b] # 0 /\ bounced[b] >= since[r]
          BY <2>1, <3>2, <4>2, TimesAreNumbers DEF Before
        <5>2. CASE b \in suppressed
          BY <1>0, <5>2 DEF Covered
        <5>3. CASE b \notin suppressed
          BY <2>3, <3>2, <5>1, <5>3
        <5> QED
          BY <5>2, <5>3
      <4> QED
        BY <4>1, <4>2
    <3> QED
      BY <3>1, <3>2
  <2> QED
    BY <2>5, <2>6, <2>7, <2>8 DEF WindowsInv
<1>4. ASSUME NEW result \in {"errored", "panicked"}, HandleFails(r, result) PROVE WindowsInv'
  BY <1>t, <1>0, <1>4, TimesStay DEF HandleFails
<1>5. CASE MarkSuccess(r)
  <2>1. UNCHANGED <<now, bounced, suppressed, cutShort, start, since, marking>> /\ lastSuccess' = start[r]
    BY <1>5 DEF MarkSuccess
  <2>2. pc[r] = "ran" /\ pc'[r] = "marked" /\ \A q \in Runs : q # r => pc'[q] = pc[q]
    BY <1>t, <1>5 DEF MarkSuccess
  <2>3. ClockIsAhead'
    BY <2>1 DEF WindowsInv, ClockIsAhead
  <2>4. WindowsLeaveNoGap'
    <3>1. \A b \in Bounces : Before(b, start[r]) => Covered(b) \/ b \in marking[r]
      BY <2>2 DEF WindowsInv, FetchedTimesCovered
    <3>2. \A b \in Bounces : Before(b, start[r]) => Covered(b)'
      BY <1>0, <2>1, <2>2, <3>1 DEF Covered
    <3> QED
      BY <2>1, <3>2 DEF WindowsLeaveNoGap, Covered, Before
  <2>5. ReadTimesCovered'
    BY <1>0, <2>1 DEF WindowsInv, ReadTimesCovered, Before
  <2>6. FetchedTimesCovered'
    BY <1>0, <2>1, <2>2 DEF WindowsInv, FetchedTimesCovered, Before
  <2> QED
    BY <2>3, <2>4, <2>5, <2>6 DEF WindowsInv
<1>6. ASSUME NEW result \in {"marked", "panicked"}, MarkSuccessFails(r, result) PROVE WindowsInv'
  BY <1>t, <1>0, <1>6, TimesStay DEF MarkSuccessFails
<1>7. CASE Commit(r) \/ CommitFails(r)
  BY <1>t, <1>n, <1>0, <1>7, TimesStay DEF Commit, CommitFails
<1>8. ASSUME NEW ok \in BOOLEAN, FinishPanic(r, ok) PROVE WindowsInv'
  BY <1>t, <1>n, <1>0, <1>8, TimesStay DEF FinishPanic
<1> QED
  BY <1>1, <1>2, <1>3, <1>4, <1>5, <1>6, <1>7, <1>8 DEF RunStep

LEMMA StepWindows == TypeOK /\ WindowsInv /\ [Next]_vars => WindowsInv'
<1> SUFFICES ASSUME TypeOK, WindowsInv, [Next]_vars PROVE WindowsInv'
  OBVIOUS
<1>g. \A b \in Bounces : Before(b, lastSuccess) => Covered(b)
  BY DEF WindowsInv, WindowsLeaveNoGap, Covered, Before
<1> USE DEF localVars, dbVars
<1>1. ASSUME NEW r \in Runs, RunStep(r) PROVE WindowsInv'
  BY <1>1, RunKeepsWindows
<1>2. ASSUME Advance PROVE WindowsInv'
  <2>1. UNCHANGED <<bounced, lastSuccess, suppressed, cutShort, start, since, marking>> /\ now' = now + 1
    BY <1>2 DEF Advance
  <2>2. \A q \in Runs : pc'[q] = pc[q] \/ (pc[q] = "due" /\ pc'[q] = "skipped")
    BY <1>2 DEF Advance
  <2>3. \A b : Covered(b) => Covered(b)'
    BY <2>1, <2>2, CoveredStays
  <2>4. ClockIsAhead'
    BY <2>1, TimesAreNumbers DEF WindowsInv, ClockIsAhead
  <2>5. WindowsLeaveNoGap'
    BY <1>g, <2>1, <2>3 DEF WindowsLeaveNoGap, Covered, Before
  <2>6. ReadTimesCovered' /\ FetchedTimesCovered'
    BY <2>1, <2>2, <2>3 DEF WindowsInv, ReadTimesCovered, FetchedTimesCovered, Before
  <2> QED
    BY <2>4, <2>5, <2>6 DEF WindowsInv
<1>3. ASSUME NEW b \in Bounces, Bounce(b) PROVE WindowsInv'
  <2>1. UNCHANGED <<now, lastSuccess, suppressed, cutShort, start, since, marking, pc>>
    BY <1>3 DEF Bounce
  <2>2. bounced'[b] = now /\ \A c \in Bounces : c # b => bounced'[c] = bounced[c]
    BY <1>3 DEF Bounce, TypeOK
  <2>3. \A c : Covered(c) => Covered(c)'
    BY <2>1, CoveredStays
  <2>4. \A t \in Nat : t <= now => ~(now < t)
    BY TimesAreNumbers
  <2>5. \A c \in Bounces, t \in Nat : t <= now /\ bounced'[c] # 0 /\ bounced'[c] < t => Before(c, t)
    BY <2>2, <2>4 DEF Before
  <2>6. ClockIsAhead'
    BY <2>1 DEF WindowsInv, ClockIsAhead
  <2>7. lastSuccess <= now /\ \A q \in Runs : start[q] <= now /\ since[q] <= now
    BY DEF WindowsInv, ClockIsAhead
  <2>8. WindowsLeaveNoGap'
    <3>1. \A c \in Bounces : bounced'[c] # 0 /\ bounced'[c] < lastSuccess => Covered(c)'
      BY <1>g, <2>3, <2>5, <2>7, TimesAreNumbers
    <3> QED
      BY <2>1, <3>1 DEF WindowsLeaveNoGap, Covered
  <2>9. ReadTimesCovered'
    <3> SUFFICES ASSUME NEW q \in Runs, NEW c \in Bounces, Before(c, since[q])'
                 PROVE  Covered(c)'
      BY DEF ReadTimesCovered
    <3>1. Before(c, since[q])
      BY <2>1, <2>5, <2>7, TimesAreNumbers DEF Before
    <3> QED
      BY <2>3, <3>1 DEF WindowsInv, ReadTimesCovered
  <2>10. FetchedTimesCovered'
    <3> SUFFICES ASSUME NEW q \in Runs, NEW c \in Bounces, pc[q] = "ran", Before(c, start[q])'
                 PROVE  Covered(c)' \/ c \in marking[q]
      BY <2>1 DEF FetchedTimesCovered
    <3>1. Before(c, start[q])
      BY <2>1, <2>5, <2>7, TimesAreNumbers DEF Before
    <3> QED
      BY <2>3, <3>1 DEF WindowsInv, FetchedTimesCovered
  <2> QED
    BY <2>6, <2>8, <2>9, <2>10 DEF WindowsInv
<1>4. ASSUME NEW s \in Servers, Crash(s) PROVE WindowsInv'
  <2> DEFINE dying == {r \in Runs : Server(r) = s /\ pc[r] \in Running}
  <2>1. UNCHANGED <<now, bounced, lastSuccess, suppressed>>
    BY <1>4 DEF Crash
  <2>2. cutShort' = cutShort \cup UNION {marking[r] : r \in {q \in dying : pc[q] = "marked"}}
    BY <1>4 DEF Crash
  <2>3. \A q \in Runs : /\ since'[q] = since[q] \/ since'[q] = 0
                        /\ start'[q] = start[q] \/ start'[q] = 0
    BY <1>4 DEF Crash
  <2>4. \A q \in Runs : q \notin dying => /\ pc'[q] = pc[q] \/ (pc[q] = "due" /\ pc'[q] = "skipped")
                                          /\ start'[q] = start[q] /\ marking'[q] = marking[q]
    BY <1>4 DEF Crash
  <2>5. \A q \in dying : pc'[q] = "over"
    BY <1>4 DEF Crash, Running, Holding
  <2>6. \A b : Covered(b) => Covered(b)'
    BY <2>1, <2>2, <2>4, CoveredStays
  <2>7. \A q \in Runs : pc'[q] = "ran" => pc[q] = "ran" /\ start'[q] = start[q] /\ marking'[q] = marking[q]
    BY <2>4, <2>5
  <2>8. \A q \in Runs : start'[q] = start[q] \/ start'[q] \in 0..now
    BY <2>3, TimesAreNumbers
  <2> QED
    BY <2>1, <2>3, <2>6, <2>7, <2>8, TimesStay
<1>5. ASSUME NEW s \in Servers, Restart(s) PROVE WindowsInv'
  <2>1. \A b : Covered(b) => Covered(b)'
    BY <1>5, CoveredStays DEF Restart
  <2> QED
    BY <1>5, <2>1, TimesStay DEF Restart
<1>6. ASSUME UNCHANGED vars PROVE WindowsInv'
  <2>1. \A b : Covered(b) => Covered(b)'
    BY <1>6, CoveredStays DEF vars
  <2> QED
    BY <1>6, <2>1, TimesStay DEF vars
<1> QED
  BY <1>1, <1>2, <1>3, <1>4, <1>5, <1>6 DEF Next

\* However runs of several servers overlap, whichever of them reads a stale
\* time of the last success or sets it back, what bounced before the time the
\* next run will ask from has been marked, or its run ended halfway.
THEOREM WindowsNeverLeaveGaps == Spec => []WindowsLeaveNoGap
<1>1. Spec => []WindowsInv
  <2>1. JobsInv => TypeOK
    BY DEF JobsInv
  <2> QED
    BY <2>1, InitJobs, StepJobs, InitWindows, StepWindows, PTL DEF Spec
<1> QED
  BY <1>1, PTL DEF WindowsInv
===============================================================================
