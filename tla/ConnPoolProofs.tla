---------------------------- MODULE ConnPoolProofs ----------------------------
(***************************************************************************)
(* Proofs about ConnPool, for every size of the pool and every number of   *)
(* goroutines.  Everything follows from one invariant: where a goroutine   *)
(* is determines how many connections it holds.  That the pool never       *)
(* stalls takes a pool of some size, by counting once more.                *)
(***************************************************************************)
EXTENDS ConnPool, FiniteSetTheorems, TLAPS

JobSteps == {"wantBody", "inBody", "ran", "wantMark", "inMark", "marked"}

\* How many connections a goroutine holds at each step.
Uses(step) ==
  CASE step \in {"off", "wantFirst", "serving", "wantReplay"} -> 0
    [] step \in {"inTrx", "inReplay", "wantBody", "ran", "wantMark", "marked"} -> 1
    [] step \in {"inBody", "inMark"} -> 2

UsesAreExact == \A a \in Actors : Cardinality(Held(a)) = Uses(at[a])

OnlyJobsInJobSteps == \A a \in Actors : at[a] \in JobSteps => a \in Jobs

PoolInv ==
  /\ owner \in [Conns -> Actors \cup {Pool, Lost}]
  /\ at \in [Actors -> Steps]
  /\ UsesAreExact
  /\ OnlyJobsInJobSteps

-----------------------------------------------------------------------------
(* Counting connections                                                    *)

LEMMA HeldIsFinite ==
  ASSUME NEW a
  PROVE  IsFiniteSet(Held(a)) /\ Cardinality(Held(a)) \in Nat
<1>1. Held(a) \in SUBSET Conns /\ IsFiniteSet(Conns)
  BY PoolAssumption DEF Held
<1> QED
  BY <1>1, FS_Subset, FS_CardinalityType

LEMMA NotAnActor == Pool \notin Actors /\ Lost \notin Actors
BY PoolAssumption DEF Actors

\* Taking an idle connection is one more for its new owner, and nothing for
\* anybody else.
LEMMA OneMoreHeld ==
  ASSUME PoolInv, NEW a \in Actors, NEW c \in Held(Pool), owner' = [owner EXCEPT ![c] = a]
  PROVE  /\ Cardinality(Held(a))' = Cardinality(Held(a)) + 1
         /\ \A b \in Actors \ {a} : Cardinality(Held(b))' = Cardinality(Held(b))
<1>1. Held(a)' = Held(a) \cup {c} /\ c \notin Held(a)
  BY NotAnActor DEF PoolInv, Held
<1>2. \A b \in Actors \ {a} : Held(b)' = Held(b)
  BY NotAnActor DEF PoolInv, Held
<1>3. Cardinality(Held(a) \cup {c}) = Cardinality(Held(a)) + 1
  BY <1>1, HeldIsFinite, FS_AddElement
<1> QED
  BY <1>1, <1>2, <1>3

\* Giving one up, to the pool or for good, is one less.
LEMMA OneLessHeld ==
  ASSUME PoolInv, NEW a \in Actors, NEW c \in Held(a), NEW o \in {Pool, Lost},
         owner' = [owner EXCEPT ![c] = o]
  PROVE  /\ Cardinality(Held(a))' = Cardinality(Held(a)) - 1
         /\ \A b \in Actors \ {a} : Cardinality(Held(b))' = Cardinality(Held(b))
<1>1. Held(a)' = Held(a) \ {c} /\ c \in Held(a)
  BY NotAnActor DEF PoolInv, Held
<1>2. \A b \in Actors \ {a} : Held(b)' = Held(b)
  BY NotAnActor DEF PoolInv, Held
<1>3. Cardinality(Held(a) \ {c}) = Cardinality(Held(a)) - 1
  BY <1>1, HeldIsFinite, FS_RemoveElement
<1> QED
  BY <1>1, <1>2, <1>3

-----------------------------------------------------------------------------
(* The three ways to move                                                  *)

LEMMA KeepStep ==
  ASSUME PoolInv, NEW a \in Actors, NEW from, NEW to \in Steps, Keep(a, from, to),
         Uses(from) = Uses(to), to \in JobSteps => a \in Jobs
  PROVE  PoolInv'
<1>1. \A b \in Actors : Held(b)' = Held(b)
  BY DEF Keep, Held
<1> QED
  BY <1>1 DEF PoolInv, UsesAreExact, OnlyJobsInJobSteps, Keep, Move

LEMMA TakeStep ==
  ASSUME PoolInv, NEW a \in Actors, NEW from, NEW to \in Steps, Take(a, from, to),
         Uses(to) = Uses(from) + 1, to \in JobSteps => a \in Jobs
  PROVE  PoolInv'
<1>1. PICK c \in Held(Pool) : owner' = [owner EXCEPT ![c] = a]
  BY DEF Take
<1>2. owner' \in [Conns -> Actors \cup {Pool, Lost}] /\ at' \in [Actors -> Steps]
  BY <1>1 DEF PoolInv, Take, Move
<1>3. UsesAreExact'
  BY <1>1, OneMoreHeld DEF PoolInv, UsesAreExact, Take, Move
<1>4. OnlyJobsInJobSteps'
  BY DEF PoolInv, OnlyJobsInJobSteps, Take, Move
<1> QED
  BY <1>2, <1>3, <1>4 DEF PoolInv

LEMMA LetGoStep ==
  ASSUME PoolInv, NEW a \in Actors, NEW from, NEW to \in Steps, Move(a, from, to),
         NEW c \in Held(a), NEW o \in {Pool, Lost}, owner' = [owner EXCEPT ![c] = o],
         Uses(from) = Uses(to) + 1, Uses(to) \in Nat, to \in JobSteps => a \in Jobs
  PROVE  PoolInv'
<1>1. owner' \in [Conns -> Actors \cup {Pool, Lost}] /\ at' \in [Actors -> Steps]
  BY DEF PoolInv, Move
<1>2. UsesAreExact'
  <2>1. Cardinality(Held(a))' = Uses(to)
    <3>1. Cardinality(Held(a)) = Uses(from)
      BY DEF PoolInv, UsesAreExact, Move
    <3>2. Cardinality(Held(a))' = Cardinality(Held(a)) - 1
      BY OneLessHeld
    <3> QED
      BY <3>1, <3>2
  <2>2. \A b \in Actors \ {a} : Cardinality(Held(b))' = Uses(at[b])
    BY OneLessHeld DEF PoolInv, UsesAreExact
  <2> QED
    BY <2>1, <2>2 DEF PoolInv, UsesAreExact, Move
<1>3. OnlyJobsInJobSteps'
  BY DEF PoolInv, OnlyJobsInJobSteps, Move
<1> QED
  BY <1>1, <1>2, <1>3 DEF PoolInv

-----------------------------------------------------------------------------
LEMMA InitPool == Init => PoolInv
<1> SUFFICES ASSUME Init PROVE PoolInv
  OBVIOUS
<1>1. \A a \in Actors : Held(a) = {}
  BY NotAnActor DEF Init, Held
<1>2. UsesAreExact
  BY <1>1, FS_EmptySet DEF Init, UsesAreExact, Uses
<1> QED
  BY <1>2 DEF Init, PoolInv, OnlyJobsInJobSteps, JobSteps, Steps

LEMMA StepPool == PoolInv /\ [Next]_vars => PoolInv'
<1> SUFFICES ASSUME PoolInv, [Next]_vars PROVE PoolInv'
  OBVIOUS
<1> USE DEF Steps, JobSteps, Uses
<1>j. \A a \in Actors : at[a] \in JobSteps => a \in Jobs
  BY DEF PoolInv, OnlyJobsInJobSteps
<1>1. ASSUME NEW a \in Actors, Ask(a) \/ ReplayAsk(a) \/ Leave(a) PROVE PoolInv'
  BY <1>1, KeepStep DEF Ask, ReplayAsk, Leave
<1>2. ASSUME NEW a \in Actors, RunInTrx(a) \/ BodyAsk(a) PROVE PoolInv'
  BY <1>2, KeepStep, PoolAssumption DEF RunInTrx, BodyAsk
<1>3. ASSUME NEW a \in Actors, MarkAsk(a) PROVE PoolInv'
  <2>1. a \in Jobs
    BY <1>j, <1>3 DEF MarkAsk, Keep, Move
  <2> QED
    BY <1>3, <2>1, KeepStep DEF MarkAsk
<1>4. ASSUME NEW a \in Actors, Begin(a) \/ ReplayBegin(a) PROVE PoolInv'
  BY <1>4, TakeStep DEF Begin, ReplayBegin
<1>5. ASSUME NEW a \in Actors, BodyBegin(a) \/ MarkBegin(a) PROVE PoolInv'
  <2>1. a \in Jobs
    BY <1>j, <1>5 DEF BodyBegin, MarkBegin, Take, Move
  <2> QED
    BY <1>5, <2>1, TakeStep DEF BodyBegin, MarkBegin
<1>6. ASSUME NEW a \in Actors, End(a) \/ Release(a) \/ ReplayEnd(a) PROVE PoolInv'
  BY <1>6, LetGoStep DEF End, Release, ReplayEnd, GiveBack
<1>7. ASSUME NEW a \in Actors, BodyEnd(a) \/ BodyFails(a) \/ MarkEnd(a) \/ JobEnd(a) PROVE PoolInv'
  <2>1. a \in Jobs
    BY <1>j, <1>7 DEF BodyEnd, BodyFails, MarkEnd, JobEnd, GiveBack, Move
  <2> QED
    BY <1>7, <2>1, LetGoStep DEF BodyEnd, BodyFails, MarkEnd, JobEnd, GiveBack
<1>8. ASSUME UNCHANGED vars PROVE PoolInv'
  BY <1>8 DEF vars, PoolInv, UsesAreExact, OnlyJobsInJobSteps, Held
<1> QED
  BY <1>1, <1>2, <1>3, <1>4, <1>5, <1>6, <1>7, <1>8 DEF Next, Work, Acquire

\* A goroutine never holds more connections than its kind may: two for a
\* scheduled job, one for everybody else.
THEOREM NobodyHoldsMore == Spec => []TypeOK
<1>1. PoolInv => TypeOK
  <2> SUFFICES ASSUME PoolInv, NEW a \in Actors
               PROVE  Cardinality(Held(a)) <= (IF a \in Jobs THEN 2 ELSE 1)
    BY DEF PoolInv, TypeOK
  <2>1. at[a] \in Steps /\ Cardinality(Held(a)) = Uses(at[a]) /\ (at[a] \in JobSteps => a \in Jobs)
    BY DEF PoolInv, UsesAreExact, OnlyJobsInJobSteps
  <2> QED
    BY <2>1 DEF Steps, Uses, JobSteps
<1> QED
  BY <1>1, InitPool, StepPool, PTL DEF Spec

\* Web requests, tasks, /mcp and its replays never wait for a connection while
\* they hold one, so they cannot deadlock the pool among themselves.
THEOREM OnlyJobsEverHoldAndWait == Spec => []OnlyJobsHoldAndWait
<1>1. PoolInv => OnlyJobsHoldAndWait
  <2> SUFFICES ASSUME PoolInv, NEW a \in Actors \ Jobs, at[a] \in Waiting PROVE Held(a) = {}
    BY DEF OnlyJobsHoldAndWait
  <2>1. Cardinality(Held(a)) = 0
    BY DEF PoolInv, UsesAreExact, OnlyJobsInJobSteps, Waiting, Uses, JobSteps
  <2> QED
    BY <2>1, HeldIsFinite, FS_EmptySet
<1> QED
  BY <1>1, InitPool, StepPool, PTL DEF Spec

\* A goroutine that is done, or between two transactions, holds nothing.
THEOREM NothingEverLeftBehind == Spec => []NothingLeftBehind
<1>1. PoolInv => NothingLeftBehind
  <2> SUFFICES ASSUME PoolInv, NEW a \in Actors, at[a] \in {"off", "serving"} PROVE Held(a) = {}
    BY DEF NothingLeftBehind
  <2>1. Cardinality(Held(a)) = 0
    BY DEF PoolInv, UsesAreExact, Uses
  <2> QED
    BY <2>1, HeldIsFinite, FS_EmptySet
<1> QED
  BY <1>1, InitPool, StepPool, PTL DEF Spec

-----------------------------------------------------------------------------
(* How large the pool must be                                              *)

\* A connection for every job that may hold one while it waits for another,
\* one for every connection the purge may lose, and one more.
EnoughConns == Cardinality(Conns) > Cardinality(Jobs) + MaxPurgeFailures

LostAreCounted == Cardinality(Held(Lost)) <= MaxPurgeFailures

\* Connections are lost by the failing purge alone.
LEMMA StepLost == PoolInv /\ LostAreCounted /\ [Next]_vars => LostAreCounted'
<1> SUFFICES ASSUME PoolInv, LostAreCounted, [Next]_vars PROVE LostAreCounted'
  OBVIOUS
<1> USE PoolAssumption
<1>1. ASSUME NEW a \in Actors, BodyFails(a) PROVE LostAreCounted'
  <2>1. PICK c \in Held(a) : owner' = [owner EXCEPT ![c] = Lost]
    BY <1>1 DEF BodyFails
  <2>2. Held(Lost)' = Held(Lost) \cup {c} /\ c \notin Held(Lost)
    BY <2>1, NotAnActor DEF PoolInv, Held
  <2>3. Cardinality(Held(Lost) \cup {c}) = Cardinality(Held(Lost)) + 1
    BY <2>2, HeldIsFinite, FS_AddElement
  <2> QED
    BY <1>1, <2>2, <2>3, HeldIsFinite DEF BodyFails, LostAreCounted
<1>2. ASSUME NEW a \in Actors, NEW from, NEW to, Take(a, from, to) \/ GiveBack(a, from, to) \/ Keep(a, from, to)
      PROVE  LostAreCounted'
  <2>1. Held(Lost)' = Held(Lost)
    BY <1>2, NotAnActor DEF Take, GiveBack, Keep, PoolInv, Held
  <2> QED
    BY <2>1 DEF LostAreCounted
<1>3. ASSUME UNCHANGED vars PROVE LostAreCounted'
  BY <1>3 DEF vars, LostAreCounted, Held
<1> QED
  BY <1>1, <1>2, <1>3 DEF Next, Work, Acquire, Ask, ReplayAsk, Begin, End, Release, ReplayBegin, ReplayEnd, Leave,
     RunInTrx, BodyAsk, BodyBegin, BodyEnd, MarkAsk, MarkBegin, MarkEnd, JobEnd

\* Only jobs wait while they hold a connection, and then one: were all of
\* them held by somebody who waits, there would be more jobs than there are.
LEMMA SomebodyCanGoOn ==
  ASSUME EnoughConns, PoolInv, LostAreCounted, Held(Pool) = {},
         \A a \in Actors : at[a] \in Waiting \/ Held(a) = {}
  PROVE  FALSE
<1> DEFINE Taken == Conns \ Held(Lost)
           holder == [c \in Taken |-> owner[c]]
<1>1. IsFiniteSet(Taken) /\ IsFiniteSet(Jobs) /\ Cardinality(Jobs) \in Nat
  BY PoolAssumption, FS_Difference, FS_CardinalityType
<1>2. Cardinality(Jobs) < Cardinality(Taken)
  <2>1. Conns \cap Held(Lost) = Held(Lost)
    BY DEF Held
  <2>2. Cardinality(Taken) = Cardinality(Conns) - Cardinality(Held(Lost)) /\ Cardinality(Conns) \in Nat
    <3>1. IsFiniteSet(Conns)
      BY PoolAssumption
    <3>2. Cardinality(Conns \ Held(Lost)) = Cardinality(Conns) - Cardinality(Conns \cap Held(Lost))
      BY <3>1, FS_Difference
    <3> QED
      BY <2>1, <3>1, <3>2, FS_CardinalityType
  <2> QED
    BY <1>1, <2>2, HeldIsFinite, PoolAssumption DEF EnoughConns, LostAreCounted
<1>3. \A a \in Actors : Held(a) # {} => a \in Jobs /\ Cardinality(Held(a)) = 1
  <2> SUFFICES ASSUME NEW a \in Actors, Held(a) # {} PROVE a \in Jobs /\ Cardinality(Held(a)) = 1
    OBVIOUS
  <2>1. at[a] \in Waiting /\ Cardinality(Held(a)) = Uses(at[a]) /\ (at[a] \in JobSteps => a \in Jobs)
    BY DEF PoolInv, UsesAreExact, OnlyJobsInJobSteps
  <2>2. Cardinality(Held(a)) # 0
    BY HeldIsFinite, FS_EmptySet
  <2> QED
    BY <2>1, <2>2 DEF Waiting, Uses, JobSteps
<1>4. holder \in [Taken -> Jobs]
  <2> SUFFICES ASSUME NEW c \in Taken PROVE owner[c] \in Jobs
    OBVIOUS
  <2>1. owner[c] \in Actors /\ c \in Held(owner[c])
    BY DEF PoolInv, Held
  <2> QED
    BY <1>3, <2>1
<1>5. PICK c, d \in Taken : c # d /\ holder[c] = holder[d]
  <2> HIDE DEF Taken, holder
  <2> QED
    BY <1>1, <1>2, <1>4, FS_PigeonHole
<1>6. {c, d} \in SUBSET Held(owner[c]) /\ owner[c] \in Actors
  BY <1>4, <1>5 DEF Held, Actors
<1>7. Cardinality({c, d}) = 2
  <2>1. IsFiniteSet({c}) /\ Cardinality({c}) = 1
    BY FS_Singleton
  <2>2. Cardinality({c} \cup {d}) = Cardinality({c}) + 1
    BY <1>5, <2>1, FS_AddElement
  <2>3. {c} \cup {d} = {c, d}
    OBVIOUS
  <2> QED
    BY <2>1, <2>2, <2>3
<1>8. Cardinality({c, d}) <= Cardinality(Held(owner[c]))
  BY <1>6, HeldIsFinite, FS_Subset
<1>9. Cardinality(Held(owner[c])) = 1
  BY <1>3, <1>6
<1> QED
  BY <1>7, <1>8, <1>9

\* A pool of this size never stalls, however many requests, tasks and /mcp
\* calls there are: with a connection less, it may, when every job is between
\* its two connections and the purge has lost all it can lose.
THEOREM LargePoolNeverStalls == EnoughConns => (Spec => []PoolNeverStalls)
<1> SUFFICES ASSUME EnoughConns PROVE Spec => []PoolNeverStalls
  OBVIOUS
<1>1. Init => LostAreCounted
  <2> SUFFICES ASSUME Init PROVE LostAreCounted
    OBVIOUS
  <2>1. Held(Lost) = {}
    BY PoolAssumption DEF Init, Held
  <2> QED
    BY <2>1, FS_EmptySet, PoolAssumption DEF LostAreCounted
<1>2. PoolInv /\ LostAreCounted => PoolNeverStalls
  BY SomebodyCanGoOn DEF PoolNeverStalls
<1> QED
  BY <1>1, <1>2, InitPool, StepPool, StepLost, PTL DEF Spec
===============================================================================
