-------------------------- MODULE BusyGuard_proofs --------------------------
(***************************************************************************)
(* Proofs about the run guard, for any set of callers, policies, requests  *)
(* and clock resolution.                                                   *)
(***************************************************************************)
EXTENDS BusyGuard, TLAPS

\* Who holds the mutex, and since when.
OwnerInv ==
    /\ OneRunAtATime
    /\ held # NoTime <=> owner # Nobody

\* What the stamp, and the time about to be stored in it, say of the owner.
StampInv ==
    /\ busySince # NoTime <=> (owner # Nobody /\ pc[owner] = "running")
    /\ busySince # NoTime => busySince <= held
    /\ \A c \in Callers : pc[c] = "stamping" => seen[c] # NoTime /\ seen[c] <= held

\* Why a caller on its way to a refusal has met another holder.
CauseInv ==
    \A c \in Callers :
        /\ pc[c] \in Acquiring /\ owner # Nobody => met[c]
        /\ pc[c] = "loaded" /\ seen[c] # NoTime => met[c]
        /\ pc[c] = "waiting" => met[c]
        /\ pc[c] \in {"arrived", "loaded"} => timeout[c] > 0
        /\ pc[c] = "refused" => met[c] /\ timeout[c] > 0
        /\ pc[c] = "away" => timeout[c] = 0

IInv == TypeOK /\ OwnerInv /\ StampInv /\ CauseInv

-----------------------------------------------------------------------------
\* resolve_busy_timeout_ms returns a timeout of the configuration or of the request.
LEMMA ResolveType ==
    ASSUME NEW p \in Policies, NEW r \in Requests \cup {NoRequest}
    PROVE  resolve_busy_timeout_ms(p, r) \in 0..(Horizon - 1)
  BY TimeAssumption DEF resolve_busy_timeout_ms

\* Ageing a time gives a time, keeps "no time" apart and keeps the order of two ages.
LEMMA OlderType ==
    /\ \A t \in Time : Older(t) \in Time /\ (Older(t) = NoTime <=> t = NoTime)
    /\ \A s, t \in Age : s <= t => Older(s) <= Older(t)
  BY TimeAssumption DEF Older, Time, Age

\* The initial state satisfies the inductive invariant.
LEMMA InitInv == Init => IInv
  BY TimeAssumption, CallersAssumption
     DEF Init, IInv, TypeOK, OwnerInv, OneRunAtATime, StampInv, CauseInv, Unasked,
         PC, Acquiring, Holding, Time, Age

\* Every step keeps the types.
LEMMA TypeStep == TypeOK /\ [Next]_vars => TypeOK'
  <1> SUFFICES ASSUME TypeOK, [Next]_vars PROVE TypeOK'
    OBVIOUS
  <1> USE TimeAssumption DEF TypeOK, PC, Acquiring, Holding, Time, Age, Goto
  <1>1. ASSUME NEW c \in Callers, Enter(c) PROVE TypeOK'
    <2>1. PICK p \in Policies, r \in Requests \cup {NoRequest} :
             LET t == resolve_busy_timeout_ms(p, r) IN
             /\ Goto(c, "away", IF t = 0 THEN "trying" ELSE "arrived")
             /\ asked' = [asked EXCEPT ![c] = [ceiling |-> p, request |-> r]]
             /\ timeout' = [timeout EXCEPT ![c] = t]
             /\ met' = [met EXCEPT ![c] = owner # Nobody]
             /\ UNCHANGED <<owner, busySince, seen, patience, held>>
      BY <1>1 DEF Enter
    <2>2. resolve_busy_timeout_ms(p, r) \in 0..(Horizon - 1)
      BY ResolveType
    <2>3. p \in Nat /\ r \in Nat \cup {NoRequest}
      OBVIOUS
    <2> QED BY <2>1, <2>2, <2>3
  <1>2. ASSUME NEW c \in Callers, LoadSince(c) PROVE TypeOK'
    BY <1>2 DEF LoadSince
  <1>3. ASSUME NEW c \in Callers, CheckOverrun(c) PROVE TypeOK'
    BY <1>3 DEF CheckOverrun
  <1>4. ASSUME NEW c \in Callers, TryLock(c) PROVE TypeOK'
    <2>1. CASE Goto(c, "trying", "locked") /\ TakeMutex(c)
      BY <2>1 DEF TakeMutex
    <2>2. CASE /\ Goto(c, "trying", "waiting")
               /\ UNCHANGED <<owner, busySince, asked, timeout, seen, patience, held, met>>
      BY <2>2
    <2> QED BY <1>4, <2>1, <2>2 DEF TryLock
  <1>5. ASSUME NEW c \in Callers, WakeAndLock(c) PROVE TypeOK'
    BY <1>5 DEF WakeAndLock, TakeMutex
  <1>6. ASSUME NEW c \in Callers, TimeOut(c) PROVE TypeOK'
    BY <1>6 DEF TimeOut
  <1>7. ASSUME NEW c \in Callers, ReadClock(c) PROVE TypeOK'
    BY <1>7 DEF ReadClock
  <1>8. ASSUME NEW c \in Callers, StoreSince(c) PROVE TypeOK'
    BY <1>8 DEF StoreSince
  <1>9. ASSUME NEW c \in Callers, ClearSince(c) PROVE TypeOK'
    BY <1>9 DEF ClearSince
  <1>10. ASSUME NEW c \in Callers, Unlock(c) PROVE TypeOK'
    BY <1>10 DEF Unlock, Forget, Unasked
  <1>11. ASSUME NEW c \in Callers, Leave(c) PROVE TypeOK'
    BY <1>11 DEF Leave, Forget, Unasked
  <1>12. CASE Tick
    <2>1. busySince' \in Time /\ held' \in Time
      BY <1>12, OlderType DEF Tick
    <2>2. seen' \in [Callers -> Time]
      BY <1>12, OlderType DEF Tick
    <2>3. patience' \in [Callers -> 0..(Horizon - 1)]
      BY <1>12 DEF Tick
    <2> QED BY <1>12, <2>1, <2>2, <2>3 DEF Tick
  <1>13. CASE UNCHANGED vars
    BY <1>13 DEF vars
  <1> QED
    BY <1>1, <1>2, <1>3, <1>4, <1>5, <1>6, <1>7, <1>8, <1>9, <1>10, <1>11,
       <1>12, <1>13 DEF Next

\* Every step keeps the agreement between the mutex and the callers' positions.
LEMMA OwnerStep == TypeOK /\ OwnerInv /\ [Next]_vars => OwnerInv'
  <1> SUFFICES ASSUME TypeOK, OwnerInv, [Next]_vars PROVE OwnerInv'
    OBVIOUS
  <1> USE TimeAssumption, CallersAssumption
      DEF TypeOK, OwnerInv, OneRunAtATime, PC, Acquiring, Holding, Goto
  <1>1. ASSUME NEW c \in Callers, Enter(c) PROVE OwnerInv'
    BY <1>1 DEF Enter
  <1>2. ASSUME NEW c \in Callers, LoadSince(c) PROVE OwnerInv'
    BY <1>2 DEF LoadSince
  <1>3. ASSUME NEW c \in Callers, CheckOverrun(c) PROVE OwnerInv'
    BY <1>3 DEF CheckOverrun
  <1>4. ASSUME NEW c \in Callers, TryLock(c) PROVE OwnerInv'
    BY <1>4 DEF TryLock, TakeMutex
  <1>5. ASSUME NEW c \in Callers, WakeAndLock(c) PROVE OwnerInv'
    BY <1>5 DEF WakeAndLock, TakeMutex
  <1>6. ASSUME NEW c \in Callers, TimeOut(c) PROVE OwnerInv'
    BY <1>6 DEF TimeOut
  <1>7. ASSUME NEW c \in Callers, ReadClock(c) PROVE OwnerInv'
    BY <1>7 DEF ReadClock
  <1>8. ASSUME NEW c \in Callers, StoreSince(c) PROVE OwnerInv'
    BY <1>8 DEF StoreSince
  <1>9. ASSUME NEW c \in Callers, ClearSince(c) PROVE OwnerInv'
    BY <1>9 DEF ClearSince
  <1>10. ASSUME NEW c \in Callers, Unlock(c) PROVE OwnerInv'
    BY <1>10 DEF Unlock
  <1>11. ASSUME NEW c \in Callers, Leave(c) PROVE OwnerInv'
    BY <1>11 DEF Leave
  <1>12. CASE Tick
    BY <1>12, OlderType DEF Tick
  <1>13. CASE UNCHANGED vars
    BY <1>13 DEF vars
  <1> QED
    BY <1>1, <1>2, <1>3, <1>4, <1>5, <1>6, <1>7, <1>8, <1>9, <1>10, <1>11,
       <1>12, <1>13 DEF Next

\* Every step keeps the stamp within the owner's run.
LEMMA StampStep == TypeOK /\ OwnerInv /\ StampInv /\ [Next]_vars => StampInv'
  <1> SUFFICES ASSUME TypeOK, OwnerInv, StampInv, [Next]_vars PROVE StampInv'
    OBVIOUS
  <1> USE TimeAssumption, CallersAssumption
      DEF TypeOK, OwnerInv, OneRunAtATime, StampInv, PC, Acquiring, Holding, Time, Age, Goto
  <1>1. ASSUME NEW c \in Callers, Enter(c) PROVE StampInv'
    BY <1>1 DEF Enter
  <1>2. ASSUME NEW c \in Callers, LoadSince(c) PROVE StampInv'
    BY <1>2 DEF LoadSince
  <1>3. ASSUME NEW c \in Callers, CheckOverrun(c) PROVE StampInv'
    BY <1>3 DEF CheckOverrun
  <1>4. ASSUME NEW c \in Callers, TryLock(c) PROVE StampInv'
    BY <1>4 DEF TryLock, TakeMutex
  <1>5. ASSUME NEW c \in Callers, WakeAndLock(c) PROVE StampInv'
    BY <1>5 DEF WakeAndLock, TakeMutex
  <1>6. ASSUME NEW c \in Callers, TimeOut(c) PROVE StampInv'
    BY <1>6 DEF TimeOut
  <1>7. ASSUME NEW c \in Callers, ReadClock(c) PROVE StampInv'
    BY <1>7 DEF ReadClock
  <1>8. ASSUME NEW c \in Callers, StoreSince(c) PROVE StampInv'
    BY <1>8 DEF StoreSince
  <1>9. ASSUME NEW c \in Callers, ClearSince(c) PROVE StampInv'
    BY <1>9 DEF ClearSince
  <1>10. ASSUME NEW c \in Callers, Unlock(c) PROVE StampInv'
    BY <1>10 DEF Unlock, Forget
  <1>11. ASSUME NEW c \in Callers, Leave(c) PROVE StampInv'
    BY <1>11 DEF Leave, Forget
  <1>12. CASE Tick
    <2>1. busySince' # NoTime <=> (owner' # Nobody /\ pc'[owner'] = "running")
      BY <1>12, OlderType DEF Tick
    <2>2. busySince' # NoTime => busySince' <= held'
      <3> SUFFICES ASSUME busySince # NoTime PROVE Older(busySince) <= Older(held)
        BY <1>12, OlderType DEF Tick
      <3>1. busySince \in Age /\ held \in Age /\ busySince <= held
        OBVIOUS
      <3> QED BY <3>1, OlderType
    <2>3. ASSUME NEW c \in Callers, pc'[c] = "stamping"
          PROVE  seen'[c] # NoTime /\ seen'[c] <= held'
      <3>1. seen[c] \in Age /\ held \in Age /\ seen[c] <= held
        BY <1>12, <2>3 DEF Tick
      <3>2. seen'[c] = Older(seen[c]) /\ held' = Older(held)
        BY <1>12 DEF Tick
      <3> QED BY <3>1, <3>2, OlderType
    <2> QED BY <2>1, <2>2, <2>3
  <1>13. CASE UNCHANGED vars
    BY <1>13 DEF vars
  <1> QED
    BY <1>1, <1>2, <1>3, <1>4, <1>5, <1>6, <1>7, <1>8, <1>9, <1>10, <1>11,
       <1>12, <1>13 DEF Next

\* Every step keeps the causes of a refusal.
LEMMA CauseStep == TypeOK /\ OwnerInv /\ StampInv /\ CauseInv /\ [Next]_vars => CauseInv'
  <1> SUFFICES ASSUME TypeOK, OwnerInv, StampInv, CauseInv, [Next]_vars PROVE CauseInv'
    OBVIOUS
  <1> USE TimeAssumption, CallersAssumption
      DEF TypeOK, OwnerInv, OneRunAtATime, StampInv, CauseInv, PC, Acquiring, Holding, Time, Age, Goto
  <1>1. ASSUME NEW c \in Callers, Enter(c) PROVE CauseInv'
    <2>1. PICK p \in Policies, r \in Requests \cup {NoRequest} :
             LET t == resolve_busy_timeout_ms(p, r) IN
             /\ Goto(c, "away", IF t = 0 THEN "trying" ELSE "arrived")
             /\ timeout' = [timeout EXCEPT ![c] = t]
             /\ met' = [met EXCEPT ![c] = owner # Nobody]
             /\ UNCHANGED <<owner, busySince, seen, patience, held>>
      BY <1>1 DEF Enter
    <2> DEFINE t == resolve_busy_timeout_ms(p, r)
    <2>2. t \in 0..(Horizon - 1)
      BY ResolveType
    <2> HIDE DEF t
    <2>3. /\ pc[c] = "away"
          /\ pc' = [pc EXCEPT ![c] = IF t = 0 THEN "trying" ELSE "arrived"]
          /\ timeout' = [timeout EXCEPT ![c] = t]
          /\ met' = [met EXCEPT ![c] = owner # Nobody]
          /\ UNCHANGED <<owner, busySince, seen, patience, held>>
      BY <2>1 DEF t
    <2>4. t # 0 => t > 0
      BY <2>2
    <2> QED BY <2>3, <2>4
  <1>2. ASSUME NEW c \in Callers, LoadSince(c) PROVE CauseInv'
    BY <1>2 DEF LoadSince
  <1>3. ASSUME NEW c \in Callers, CheckOverrun(c) PROVE CauseInv'
    BY <1>3 DEF CheckOverrun
  <1>4. ASSUME NEW c \in Callers, TryLock(c) PROVE CauseInv'
    BY <1>4 DEF TryLock, TakeMutex
  <1>5. ASSUME NEW c \in Callers, WakeAndLock(c) PROVE CauseInv'
    BY <1>5 DEF WakeAndLock, TakeMutex
  <1>6. ASSUME NEW c \in Callers, TimeOut(c) PROVE CauseInv'
    BY <1>6 DEF TimeOut
  <1>7. ASSUME NEW c \in Callers, ReadClock(c) PROVE CauseInv'
    BY <1>7 DEF ReadClock
  <1>8. ASSUME NEW c \in Callers, StoreSince(c) PROVE CauseInv'
    BY <1>8 DEF StoreSince
  <1>9. ASSUME NEW c \in Callers, ClearSince(c) PROVE CauseInv'
    BY <1>9 DEF ClearSince
  <1>10. ASSUME NEW c \in Callers, Unlock(c) PROVE CauseInv'
    BY <1>10 DEF Unlock, Forget
  <1>11. ASSUME NEW c \in Callers, Leave(c) PROVE CauseInv'
    BY <1>11 DEF Leave, Forget
  <1>12. CASE Tick
    BY <1>12, OlderType DEF Tick
  <1>13. CASE UNCHANGED vars
    BY <1>13 DEF vars
  <1> QED
    BY <1>1, <1>2, <1>3, <1>4, <1>5, <1>6, <1>7, <1>8, <1>9, <1>10, <1>11,
       <1>12, <1>13 DEF Next

-----------------------------------------------------------------------------
\* The inductive invariant holds in every reachable state.
THEOREM Invariance == Spec => []IInv
  <1>1. IInv /\ [Next]_vars => IInv'
    BY TypeStep, OwnerStep, StampStep, CauseStep DEF IInv
  <1> QED
    BY InitInv, <1>1, PTL DEF Spec

\* Type correctness: every variable of the guard keeps its type.
THEOREM TypeCorrect == Spec => []TypeOK
  <1>1. IInv => TypeOK
    BY DEF IInv
  <1> QED
    BY Invariance, <1>1, PTL

\* At most one request runs the model, and it is the owner of the mutex.
THEOREM MutualExclusion == Spec => []OneRunAtATime
  <1>1. IInv => OneRunAtATime
    BY DEF IInv, OwnerInv
  <1> QED
    BY Invariance, <1>1, PTL

\* The stamp is set during runs only, and during every run.
THEOREM StampCorrect == Spec => []StampMarksTheRun
  <1>1. IInv => StampMarksTheRun
    BY CallersAssumption DEF IInv, TypeOK, OwnerInv, OneRunAtATime, Holding, StampInv, StampMarksTheRun
  <1> QED
    BY Invariance, <1>1, PTL

\* The stamp the callers share is never older than the present locking, so it is never an
\* earlier run's; the copy of it that a caller loaded for the fail-fast check may be.
THEOREM StampBounded == Spec => []StampNeverOverstates
  <1>1. IInv => StampNeverOverstates
    BY DEF IInv, OwnerInv, StampInv, StampNeverOverstates
  <1> QED
    BY Invariance, <1>1, PTL

\* A refused caller has a bound and met another holder during its call.
THEOREM RefusalJustified == Spec => []RefusalHasACause
  <1>1. IInv => RefusalHasACause
    BY DEF IInv, CauseInv, RefusalHasACause
  <1> QED
    BY Invariance, <1>1, PTL

-----------------------------------------------------------------------------
(* The bound in force.                                                      *)

\* The bounds of one caller: what TimeoutIsTheTighterBound says of it.
Tighter(a, t) ==
    LET p == Bound(a.ceiling)
        r == Bound(a.request)
    IN  Bound(t) = IF r < p THEN r ELSE p

\* The resolved timeout is the smaller bound, with 0 and no request read as none.
LEMMA ResolveTighter ==
    ASSUME NEW p \in Policies, NEW r \in Requests \cup {NoRequest}
    PROVE  Tighter([ceiling |-> p, request |-> r], resolve_busy_timeout_ms(p, r))
  BY TimeAssumption DEF Tighter, Bound, resolve_busy_timeout_ms

\* Without a call there is no bound.
LEMMA UnaskedTighter == Tighter(Unasked, 0)
  BY TimeAssumption DEF Tighter, Bound, Unasked

\* A request never weakens the policy, and an unbounded policy never loosens it.
THEOREM RequestNeverWeakensPolicy == Spec => []TimeoutIsTheTighterBound
  <1> DEFINE Inv == \A c \in Callers : Tighter(asked[c], timeout[c])
  <1>1. Init => Inv
    BY UnaskedTighter DEF Init
  <1>2. TypeOK /\ Inv /\ [Next]_vars => Inv'
    <2> SUFFICES ASSUME TypeOK, Inv, [Next]_vars, NEW c \in Callers
                 PROVE  Tighter(asked'[c], timeout'[c])
      OBVIOUS
    <2>1. ASSUME NEW d \in Callers, Enter(d) PROVE Tighter(asked'[c], timeout'[c])
      <3>1. CASE d = c
        BY <2>1, <3>1, ResolveTighter DEF Enter, TypeOK
      <3>2. CASE d # c
        BY <2>1, <3>2 DEF Enter, TypeOK
      <3> QED BY <3>1, <3>2
    <2>2. ASSUME NEW d \in Callers, Forget(d) PROVE Tighter(asked'[c], timeout'[c])
      BY <2>2, UnaskedTighter DEF Forget, TypeOK
    <2>3. CASE UNCHANGED <<asked, timeout>>
      BY <2>3
    <2>4. \/ \E d \in Callers : Enter(d) \/ Forget(d)
          \/ UNCHANGED <<asked, timeout>>
      BY DEF Next, vars, LoadSince, CheckOverrun, TryLock, TakeMutex, WakeAndLock, TimeOut,
             ReadClock, StoreSince, ClearSince, Unlock, Leave, Tick
    <2> QED BY <2>1, <2>2, <2>3, <2>4
  <1>3. Inv => TimeoutIsTheTighterBound
    BY DEF Tighter, TimeoutIsTheTighterBound
  <1> QED
    BY <1>1, <1>2, <1>3, TypeCorrect, PTL DEF Spec

-----------------------------------------------------------------------------
(* The refinement of the abstract turn, with the mapping of module Turn.     *)

\* The initial states map to initial states.
LEMMA TurnInit == Init => Turn!Init
  <1> SUFFICES ASSUME Init PROVE Turn!Init
    OBVIOUS
  <1>1. owner = Nobody
    BY DEF Init
  <1>2. \A c \in Callers : WantOf(c) = "out"
    BY DEF Init, WantOf, Acquiring, Holding
  <1>3. \A c \in Callers : timeout[c] = 0
    BY DEF Init
  <1>4. {c \in Callers : timeout[c] > 0} = {}
    BY <1>3
  <1> QED BY <1>1, <1>2, <1>4 DEF Turn!Init

\* A step of one caller maps to a step of the turn when it changes what the
\* caller wants, and to a stutter when it does not.
LEMMA TurnStep == IInv /\ [Next]_vars => [Turn!Next]_(Turn!vars)
  <1> SUFFICES ASSUME IInv, [Next]_vars PROVE [Turn!Next]_(Turn!vars)
    OBVIOUS
  <1> DEFINE want == [c \in Callers |-> WantOf(c)]
             bounded == {c \in Callers : timeout[c] > 0}
  <1> USE CallersAssumption DEF IInv, TypeOK, OwnerInv, OneRunAtATime, CauseInv,
          PC, Acquiring, Holding, Goto, WantOf
  <1>1. ASSUME NEW c \in Callers, Enter(c) PROVE Turn!Ask(c)
    <2>1. PICK t : /\ pc[c] = "away"
                   /\ pc' = [pc EXCEPT ![c] = IF t = 0 THEN "trying" ELSE "arrived"]
                   /\ timeout' = [timeout EXCEPT ![c] = t]
                   /\ owner' = owner
      BY <1>1 DEF Enter
    <2>2. want[c] = "out" /\ want' = [want EXCEPT ![c] = "asking"] /\ owner' = owner
      BY <2>1
    <2>3. bounded' \in {bounded, bounded \cup {c}}
      <3>1. \A d \in Callers : d # c => timeout'[d] = timeout[d]
        BY <2>1
      <3>2. ~(timeout[c] > 0)
        BY <2>1
      <3> QED BY <3>1, <3>2
    <2> QED BY <2>2, <2>3 DEF Turn!Ask
  <1>2. ASSUME NEW c \in Callers, LoadSince(c) PROVE UNCHANGED Turn!vars
    BY <1>2 DEF LoadSince, Turn!vars
  <1>3. ASSUME NEW c \in Callers, CheckOverrun(c)
        PROVE  Turn!Refuse(c) \/ UNCHANGED Turn!vars
    BY <1>3 DEF CheckOverrun, Turn!Refuse, Turn!vars
  <1>4. ASSUME NEW c \in Callers, TryLock(c)
        PROVE  Turn!Grant(c) \/ UNCHANGED Turn!vars
    <2>1. CASE Goto(c, "trying", "locked") /\ TakeMutex(c)
      BY <2>1 DEF TakeMutex, Turn!Grant
    <2>2. CASE /\ Goto(c, "trying", "waiting")
               /\ UNCHANGED <<owner, busySince, asked, timeout, seen, patience, held, met>>
      BY <2>2 DEF Turn!vars
    <2> QED BY <1>4, <2>1, <2>2 DEF TryLock
  <1>5. ASSUME NEW c \in Callers, WakeAndLock(c) PROVE Turn!Grant(c)
    BY <1>5 DEF WakeAndLock, TakeMutex, Turn!Grant
  <1>6. ASSUME NEW c \in Callers, TimeOut(c) PROVE Turn!Refuse(c)
    BY <1>6 DEF TimeOut, Turn!Refuse
  <1>7. ASSUME NEW c \in Callers, ReadClock(c) \/ StoreSince(c) \/ ClearSince(c)
        PROVE  UNCHANGED Turn!vars
    BY <1>7 DEF ReadClock, StoreSince, ClearSince, Turn!vars
  <1>8. ASSUME NEW c \in Callers, Unlock(c) PROVE Turn!Release(c)
    <2>1. /\ pc[c] = "cleared"
          /\ pc' = [pc EXCEPT ![c] = "away"]
          /\ timeout' = [timeout EXCEPT ![c] = 0]
          /\ owner' = Nobody
      BY <1>8 DEF Unlock, Forget
    <2>2. want[c] = "granted" /\ want' = [want EXCEPT ![c] = "out"]
      BY <2>1
    <2>3. bounded' = bounded \ {c}
      BY <2>1
    <2> QED BY <2>1, <2>2, <2>3 DEF Turn!Release
  <1>9. ASSUME NEW c \in Callers, Leave(c) PROVE Turn!Depart(c)
    <2>1. /\ pc[c] = "refused"
          /\ pc' = [pc EXCEPT ![c] = "away"]
          /\ timeout' = [timeout EXCEPT ![c] = 0]
          /\ owner' = owner
      BY <1>9 DEF Leave, Forget
    <2>2. want[c] = "refused" /\ want' = [want EXCEPT ![c] = "out"]
      BY <2>1
    <2>3. bounded' = bounded \ {c}
      BY <2>1
    <2> QED BY <2>1, <2>2, <2>3 DEF Turn!Depart
  <1>10. CASE Tick
    BY <1>10 DEF Tick, Turn!vars
  <1>11. CASE UNCHANGED vars
    BY <1>11 DEF vars, Turn!vars
  <1> QED
    BY <1>1, <1>2, <1>3, <1>4, <1>5, <1>6, <1>7, <1>8, <1>9, <1>10, <1>11
       DEF Next, Turn!Next

\* The guard implements the abstract turn: one owner at a time, and only callers
\* with a bound are refused.
THEOREM GuardImplementsTurn == Spec => ImplementsTurn
  <1> QED
    BY Invariance, TurnInit, TurnStep, PTL DEF Spec, ImplementsTurn, Turn!Spec
=============================================================================
