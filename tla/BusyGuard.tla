----------------------------- MODULE BusyGuard -----------------------------
(***************************************************************************)
(* The run guard of one model: class BusyGuard of app/server/busy_guard.h, *)
(* a timed mutex and an atomic time stamp, used by concurrent callers.     *)
(*                                                                         *)
(* Every access to the mutex, the stamp and the clock is a step of its     *)
(* own, so a caller may be preempted between any two of them.              *)
(*                                                                         *)
(* Time.  The code compares only `now - since` with a timeout, so a time   *)
(* is kept as its age: the ticks that passed since it was read.  Tick ages *)
(* every kept time.  An age stops growing at Horizon, which is above every *)
(* timeout, so no comparison of the code can tell a saturated age from a   *)
(* larger one and the behaviours need no bound on their length.            *)
(***************************************************************************)
EXTENDS Integers

CONSTANTS
    Callers,    \* threads that call acquire
    Nobody,     \* the owner of an unlocked mutex
    NoTime,     \* the stamp of an idle model (0 in the code), and no time read
    NoRequest,  \* a request that names no timeout (std::nullopt)
    Policies,   \* the ceilings a configuration may give; 0 is unbounded
    Requests,   \* the timeouts a request may name; 0 is unbounded
    Horizon     \* ages are told apart up to this many ticks

ASSUME CallersAssumption == Nobody \notin Callers
ASSUME TimeAssumption ==
    /\ Horizon \in Nat \ {0}
    /\ Policies \subseteq 0..(Horizon - 1)
    /\ Requests \subseteq 0..(Horizon - 1)
    /\ NoTime \notin Int
    /\ NoRequest \notin Int

VARIABLES
    owner,      \* who holds mutex_
    busySince,  \* busy_since_ms_, as an age
    pc,         \* where each caller is in acquire, its run or the Lock's destructor
    asked,      \* the ceiling and the request timeout_ms was resolved from
    timeout,    \* timeout_ms of each caller
    seen,       \* the time a caller holds in a local: `since`, then the stamp to store
    patience,   \* ticks left before try_lock_for gives up
    held,       \* history: age of the current locking of mutex_
    met         \* history: somebody else held mutex_ during this acquire

vars == <<owner, busySince, pc, asked, timeout, seen, patience, held, met>>

Age == 0..Horizon
Time == Age \cup {NoTime}

Acquiring == {"arrived", "loaded", "trying", "waiting"}
Holding   == {"locked", "stamping", "running", "cleared"}
PC == {"away", "refused"} \cup Acquiring \cup Holding

-----------------------------------------------------------------------------
(* The pure helpers.                                                        *)

\* Mutated: a request's bound is taken whatever the policy says.
RequestWins(ceiling, requested) ==
    IF requested = NoRequest \/ requested = 0 THEN ceiling ELSE requested

\* The bound in force: the smaller of policy and request, 0 being no bound.
resolve_busy_timeout_ms(ceiling, requested) ==
    IF requested = NoRequest \/ requested = 0 THEN ceiling
    ELSE IF ceiling = 0 \/ requested < ceiling THEN requested ELSE ceiling

\* A holder stamped `since` has run for longer than timeout_ms.
model_run_has_overrun(since, timeout_ms) ==
    /\ timeout_ms > 0
    /\ since # NoTime
    /\ since > timeout_ms

Older(t) == IF t \in Age /\ t < Horizon THEN t + 1 ELSE t

\* The arguments of a caller that is not in a call.
Unasked == [ceiling |-> 0, request |-> NoRequest]

-----------------------------------------------------------------------------
Init ==
    /\ owner = Nobody
    /\ busySince = NoTime
    /\ pc = [c \in Callers |-> "away"]
    /\ asked = [c \in Callers |-> Unasked]
    /\ timeout = [c \in Callers |-> 0]
    /\ seen = [c \in Callers |-> NoTime]
    /\ patience = [c \in Callers |-> 0]
    /\ held = NoTime
    /\ met = [c \in Callers |-> FALSE]

Goto(c, from, to) ==
    /\ pc[c] = from
    /\ pc' = [pc EXCEPT ![c] = to]

\* A request resolves its timeout and calls acquire.  timeout_ms <= 0 goes
\* straight to the mutex, with no fail-fast check and no deadline.
Enter(c) ==
    \E ceiling \in Policies, request \in Requests \cup {NoRequest} :
        LET t == resolve_busy_timeout_ms(ceiling, request) IN
        /\ Goto(c, "away", IF t = 0 THEN "trying" ELSE "arrived")
        /\ asked' = [asked EXCEPT ![c] = [ceiling |-> ceiling, request |-> request]]
        /\ timeout' = [timeout EXCEPT ![c] = t]
        /\ met' = [met EXCEPT ![c] = owner # Nobody]
        /\ UNCHANGED <<owner, busySince, seen, patience, held>>

\* since = busy_since_ms_.load()
LoadSince(c) ==
    /\ Goto(c, "arrived", "loaded")
    /\ seen' = [seen EXCEPT ![c] = busySince]
    /\ UNCHANGED <<owner, busySince, asked, timeout, patience, held, met>>

\* now_ms is read here, some time after `since`: overrun throws
\* ServerBusyError, otherwise try_lock_for starts and its deadline is set.
CheckOverrun(c) ==
    /\ Goto(c, "loaded",
            IF model_run_has_overrun(seen[c], timeout[c]) THEN "refused" ELSE "trying")
    /\ seen' = [seen EXCEPT ![c] = NoTime]
    /\ patience' = [patience EXCEPT ![c] = timeout[c]]
    /\ UNCHANGED <<owner, busySince, asked, timeout, held, met>>

TakeMutex(c) ==
    /\ owner = Nobody
    /\ owner' = c
    /\ held' = 0
    /\ met' = [d \in Callers |-> met[d] \/ (d # c /\ pc[d] \in Acquiring)]
    /\ patience' = [patience EXCEPT ![c] = 0]
    /\ UNCHANGED <<busySince, asked, timeout, seen>>

\* The first attempt of lock or try_lock_for: a free mutex is taken at once.
TryLock(c) ==
    \/ /\ Goto(c, "trying", "locked")
       /\ TakeMutex(c)
    \/ /\ owner # Nobody
       /\ Goto(c, "trying", "waiting")
       /\ UNCHANGED <<owner, busySince, asked, timeout, seen, patience, held, met>>

\* Mutated: a waiter does not look whether the mutex was freed.
WakeWithoutLock(c) ==
    /\ Goto(c, "waiting", "locked")
    /\ owner' = c
    /\ UNCHANGED <<busySince, asked, timeout, seen, patience, held, met>>

\* A waiter takes the mutex once it is free, in no particular order.
WakeAndLock(c) ==
    /\ Goto(c, "waiting", "locked")
    /\ TakeMutex(c)

\* Mutated: the unbounded wait goes through try_lock_for(0).
TimeOutUnbounded(c) ==
    /\ patience[c] = 0
    /\ Goto(c, "waiting", "refused")
    /\ UNCHANGED <<owner, busySince, asked, timeout, seen, patience, held, met>>

\* try_lock_for gives up at its deadline; acquire throws ServerBusyError.
TimeOut(c) ==
    /\ timeout[c] > 0
    /\ patience[c] = 0
    /\ Goto(c, "waiting", "refused")
    /\ UNCHANGED <<owner, busySince, asked, timeout, seen, patience, held, met>>

\* The clock is read for the stamp ...
ReadClock(c) ==
    /\ Goto(c, "locked", "stamping")
    /\ seen' = [seen EXCEPT ![c] = 0]
    /\ UNCHANGED <<owner, busySince, asked, timeout, patience, held, met>>

\* ... and stored; acquire returns the Lock and the run starts.
StoreSince(c) ==
    /\ Goto(c, "stamping", "running")
    /\ busySince' = seen[c]
    /\ seen' = [seen EXCEPT ![c] = NoTime]
    /\ UNCHANGED <<owner, asked, timeout, patience, held, met>>

\* A call is over and its locals are gone.
Forget(c) ==
    /\ asked' = [asked EXCEPT ![c] = Unasked]
    /\ timeout' = [timeout EXCEPT ![c] = 0]
    /\ seen' = [seen EXCEPT ![c] = NoTime]
    /\ patience' = [patience EXCEPT ![c] = 0]
    /\ met' = [met EXCEPT ![c] = FALSE]

\* Mutated: the destructor does not mark the model idle.
KeepSince(c) ==
    /\ Goto(c, "running", "cleared")
    /\ UNCHANGED <<owner, busySince, asked, timeout, seen, patience, held, met>>

\* Mutated: the mutex is unlocked before the model is marked idle.
UnlockFirst(c) ==
    /\ Goto(c, "running", "cleared")
    /\ owner' = Nobody
    /\ held' = NoTime
    /\ UNCHANGED <<busySince, asked, timeout, seen, patience, met>>

\* ~Lock, its body: the run ended or threw, the model is marked idle ...
ClearSince(c) ==
    /\ Goto(c, "running", "cleared")
    /\ busySince' = NoTime
    /\ UNCHANGED <<owner, asked, timeout, seen, patience, held, met>>

\* ... then, its members: lock_ is destroyed and unlocks the mutex.
Unlock(c) ==
    /\ Goto(c, "cleared", "away")
    /\ owner' = Nobody
    /\ held' = NoTime
    /\ Forget(c)
    /\ UNCHANGED busySince

\* The ServerBusyError reaches the handler and becomes a 503.
Leave(c) ==
    /\ Goto(c, "refused", "away")
    /\ Forget(c)
    /\ UNCHANGED <<owner, busySince, held>>

Tick ==
    /\ busySince' = Older(busySince)
    /\ held' = Older(held)
    /\ seen' = [c \in Callers |-> Older(seen[c])]
    /\ patience' = [c \in Callers |-> IF patience[c] > 0 THEN patience[c] - 1 ELSE 0]
    /\ UNCHANGED <<owner, pc, asked, timeout, met>>

Next ==
    \/ \E c \in Callers :
          \/ Enter(c) \/ LoadSince(c) \/ CheckOverrun(c) \/ TryLock(c)
          \/ WakeAndLock(c) \/ TimeOut(c) \/ ReadClock(c) \/ StoreSince(c)
          \/ ClearSince(c) \/ Unlock(c) \/ Leave(c)
    \/ Tick

Spec == Init /\ [][Next]_vars

\* Threads inside acquire and ~Lock keep being scheduled and time passes.  A run
\* may never end (a wedged GPU call), so ClearSince has no fairness, and the
\* mutex is not fair to its waiters: it only goes to one of them when free.
Fairness ==
    /\ WF_vars(Tick)
    /\ \A c \in Callers :
          /\ WF_vars(LoadSince(c) \/ CheckOverrun(c) \/ TryLock(c))
          /\ WF_vars(WakeAndLock(c) \/ TimeOut(c))
          /\ WF_vars(ReadClock(c) \/ StoreSince(c) \/ Unlock(c))

FairSpec == Spec /\ Fairness

-----------------------------------------------------------------------------
(* The invariants.                                                          *)

TypeOK ==
    /\ owner \in Callers \cup {Nobody}
    /\ busySince \in Time
    /\ pc \in [Callers -> PC]
    /\ asked \in [Callers -> [ceiling : Nat, request : Nat \cup {NoRequest}]]
    /\ timeout \in [Callers -> 0..(Horizon - 1)]
    /\ seen \in [Callers -> Time]
    /\ patience \in [Callers -> 0..(Horizon - 1)]
    /\ held \in Time
    /\ met \in [Callers -> BOOLEAN]

\* One request runs the model at a time: every caller between locking and
\* unlocking is the owner of the mutex (acquire, ~Lock).
OneRunAtATime == \A c \in Callers : pc[c] \in Holding <=> owner = c

\* The stamp is set exactly while a run holds the guard, so a wedged run can be
\* recognised and an idle model never looks busy (store in acquire, reset in ~Lock).
StampMarksTheRun ==
    /\ busySince # NoTime => owner # Nobody /\ pc[owner] = "running"
    /\ \A c \in Callers : pc[c] = "running" => busySince # NoTime

\* The shared stamp never makes the current run look older than it is: it was read
\* after this owner locked the mutex and belongs to no earlier run.  The copy a caller
\* loads for its fail-fast check (102) is not bounded here: it may outlive its run.
StampNeverOverstates ==
    busySince # NoTime => held # NoTime /\ busySince <= held

\* No caller is answered "busy" by a model nobody else held during its call, and
\* none whose bound is 0 is answered "busy" at all.
RefusalHasACause ==
    \A c \in Callers : pc[c] = "refused" => met[c] /\ timeout[c] > 0

\* A request never weakens the policy: its bound is the smaller of the two with 0
\* read as infinity (resolve_busy_timeout_ms).
Bound(t) == IF t = NoRequest \/ t = 0 THEN Horizon ELSE t
TimeoutIsTheTighterBound ==
    \A c \in Callers : LET p == Bound(asked[c].ceiling)
                           r == Bound(asked[c].request)
                       IN  Bound(timeout[c]) = IF r < p THEN r ELSE p

-----------------------------------------------------------------------------
(* The guard implements the turn its callers rely on.                       *)

WantOf(c) ==
    IF pc[c] \in Acquiring THEN "asking"
    ELSE IF pc[c] \in Holding THEN "granted"
    ELSE IF pc[c] = "refused" THEN "refused" ELSE "out"

Turn == INSTANCE ModelTurn WITH
            turn    <- owner,
            want    <- [c \in Callers |-> WantOf(c)],
            bounded <- {c \in Callers : timeout[c] > 0}

\* Every behaviour of the guard is one of the abstract turn.
ImplementsTurn == Turn!Spec

\* Under the guard's fairness the turn's callers are served as promised.
ImplementsFairTurn == Turn!FairSpec
=============================================================================
