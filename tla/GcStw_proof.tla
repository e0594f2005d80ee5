----------------------------- MODULE GcStw_proof -----------------------------
(***************************************************************************)
(* Proofs about GcStw: the stop-the-world handshake, for any number of     *)
(* threads, rounds, retries and collections.                               *)
(***************************************************************************)
EXTENDS GcStw, TLAPS

-----------------------------------------------------------------------------
(* The inductive invariant.                                                *)

(* Who owns the GC mutex: a thread in its critical section, or the         *)
(* collector everywhere but in its unlocked waits.                         *)
Waits == {"window", "tripped", "relock"}
MayWait == {"between", "drain", "sweep", "reclaim"}

\* Who has the mutex, and where the collecting thread is.
Owned ==
  /\ \A t \in Threads : pc[t] = "crit" => lock = t
  /\ \A t \in Threads : pc[t] = "collector" <=> collecting = t
  /\ \A t \in Threads : lock = t => pc[t] \in {"crit", "collector"}
  /\ cpc \in Waits => lock # collecting
  /\ cpc \notin Waits \cup MayWait \cup {"idle"} => lock = collecting
  /\ cpc = "sweep" /\ StwSweep => lock = collecting
  /\ collecting = NoThread <=> cpc = "idle"

(* Whether a stop is requested follows from where the collector is, but    *)
(* for the states a handshake may reach with and without one.              *)
Asked ==
  /\ release = ~request
  /\ cpc \in {"window", "tripped", "relock", "between"} => request
  /\ cpc \in {"idle", "setup", "drain", "retry", "enter", "reclaim"} => ~request
  /\ cpc = "sweep" /\ ~StwSweep => ~request

(* What a collection leaves for the next one.                              *)
Cleared ==
  /\ cpc \in {"idle", "setup", "sweep", "reclaim"} => phase = "IDLE"
  /\ cpc \in {"idle", "enter", "reclaim"} => scanned = {}

(* The snapshot is taken, and kept, under the mutex or under a request.    *)
Snapped == cpc \in {"round", "window"} => snap \subseteq threads

(* The records of a handshake are of that handshake.                       *)
Handshake == {"round", "window", "tripped", "relock", "between", "scan", "scanning", "judge"}
Recorded == cpc \in Handshake => scanned \subseteq seen

(* Rounds and attempts are counted within their bounds.                    *)
Bounded ==
  /\ cpc = "between" => round + 1 < Rounds
  /\ cpc \in Handshake \cup {"enter"} => attempt < TermRetries

\* The inductive invariant.
StwInv == TypeOK /\ Bounded /\ Owned /\ Asked /\ Cleared /\ Snapped /\ Recorded

(* Without signals a thread is parked where it waits.                      *)
Cooperative ==
  /\ killed = {} /\ \A t \in Threads : sig[t] = "none"
  /\ \A t \in Threads : parked[t] => pc[t] \in {"wait", "clear", "blocked"}

-----------------------------------------------------------------------------
(* A step of a thread, and what it leaves alone.                           *)

MutatorStep(t) ==
  \/ \E o \in Ops : Call(t, o)
  \/ RegisterThread(t) \/ Safepoint(t) \/ ParkSelf(t) \/ SeeRelease(t) \/ Unpark(t)
  \/ OsBlockEnter(t) \/ OsBlockLeave(t) \/ LockGc(t) \/ BackOff(t) \/ ShortOp(t) \/ AddThread(t)
  \/ UnregisterThread(t) \/ SignalPark(t) \/ SignalSeeRelease(t) \/ SignalUnpark(t)

\* Every step is of a mutator, of its watchdog, of the collector, or starts a
\* collection.
LEMMA Steps ==
  ASSUME [Next]_vars
  PROVE  \/ \E t \in Threads : MutatorStep(t) \/ WatchdogTrip(t) \/ StartCollect(t)
         \/ CollectorStep \/ UNCHANGED vars
BY DEF Next, ThreadStep, Environment, MutatorStep

\* A mutator changes nothing of the collector.
LEMMA MutatorFrame ==
  ASSUME NEW t \in Threads, MutatorStep(t) \/ WatchdogTrip(t)
  PROVE  UNCHANGED <<request, release, phase, collecting, cycles, cpc, snap, round, stw, attempt,
                     missing, todo, scanned, seen>>
BY DEF MutatorStep, WatchdogTrip, Call, RegisterThread, Safepoint, ParkSelf, SeeRelease, Unpark, OsBlockEnter,
       OsBlockLeave, LockGc, BackOff, ShortOp, AddThread, UnregisterThread, SignalPark, SignalSeeRelease,
       SignalUnpark, mutatorVars, cycleVars, handVars, flagVars

\* What a step of t does to the places of the threads and to the mutex.
LEMMA MutatorMoves ==
  ASSUME TypeOK, NEW t \in Threads, MutatorStep(t)
  PROVE  /\ \A u \in Threads \ {t} : pc'[u] = pc[u]
         /\ pc[t] = "collector" <=> pc'[t] = "collector"
         /\ \/ lock' = lock /\ (pc[t] = "crit" <=> pc'[t] = "crit")
            \/ lock = NoThread /\ lock' = t /\ pc'[t] = "crit"
            \/ pc[t] = "crit" /\ lock' = NoThread /\ pc'[t] # "crit"
<1> USE DEF TypeOK, At, Goto, SetParked, mutatorVars
<1>1. CASE \E o \in Ops : Call(t, o)
  BY <1>1 DEF Call
<1>2. CASE RegisterThread(t) \/ Safepoint(t) \/ ParkSelf(t) \/ SeeRelease(t) \/ Unpark(t)
  BY <1>2 DEF RegisterThread, Safepoint, ParkSelf, SeeRelease, Unpark
<1>3. CASE OsBlockEnter(t) \/ OsBlockLeave(t)
  BY <1>3 DEF OsBlockEnter, OsBlockLeave
<1>4. CASE LockGc(t)
  BY <1>4 DEF LockGc
<1>5. CASE BackOff(t) \/ ShortOp(t) \/ AddThread(t) \/ UnregisterThread(t)
  BY <1>5 DEF BackOff, ShortOp, AddThread, UnregisterThread, Unlock
<1>6. CASE SignalPark(t) \/ SignalSeeRelease(t) \/ SignalUnpark(t)
  BY <1>6 DEF SignalPark, SignalSeeRelease, SignalUnpark
<1>7. QED
  BY <1>1, <1>2, <1>3, <1>4, <1>5, <1>6 DEF MutatorStep

\* The steps of a mutator keep the types.
LEMMA MutatorTypes ==
  ASSUME TypeOK, NEW t \in Threads, MutatorStep(t)
  PROVE  TypeOK'
<1> USE StwAssumption DEF TypeOK, At, Goto, SetParked, mutatorVars, PCs, Ops
<1> SUFFICES ASSUME TRUE
             PROVE  /\ threads' \subseteq Threads /\ lock' \in Threads \cup {NoThread} /\ trip' \in BOOLEAN
                    /\ parked' \in [Threads -> BOOLEAN] /\ pc' \in [Threads -> PCs]
                    /\ op' \in [Threads -> Ops] /\ sig' \in [Threads -> {"none", "wait", "clear"}]
                    /\ killed' \subseteq Threads
  BY MutatorFrame
<1>1. CASE \E o \in Ops : Call(t, o)
  BY <1>1 DEF Call, flagVars
<1>2. CASE RegisterThread(t) \/ Safepoint(t) \/ ParkSelf(t) \/ SeeRelease(t) \/ Unpark(t)
  BY <1>2 DEF RegisterThread, Safepoint, ParkSelf, SeeRelease, Unpark, flagVars
<1>3. CASE OsBlockEnter(t) \/ OsBlockLeave(t)
  BY <1>3 DEF OsBlockEnter, OsBlockLeave, flagVars
<1>4. CASE LockGc(t)
  BY <1>4 DEF LockGc, flagVars
<1>5. CASE BackOff(t) \/ ShortOp(t) \/ AddThread(t) \/ UnregisterThread(t)
  BY <1>5 DEF BackOff, ShortOp, AddThread, UnregisterThread, Unlock, flagVars
<1>6. CASE SignalPark(t) \/ SignalSeeRelease(t) \/ SignalUnpark(t)
  BY <1>6 DEF SignalPark, SignalSeeRelease, SignalUnpark, flagVars
<1>7. QED
  BY <1>1, <1>2, <1>3, <1>4, <1>5, <1>6 DEF MutatorStep

-----------------------------------------------------------------------------
(* The steps of the collector.                                             *)

\* While a collection runs, its thread does nothing else.
LEMMA CollectorKeeps ==
  ASSUME TypeOK, CollectorStep
  PROVE  /\ collecting \in Threads /\ UNCHANGED <<threads, parked, sig>>
         /\ FinishCollect \/ UNCHANGED <<pc, op, collecting>>
BY DEF CollectorStep, MarkSetup, EnterStw, BeginRound, RoundsOver, WindowEnds, TripRelock, Recount, BetweenRounds,
       ScanNext, ScanDone, ScanLoopEnds, RootJudged, TermJudged, Yield, DrainEnds, NextAttempt, Abort, SweepEnds,
       FinishCollect, Collector, mutatorVars, cycleVars, TypeOK

\* The steps of the collector keep the types and its bounds.
LEMMA CollectorTypes ==
  ASSUME StwInv, CollectorStep
  PROVE  TypeOK' /\ Bounded'
<1> USE StwAssumption DEF StwInv, TypeOK, Bounded, Collector, Step, Leave, Holding, Others, Handshake, CPCs,
        mutatorVars, flagVars, cycleVars, handVars
<1>1. CASE MarkSetup
  BY <1>1 DEF MarkSetup
<1>2. CASE EnterStw
  <2>1. 0 \in 0 .. Rounds
    OBVIOUS
  <2>2. TypeOK'
    BY <1>2, <2>1 DEF EnterStw
  <2>3. Bounded'
    BY <1>2 DEF EnterStw
  <2>4. QED
    BY <2>2, <2>3
<1>3. CASE BeginRound
  BY <1>3 DEF BeginRound
<1>4. CASE RoundsOver
  BY <1>4 DEF RoundsOver
<1>5. CASE WindowEnds
  BY <1>5 DEF WindowEnds
<1>6. CASE TripRelock
  BY <1>6 DEF TripRelock
<1>7. CASE Recount
  BY <1>7 DEF Recount
<1>8. CASE BetweenRounds
  BY <1>8 DEF BetweenRounds
<1>9. CASE ScanDone
  BY <1>9 DEF ScanDone
<1>10. CASE ScanLoopEnds
  BY <1>10 DEF ScanLoopEnds
<1>11. CASE RootJudged
  BY <1>11 DEF RootJudged
<1>12. CASE Yield
  BY <1>12 DEF Yield
<1>13. CASE DrainEnds
  BY <1>13 DEF DrainEnds
<1>14. CASE NextAttempt
  BY <1>14 DEF NextAttempt
<1>15. CASE Abort
  BY <1>15 DEF Abort
<1>16. CASE SweepEnds
  BY <1>16 DEF SweepEnds
<1>17. CASE FinishCollect
  BY <1>17 DEF FinishCollect, Goto, PCs, Ops
<1>18. CASE \E t \in Threads : ScanNext(t)
  BY <1>18 DEF ScanNext
<1>19. CASE \E empty \in BOOLEAN : TermJudged(empty)
  <2>1. attempt + 1 \in 0 .. TermRetries
    BY <1>19 DEF TermJudged
  <2>2. attempt' \in 0 .. TermRetries /\ Bounded'
    BY <1>19, <2>1 DEF TermJudged
  <2>3. TypeOK'
    BY <1>19, <2>2 DEF TermJudged
  <2>4. QED
    BY <2>2, <2>3
<1>20. QED
  BY <1>1, <1>2, <1>3, <1>4, <1>5, <1>6, <1>7, <1>8, <1>9, <1>10, <1>11, <1>12, <1>13, <1>14, <1>15, <1>16, <1>17, <1>18, <1>19 DEF CollectorStep

\* The collector keeps the mutex where it must have it.
LEMMA CollectorOwned ==
  ASSUME StwInv, CollectorStep
  PROVE  Owned'
<1> USE StwAssumption DEF StwInv, TypeOK, Owned, Asked, Cleared, Snapped, Recorded, Collector, Step, Leave, Holding, Others, Handshake,
        mutatorVars, flagVars, cycleVars, handVars, Waits, MayWait, Goto
<1>1. CASE MarkSetup
  BY <1>1 DEF MarkSetup
<1>2. CASE EnterStw
  BY <1>2 DEF EnterStw
<1>3. CASE BeginRound
  BY <1>3 DEF BeginRound
<1>4. CASE RoundsOver
  BY <1>4 DEF RoundsOver
<1>5. CASE WindowEnds
  BY <1>5 DEF WindowEnds
<1>6. CASE TripRelock
  BY <1>6 DEF TripRelock
<1>7. CASE Recount
  BY <1>7 DEF Recount
<1>8. CASE BetweenRounds
  BY <1>8 DEF BetweenRounds
<1>9. CASE ScanDone
  BY <1>9 DEF ScanDone
<1>10. CASE ScanLoopEnds
  BY <1>10 DEF ScanLoopEnds
<1>11. CASE RootJudged
  BY <1>11 DEF RootJudged
<1>12. CASE Yield
  BY <1>12 DEF Yield
<1>13. CASE DrainEnds
  BY <1>13 DEF DrainEnds
<1>14. CASE NextAttempt
  BY <1>14 DEF NextAttempt
<1>15. CASE Abort
  BY <1>15 DEF Abort
<1>16. CASE SweepEnds
  BY <1>16 DEF SweepEnds
<1>17. CASE FinishCollect
  BY <1>17 DEF FinishCollect
<1>18. CASE \E t \in Threads : ScanNext(t)
  BY <1>18 DEF ScanNext
<1>19. CASE \E empty \in BOOLEAN : TermJudged(empty)
  BY <1>19 DEF TermJudged, AllThreadsScanned
<1>20. QED
  BY <1>1, <1>2, <1>3, <1>4, <1>5, <1>6, <1>7, <1>8, <1>9, <1>10, <1>11, <1>12, <1>13, <1>14, <1>15, <1>16, <1>17, <1>18, <1>19 DEF CollectorStep

\* A request is up exactly while the collector wants the others stopped.
LEMMA CollectorAsked ==
  ASSUME StwInv, CollectorStep
  PROVE  Asked'
<1> USE StwAssumption DEF StwInv, TypeOK, Owned, Asked, Cleared, Snapped, Recorded, Collector, Step, Leave, Holding, Others, Handshake,
        mutatorVars, flagVars, cycleVars, handVars, Waits
<1>1. CASE MarkSetup
  BY <1>1 DEF MarkSetup
<1>2. CASE EnterStw
  BY <1>2 DEF EnterStw
<1>3. CASE BeginRound
  BY <1>3 DEF BeginRound
<1>4. CASE RoundsOver
  BY <1>4 DEF RoundsOver
<1>5. CASE WindowEnds
  BY <1>5 DEF WindowEnds
<1>6. CASE TripRelock
  BY <1>6 DEF TripRelock
<1>7. CASE Recount
  BY <1>7 DEF Recount
<1>8. CASE BetweenRounds
  BY <1>8 DEF BetweenRounds
<1>9. CASE ScanDone
  BY <1>9 DEF ScanDone
<1>10. CASE ScanLoopEnds
  BY <1>10 DEF ScanLoopEnds
<1>11. CASE RootJudged
  BY <1>11 DEF RootJudged
<1>12. CASE Yield
  BY <1>12 DEF Yield
<1>13. CASE DrainEnds
  BY <1>13 DEF DrainEnds
<1>14. CASE NextAttempt
  BY <1>14 DEF NextAttempt
<1>15. CASE Abort
  BY <1>15 DEF Abort
<1>16. CASE SweepEnds
  BY <1>16 DEF SweepEnds
<1>17. CASE FinishCollect
  BY <1>17 DEF FinishCollect
<1>18. CASE \E t \in Threads : ScanNext(t)
  BY <1>18 DEF ScanNext
<1>19. CASE \E empty \in BOOLEAN : TermJudged(empty)
  BY <1>19 DEF TermJudged, AllThreadsScanned
<1>20. QED
  BY <1>1, <1>2, <1>3, <1>4, <1>5, <1>6, <1>7, <1>8, <1>9, <1>10, <1>11, <1>12, <1>13, <1>14, <1>15, <1>16, <1>17, <1>18, <1>19 DEF CollectorStep

\* What the collector has scanned and snapped is recorded.
LEMMA CollectorRecords ==
  ASSUME StwInv, CollectorStep
  PROVE  Cleared' /\ Snapped' /\ Recorded'
<1> USE StwAssumption DEF StwInv, TypeOK, Owned, Asked, Cleared, Snapped, Recorded, Collector, Step, Leave, Holding, Others, Handshake,
        mutatorVars, flagVars, cycleVars, handVars
<1>1. CASE MarkSetup
  BY <1>1 DEF MarkSetup
<1>2. CASE EnterStw
  BY <1>2 DEF EnterStw
<1>3. CASE BeginRound
  BY <1>3 DEF BeginRound
<1>4. CASE RoundsOver
  BY <1>4 DEF RoundsOver
<1>5. CASE WindowEnds
  BY <1>5 DEF WindowEnds
<1>6. CASE TripRelock
  BY <1>6 DEF TripRelock
<1>7. CASE Recount
  BY <1>7 DEF Recount
<1>8. CASE BetweenRounds
  BY <1>8 DEF BetweenRounds
<1>9. CASE ScanDone
  BY <1>9 DEF ScanDone
<1>10. CASE ScanLoopEnds
  BY <1>10 DEF ScanLoopEnds
<1>11. CASE RootJudged
  BY <1>11 DEF RootJudged
<1>12. CASE Yield
  BY <1>12 DEF Yield
<1>13. CASE DrainEnds
  BY <1>13 DEF DrainEnds
<1>14. CASE NextAttempt
  BY <1>14 DEF NextAttempt
<1>15. CASE Abort
  BY <1>15 DEF Abort
<1>16. CASE SweepEnds
  BY <1>16 DEF SweepEnds
<1>17. CASE FinishCollect
  BY <1>17 DEF FinishCollect
<1>18. CASE \E t \in Threads : ScanNext(t)
  BY <1>18 DEF ScanNext
<1>19. CASE \E empty \in BOOLEAN : TermJudged(empty)
  BY <1>19 DEF TermJudged, AllThreadsScanned
<1>20. QED
  BY <1>1, <1>2, <1>3, <1>4, <1>5, <1>6, <1>7, <1>8, <1>9, <1>10, <1>11, <1>12, <1>13, <1>14, <1>15, <1>16, <1>17, <1>18, <1>19 DEF CollectorStep

-----------------------------------------------------------------------------
(* The steps of the threads.                                               *)

\* A mutator keeps the invariant.
LEMMA MutatorInv ==
  ASSUME StwInv, NEW t \in Threads, MutatorStep(t)
  PROVE  StwInv'
<1>1. TypeOK' /\ Bounded'
  BY MutatorTypes, MutatorFrame DEF StwInv, Bounded
<1>2. Owned'
  <2>1. /\ \A u \in Threads \ {t} : pc'[u] = pc[u]
        /\ pc[t] = "collector" <=> pc'[t] = "collector"
        /\ collecting' = collecting /\ cpc' = cpc
    BY MutatorMoves, MutatorFrame DEF StwInv
  <2>2. collecting # NoThread => lock' = lock \/ (collecting # lock /\ collecting # lock')
    <3>1. pc[t] # "collector" => collecting # t
      BY DEF StwInv, Owned
    <3>2. QED
      BY <3>1, MutatorMoves, StwAssumption DEF StwInv, Owned, TypeOK
  <2>3. \A u \in Threads : (pc'[u] = "crit" => lock' = u) /\ (lock' = u => pc'[u] \in {"crit", "collector"})
    BY MutatorMoves, StwAssumption DEF StwInv, Owned, TypeOK
  <2>4. (lock = collecting => lock' = collecting \/ cpc = "idle") /\ (lock # collecting /\ cpc # "idle" => lock' # collecting)
    BY <2>2 DEF StwInv, Owned
  <2>5. \A u \in Threads : (pc'[u] = "collector" <=> collecting' = u)
    <3> TAKE u \in Threads
    <3>1. pc[u] = "collector" <=> collecting = u
      BY DEF StwInv, Owned
    <3>2. CASE u = t
      BY <2>1, <3>1, <3>2
    <3>3. CASE u # t
      BY <2>1, <3>1, <3>3
    <3>4. QED
      BY <3>2, <3>3
  <2>6. /\ cpc' \in Waits => lock' # collecting'
        /\ cpc' \notin Waits \cup MayWait \cup {"idle"} => lock' = collecting'
        /\ cpc' = "sweep" /\ StwSweep => lock' = collecting'
        /\ collecting' = NoThread <=> cpc' = "idle"
    BY <2>1, <2>4 DEF StwInv, Owned, Waits, MayWait
  <2>7. QED
    BY <2>3, <2>5, <2>6 DEF Owned
<1>3. Asked' /\ Cleared' /\ Recorded'
  BY MutatorFrame DEF StwInv, Asked, Cleared, Recorded
<1>4. Snapped'
  <2> SUFFICES ASSUME cpc \in {"round", "window"} PROVE snap \subseteq threads'
    BY MutatorFrame DEF Snapped
  <2>1. snap \subseteq threads /\ (cpc = "round" => lock = collecting) /\ (cpc = "window" => request)
    BY DEF StwInv, Snapped, Owned, Asked, Waits, MayWait
  <2>2. CASE UnregisterThread(t)
    BY <2>1, <2>2, StwAssumption DEF UnregisterThread, At, StwInv, Owned, TypeOK
  <2>3. CASE ~UnregisterThread(t)
    <3>1. threads \subseteq threads'
      BY <2>3 DEF MutatorStep, Call, RegisterThread, Safepoint, ParkSelf, SeeRelease, Unpark, OsBlockEnter,
         OsBlockLeave, LockGc, BackOff, ShortOp, AddThread, SignalPark, SignalSeeRelease, SignalUnpark, mutatorVars
    <3>2. QED
      BY <2>1, <3>1
  <2>4. QED
    BY <2>2, <2>3
<1>5. QED
  BY <1>1, <1>2, <1>3, <1>4 DEF StwInv

\* A collection that starts finds nothing of the one before.
LEMMA StartInv ==
  ASSUME StwInv, NEW t \in Threads, StartCollect(t)
  PROVE  StwInv'
<1> USE StwAssumption DEF StwInv, StartCollect, At, Goto, TypeOK
<1>1. TypeOK' /\ Bounded'
  BY DEF flagVars, CPCs, PCs, Bounded, Handshake
<1>2. Owned'
  BY DEF Owned, Waits, MayWait
<1>3. Asked' /\ Cleared' /\ Snapped' /\ Recorded'
  BY DEF Asked, Cleared, Snapped, Recorded, Handshake, flagVars, Owned
<1>4. QED
  BY <1>1, <1>2, <1>3

\* The initial states satisfy the invariant.
LEMMA InvInit == Init => StwInv
<1> SUFFICES ASSUME Init PROVE StwInv
  OBVIOUS
<1> USE StwAssumption DEF Init
<1>1. TypeOK
  <2>1. 0 \in 0 .. Rounds /\ 0 \in 0 .. TermRetries /\ 0 \in 0 .. MaxCycles
    OBVIOUS
  <2>2. pc \in [Threads -> PCs] /\ op \in [Threads -> Ops]
    BY DEF PCs, Ops
  <2>3. QED
    BY <2>1, <2>2 DEF TypeOK, CPCs
<1>2. Owned
  BY DEF Owned, Waits, MayWait
<1>3. Asked /\ Cleared /\ Snapped /\ Recorded /\ Bounded
  BY DEF Asked, Cleared, Snapped, Recorded, Bounded, Handshake
<1>4. QED
  BY <1>1, <1>2, <1>3 DEF StwInv

\* Every step keeps the invariant.
LEMMA InvStep == StwInv /\ [Next]_vars => StwInv'
<1> SUFFICES ASSUME StwInv, [Next]_vars PROVE StwInv'
  OBVIOUS
<1>1. ASSUME NEW t \in Threads, MutatorStep(t) \/ StartCollect(t) PROVE StwInv'
  BY <1>1, MutatorInv, StartInv
<1>2. ASSUME NEW t \in Threads, WatchdogTrip(t) PROVE StwInv'
  BY <1>2, MutatorFrame DEF WatchdogTrip, mutatorVars, StwInv, TypeOK, Bounded, Owned, Asked, Cleared, Snapped, Recorded
<1>3. CASE CollectorStep
  BY <1>3, CollectorTypes, CollectorOwned, CollectorAsked, CollectorRecords DEF StwInv
<1>4. CASE UNCHANGED vars
  BY <1>4 DEF vars, mutatorVars, flagVars, cycleVars, handVars, StwInv, TypeOK, Bounded, Owned, Asked, Cleared,
     Snapped, Recorded
<1>5. QED
  BY <1>1, <1>2, <1>3, <1>4, Steps

\* The invariant holds throughout.
THEOREM Invariant == Spec => []StwInv
BY InvInit, InvStep, PTL DEF Spec

-----------------------------------------------------------------------------
(* The theorems.                                                           *)

\* Every variable keeps its type: rounds and attempts stay within their limits.
THEOREM TypeCorrect == Spec => []TypeOK
<1>1. StwInv => TypeOK
  BY DEF StwInv
<1>2. QED
  BY <1>1, Invariant, PTL

\* However a collection ends, the next one finds nothing of it: no request, no
\* closed gate, no open barrier and no scan record.
THEOREM CleanEnd == Spec => []NothingLeftBehind
<1>1. StwInv => NothingLeftBehind
  BY DEF StwInv, Owned, Asked, Cleared, NothingLeftBehind
<1>2. QED
  BY <1>1, Invariant, PTL

\* The sweep starts only after a handshake that scanned every other thread.
THEOREM AllStacksSeen == Spec => SweepSeesAllStacks
<1>1. StwInv /\ [Next]_vars => [cpc = "judge" /\ cpc' = "sweep" => Others(collecting) \subseteq seen]_vars
  <2> SUFFICES ASSUME StwInv, [Next]_vars, cpc = "judge", cpc' = "sweep"
               PROVE  Others(collecting) \subseteq seen
    OBVIOUS
  <2>1. CollectorStep
    BY Steps, MutatorFrame DEF StartCollect, vars, handVars
  <2>2. PICK empty \in BOOLEAN : TermJudged(empty)
    BY <2>1 DEF CollectorStep, MarkSetup, EnterStw, BeginRound, RoundsOver, WindowEnds, TripRelock, Recount,
       BetweenRounds, ScanNext, ScanDone, ScanLoopEnds, RootJudged, Yield, DrainEnds, NextAttempt, Abort,
       SweepEnds, FinishCollect, Collector, Step, handVars
  <2>3. AllThreadsScanned
    BY <2>2 DEF TermJudged, Step
  <2>4. QED
    BY <2>3 DEF AllThreadsScanned, StwInv, Recorded, Handshake
<1>2. QED
  BY <1>1, Invariant, PTL DEF Spec, SweepSeesAllStacks

\* The flags the collector reads without the mutex are those of live threads,
\* in both builds.
THEOREM SnapshotLives == Spec => []SnapshotAlive
<1>1. StwInv => SnapshotAlive
  BY DEF StwInv, Snapped, SnapshotAlive, Collector
<1>2. QED
  BY <1>1, Invariant, PTL

\* Without signals a thread parks only at a safe point.
LEMMA CooperativeStep ==
  ASSUME ~Signals, StwInv, Cooperative, [Next]_vars
  PROVE  Cooperative'
<1> USE DEF StwInv, TypeOK, Cooperative
<1>1. ASSUME NEW t \in Threads, MutatorStep(t) PROVE Cooperative'
  <2> USE DEF At, Goto, SetParked, mutatorVars
  <2>1. CASE \E o \in Ops : Call(t, o)
    BY <2>1 DEF Call
  <2>2. CASE RegisterThread(t) \/ Safepoint(t) \/ ParkSelf(t) \/ SeeRelease(t) \/ Unpark(t)
    BY <2>2 DEF RegisterThread, Safepoint, ParkSelf, SeeRelease, Unpark
  <2>3. CASE OsBlockEnter(t) \/ OsBlockLeave(t) \/ LockGc(t)
    BY <2>3 DEF OsBlockEnter, OsBlockLeave, LockGc
  <2>4. CASE BackOff(t) \/ ShortOp(t) \/ AddThread(t) \/ UnregisterThread(t)
    BY <2>4 DEF BackOff, ShortOp, AddThread, UnregisterThread
  <2>5. CASE SignalPark(t) \/ SignalSeeRelease(t) \/ SignalUnpark(t)
    BY <2>5 DEF SignalPark, SignalSeeRelease, SignalUnpark
  <2>6. QED
    BY <1>1, <2>1, <2>2, <2>3, <2>4, <2>5 DEF MutatorStep
<1>2. ASSUME NEW t \in Threads, WatchdogTrip(t) \/ StartCollect(t) PROVE Cooperative'
  BY <1>2 DEF WatchdogTrip, StartCollect, At, Goto, mutatorVars
<1>3. CASE CollectorStep
  <2>1. killed' = {}
    BY <1>3 DEF CollectorStep, MarkSetup, EnterStw, BeginRound, RoundsOver, WindowEnds, TripRelock, Recount,
       BetweenRounds, ScanNext, ScanDone, ScanLoopEnds, RootJudged, TermJudged, Yield, DrainEnds, NextAttempt,
       Abort, SweepEnds, FinishCollect, mutatorVars
  <2>2. CASE FinishCollect
    BY <2>1, <2>2 DEF FinishCollect, Goto, Owned
  <2>3. CASE ~FinishCollect
    BY <1>3, <2>1, <2>3, CollectorKeeps
  <2>4. QED
    BY <2>2, <2>3
<1>4. CASE UNCHANGED vars
  BY <1>4 DEF vars, mutatorVars
<1>5. QED
  BY <1>1, <1>2, <1>3, <1>4, Steps

\* The collector counts live threads, and none that it counts as parked owns
\* the mutex it must take back, when threads park at their safepoints only.
THEOREM SafelyParked ==
  ASSUME ~Signals
  PROVE  Spec => []ParkedSafely
<1>1. Init => StwInv /\ Cooperative
  BY InvInit DEF Init, Cooperative
<1>2. StwInv /\ Cooperative /\ [Next]_vars => (StwInv /\ Cooperative)'
  BY InvStep, CooperativeStep, ~Signals
<1>3. StwInv /\ Cooperative => ParkedSafely
  BY DEF StwInv, Owned, Snapped, Cooperative, ParkedSafely, SnapshotAlive, ParkedWithoutGcLock, Collector
<1>4. QED
  BY <1>1, <1>2, <1>3, PTL DEF Spec
=============================================================================
