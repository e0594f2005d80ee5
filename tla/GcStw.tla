------------------------------- MODULE GcStw -------------------------------
(***************************************************************************)
(* The cooperative stop-the-world handshake of the HaoLang collector       *)
(* (stdlib/runtime_gc.c) and the control flow of one collection around it. *)
(*                                                                         *)
(* Every mutator owns a flag g_parked.  The collector publishes            *)
(* gc_stw_request, gives the GC mutex up while it waits, takes it back,    *)
(* recounts, scans the threads whose flag is up and finally leaves, which  *)
(* drops the request and raises gc_stw_release.  All waits are bounded by  *)
(* wall clock budgets, modelled as "may give up at any time".              *)
(*                                                                         *)
(* Marking itself is abstracted to "the worklist is empty or it is not"    *)
(* (module GcMark has the colours), a scan to "this thread was scanned".   *)
(***************************************************************************)
EXTENDS Naturals, FiniteSets

CONSTANTS
  Threads,     \* the OS threads that may ever run Hao code
  Main,        \* the thread registered by gc_init; it never unregisters
  NoThread,    \* "nobody holds it"
  Signals,     \* TRUE: the POSIX build, which also parks by SIGUSR2
  StwSweep,    \* TRUE: HAO_GC_STW_SWEEP=1, the sweep stays inside the stop
  Rounds,      \* GC_STW_ROUNDS
  TermRetries, \* GC_STW_TERM_RETRIES
  MaxCycles    \* bound: collections started in a behaviour

ASSUME StwAssumption ==
  /\ Main \in Threads
  /\ NoThread \notin Threads
  /\ Signals \in BOOLEAN /\ StwSweep \in BOOLEAN
  /\ Rounds \in Nat \ {0}
  /\ TermRetries \in Nat \ {0}
  /\ MaxCycles \in Nat

VARIABLES
  threads,     \* gc_threads: the registered ones
  lock,        \* owner of the GC mutex
  request,     \* gc_stw_request
  release,     \* gc_stw_release
  trip,        \* g_stw_watchdog_trip
  parked,      \* g_parked of every thread
  pc,          \* where every thread is in the code below
  op,          \* the operation a thread takes the GC mutex for
  sig,         \* where every thread is in gc_park_handler
  killed,      \* threads with SIGUSR2 pending
  phase,       \* gc_phase
  collecting,  \* the thread inside gc_collect_inner (gc_collecting)
  cpc,         \* where the collector is
  snap,        \* snap[]: copy of gc_threads
  round,       \* round of the handshake
  stw,         \* g_stw_soft_phase
  attempt,     \* attempt of the termination handshake
  missing,     \* missing # 0 after the last recount
  todo,        \* snapshot entries the scan loop has not reached
  scanned,     \* gc_scanned_tids
  seen,        \* history: threads scanned since the handshake at hand began
  cycles       \* collections started so far

mutatorVars == <<threads, parked, pc, op, sig, killed>>
cycleVars   == <<phase, collecting, cycles>>
handVars    == <<cpc, snap, round, stw, attempt, missing, todo, scanned, seen>>
flagVars    == <<request, release, trip>>
vars == <<mutatorVars, lock, flagVars, cycleVars, handVars>>

Ops == {"none", "alloc", "collect", "register", "unregister"}
PCs == {"new", "run", "poll", "park", "wait", "clear", "blocked",
        "lock", "crit", "collector", "dead"}
CPCs == {"idle", "setup", "enter", "round", "window", "tripped", "relock",
         "between", "scan", "scanning", "judge", "drain", "retry",
         "sweep", "reclaim", "abort"}

TypeOK ==
  /\ threads \subseteq Threads
  /\ lock \in Threads \cup {NoThread}
  /\ request \in BOOLEAN /\ release \in BOOLEAN /\ trip \in BOOLEAN
  /\ parked \in [Threads -> BOOLEAN]
  /\ pc \in [Threads -> PCs]
  /\ op \in [Threads -> Ops]
  /\ sig \in [Threads -> {"none", "wait", "clear"}]
  /\ killed \subseteq Threads
  /\ phase \in {"IDLE", "MARK"}
  /\ collecting \in Threads \cup {NoThread}
  /\ cpc \in CPCs
  /\ snap \subseteq Threads /\ todo \subseteq Threads
  /\ scanned \subseteq Threads /\ seen \subseteq Threads
  /\ round \in 0 .. Rounds
  /\ stw \in {"root", "term"}
  /\ attempt \in 0 .. TermRetries
  /\ missing \in BOOLEAN
  /\ cycles \in 0 .. MaxCycles

Init ==
  /\ threads = {Main}
  /\ lock = NoThread
  /\ request = FALSE /\ release = TRUE /\ trip = FALSE
  /\ parked = [t \in Threads |-> FALSE]
  /\ pc = [t \in Threads |-> IF t = Main THEN "run" ELSE "new"]
  /\ op = [t \in Threads |-> "none"]
  /\ sig = [t \in Threads |-> "none"] /\ killed = {}
  /\ phase = "IDLE" /\ collecting = NoThread /\ cycles = 0
  /\ cpc = "idle" /\ snap = {} /\ round = 0 /\ stw = "root" /\ attempt = 0
  /\ missing = FALSE /\ todo = {} /\ scanned = {} /\ seen = {}

-----------------------------------------------------------------------------
(* Mutators.  A thread inside the signal handler does nothing else.        *)

At(t, where) == pc[t] = where /\ sig[t] = "none"
Goto(t, where) == pc' = [pc EXCEPT ![t] = where]
SetParked(t, b) == parked' = [parked EXCEPT ![t] = b]

\* The GC mutex is wanted for o: every such operation starts at a safepoint.
Call(t, o) ==
  /\ At(t, "run")
  /\ o = "unregister" => t # Main
  /\ op' = [op EXCEPT ![t] = o]
  /\ Goto(t, "poll")
  /\ UNCHANGED <<threads, parked, sig, killed, lock, flagVars, cycleVars, handVars>>

\* gc_register_thread takes the mutex without looking at the request.
RegisterThread(t) ==
  /\ At(t, "new")
  /\ op' = [op EXCEPT ![t] = "register"]
  /\ Goto(t, "lock")
  /\ UNCHANGED <<threads, parked, sig, killed, lock, flagVars, cycleVars, handVars>>

\* hao_gc_safepoint: the read of gc_stw_request.
Safepoint(t) ==
  /\ At(t, "poll")
  /\ Goto(t, IF request THEN "park" ELSE IF op[t] = "none" THEN "run" ELSE "lock")
  /\ UNCHANGED <<threads, parked, op, sig, killed, lock, flagVars, cycleVars, handVars>>

\* gc_park_wait up to the wait loop.
ParkSelf(t) ==
  /\ At(t, "park")
  /\ SetParked(t, TRUE)
  /\ Goto(t, "wait")
  /\ UNCHANGED <<threads, op, sig, killed, lock, flagVars, cycleVars, handVars>>

\* gc_mutator_wait_stw_release sees gc_stw_release = 1.
SeeRelease(t) ==
  /\ At(t, "wait") /\ release
  /\ Goto(t, "clear")
  /\ UNCHANGED <<threads, parked, op, sig, killed, lock, flagVars, cycleVars, handVars>>

\* Its first timeout: it only arms the trip and goes on waiting.
WatchdogTrip(t) ==
  /\ At(t, "wait") /\ ~release /\ ~trip
  /\ trip' = TRUE
  /\ UNCHANGED <<mutatorVars, lock, request, release, cycleVars, handVars>>

\* The store g_parked = 0 that ends gc_park_wait, os_block_leave and disarm.
Unpark(t) ==
  /\ At(t, "clear")
  /\ SetParked(t, FALSE)
  /\ Goto(t, IF op[t] = "none" THEN "run" ELSE "lock")
  /\ UNCHANGED <<threads, op, sig, killed, lock, flagVars, cycleVars, handVars>>

\* hao_gc_os_block_enter / arm: the flag goes up, the thread blocks in the OS.
\* (The safepoint of enter is a Safepoint step before this one.)
OsBlockEnter(t) ==
  /\ At(t, "run")
  /\ SetParked(t, TRUE)
  /\ Goto(t, "blocked")
  /\ UNCHANGED <<threads, op, sig, killed, lock, flagVars, cycleVars, handVars>>

\* hao_gc_os_block_leave / disarm: the read of gc_stw_request.
OsBlockLeave(t) ==
  /\ At(t, "blocked")
  /\ Goto(t, IF request THEN "wait" ELSE "clear")
  /\ UNCHANGED <<threads, parked, op, sig, killed, lock, flagVars, cycleVars, handVars>>

LockGc(t) ==
  /\ At(t, "lock") /\ lock = NoThread
  /\ lock' = t
  /\ Goto(t, "crit")
  /\ UNCHANGED <<threads, parked, op, sig, killed, flagVars, cycleVars, handVars>>

Unlock(t) == lock' = NoThread

\* The mutex is held but a stop was requested meanwhile: unlock and poll again.
BackOff(t) ==
  /\ At(t, "crit") /\ op[t] # "register" /\ request
  /\ Unlock(t)
  /\ Goto(t, "poll")
  /\ UNCHANGED <<threads, parked, op, sig, killed, flagVars, cycleVars, handVars>>

\* gc_alloc_ex, add_root, ... : a short critical section.  A collect request
\* that finds gc_collecting set returns as well.
ShortOp(t) ==
  /\ At(t, "crit") /\ ~request
  /\ \/ op[t] = "alloc"
     \/ op[t] = "collect" /\ (collecting # NoThread \/ cycles = MaxCycles)
  /\ Unlock(t)
  /\ op' = [op EXCEPT ![t] = "none"]
  /\ Goto(t, "run")
  /\ UNCHANGED <<threads, parked, sig, killed, flagVars, cycleVars, handVars>>

AddThread(t) ==
  /\ At(t, "crit") /\ op[t] = "register"
  /\ threads' = threads \cup {t}
  /\ Unlock(t)
  /\ op' = [op EXCEPT ![t] = "none"]
  /\ Goto(t, "run")
  /\ UNCHANGED <<parked, sig, killed, flagVars, cycleVars, handVars>>

\* Mutant: leaves the table without looking at the request.
UnregisterThreadUnchecked(t) ==
  /\ At(t, "crit") /\ op[t] = "unregister"
  /\ threads' = threads \ {t}
  /\ Unlock(t)
  /\ op' = [op EXCEPT ![t] = "none"]
  /\ Goto(t, "dead")
  /\ UNCHANGED <<parked, sig, killed, flagVars, cycleVars, handVars>>

\* gc_unregister_thread past its loop: leave the table, the TLS is gone.
UnregisterThread(t) ==
  /\ At(t, "crit") /\ op[t] = "unregister" /\ ~request
  /\ threads' = threads \ {t}
  /\ Unlock(t)
  /\ op' = [op EXCEPT ![t] = "none"]
  /\ Goto(t, "dead")
  /\ UNCHANGED <<parked, sig, killed, flagVars, cycleVars, handVars>>

\* gc_run_collect_locked / gc_collect with gc_collecting = 0.
StartCollect(t) ==
  /\ At(t, "crit") /\ op[t] = "collect" /\ ~request
  /\ collecting = NoThread /\ cycles < MaxCycles
  /\ t \notin killed       \* a pending signal is delivered long before this
  /\ collecting' = t
  /\ cycles' = cycles + 1
  /\ cpc' = "setup"
  /\ Goto(t, "collector")
  /\ UNCHANGED <<threads, parked, op, sig, killed, lock, flagVars, phase,
                 snap, round, stw, attempt, missing, todo, scanned, seen>>

-----------------------------------------------------------------------------
(* gc_park_handler: SIGUSR2 stops a thread wherever it is.                  *)

SignalPark(t) ==
  /\ t \in killed /\ sig[t] = "none" /\ pc[t] \notin {"dead", "collector"}
  /\ killed' = killed \ {t}
  /\ sig' = [sig EXCEPT ![t] = "wait"]
  /\ SetParked(t, TRUE)
  /\ UNCHANGED <<threads, pc, op, lock, flagVars, cycleVars, handVars>>

SignalSeeRelease(t) ==
  /\ sig[t] = "wait" /\ release
  /\ sig' = [sig EXCEPT ![t] = "clear"]
  /\ UNCHANGED <<threads, parked, pc, op, killed, lock, flagVars, cycleVars, handVars>>

SignalUnpark(t) ==
  /\ sig[t] = "clear"
  /\ sig' = [sig EXCEPT ![t] = "none"]
  /\ SetParked(t, FALSE)
  /\ UNCHANGED <<threads, pc, op, killed, lock, flagVars, cycleVars, handVars>>

-----------------------------------------------------------------------------
(* The collector: gc_collect_inner on the thread c = collecting.           *)

Others(c) == threads \ {c}
Collector(where) == collecting # NoThread /\ cpc = where
Step(where) == cpc' = where
Holding == lock = collecting

\* gc_stw_leave
Leave == request' = FALSE /\ release' = TRUE

\* Mark setup: the barrier is opened before the roots are scanned.
MarkSetup ==
  /\ Collector("setup")
  /\ phase' = "MARK"
  /\ scanned' = {}
  /\ stw' = "root" /\ attempt' = 0
  /\ Step("enter")
  /\ UNCHANGED <<mutatorVars, lock, flagVars, collecting, cycles,
                 snap, round, missing, todo, seen>>

\* gc_stw_enter_and_scan_soft: copy the table; alone, there is nobody to stop.
EnterStw ==
  /\ Collector("enter")
  /\ snap' = threads
  /\ round' = 0 /\ missing' = FALSE /\ seen' = {}
  /\ Step(IF Others(collecting) = {} THEN "judge" ELSE "round")
  /\ UNCHANGED <<mutatorVars, lock, flagVars, cycleVars, stw, attempt, todo, scanned>>

\* Top of a round: publish the request and give the mutex up.
BeginRound ==
  /\ Collector("round") /\ round < Rounds /\ ~trip
  /\ release' = FALSE /\ request' = TRUE
  /\ killed' = IF Signals THEN killed \cup (snap \ {collecting}) ELSE killed
  /\ lock' = NoThread
  /\ Step("window")
  /\ UNCHANGED <<threads, parked, pc, op, sig, trip, cycleVars,
                 snap, round, stw, attempt, missing, todo, scanned, seen>>

\* Top of a round with total_ms spent, or all rounds done: on to the scan.
RoundsOver ==
  /\ Collector("round")
  /\ todo' = snap \ {collecting}
  /\ Step(IF trip THEN "abort" ELSE "scan")
  /\ UNCHANGED <<mutatorVars, lock, flagVars, cycleVars,
                 snap, round, stw, attempt, missing, scanned, seen>>

\* The unlocked wait ends: all parked, trip, stall or budget.
WindowEnds ==
  /\ Collector("window")
  /\ Step(IF trip THEN "tripped" ELSE "relock")
  /\ UNCHANGED <<mutatorVars, lock, flagVars, cycleVars,
                 snap, round, stw, attempt, missing, todo, scanned, seen>>

\* The wait saw the trip: take the mutex only to abort.
TripRelock ==
  /\ Collector("tripped") /\ lock = NoThread
  /\ lock' = collecting
  /\ Step("abort")
  /\ UNCHANGED <<mutatorVars, flagVars, cycleVars,
                 snap, round, stw, attempt, missing, todo, scanned, seen>>

\* Back under the mutex: refresh the snapshot, recount.
Recount ==
  /\ Collector("relock") /\ lock = NoThread
  /\ lock' = collecting
  /\ snap' = threads
  /\ missing' = (\E t \in Others(collecting) : ~parked[t])
  /\ todo' = Others(collecting)
  /\ Step(IF missing' /\ round + 1 < Rounds THEN "between"
          ELSE IF trip THEN "abort" ELSE "scan")
  /\ UNCHANGED <<mutatorVars, flagVars, cycleVars, round, stw, attempt, scanned, seen>>

\* Someone is missing: request stays up, the mutex is given up once more.
BetweenRounds ==
  /\ Collector("between")
  /\ IF Holding
       THEN lock' = NoThread /\ UNCHANGED <<cpc, snap, round>>
       ELSE /\ lock = NoThread
            /\ lock' = collecting
            /\ snap' = threads
            /\ round' = round + 1
            /\ Step("round")
  /\ UNCHANGED <<mutatorVars, flagVars, cycleVars, stw, attempt, missing, todo, scanned, seen>>

\* The scan loop: a thread whose flag is up is scanned and recorded, the
\* others are passed over.  "scanning" is the time the stack is being read.
ScanNext(t) ==
  /\ Collector("scan") /\ t \in todo
  /\ IF parked[t]
       THEN /\ Step("scanning") /\ UNCHANGED todo
            /\ scanned' = scanned \cup {t} /\ seen' = seen \cup {t}
       ELSE UNCHANGED <<cpc, scanned, seen>> /\ todo' = todo \ {t}
  /\ UNCHANGED <<mutatorVars, lock, flagVars, cycleVars, snap, round, stw, attempt, missing>>

ScanDone ==
  /\ Collector("scanning")
  /\ todo' = todo \ scanned
  /\ Step("scan")
  /\ UNCHANGED <<mutatorVars, lock, flagVars, cycleVars,
                 snap, round, stw, attempt, missing, scanned, seen>>

ScanLoopEnds ==
  /\ Collector("scan") /\ todo = {}
  /\ Step("judge")
  /\ UNCHANGED <<mutatorVars, lock, flagVars, cycleVars,
                 snap, round, stw, attempt, missing, todo, scanned, seen>>

\* The root handshake decides: incomplete aborts, complete leaves and marks.
RootJudged ==
  /\ Collector("judge") /\ stw = "root"
  /\ scanned' = scanned \cup {collecting}
  /\ IF missing
       THEN Step("abort") /\ UNCHANGED <<request, release, stw>>
       ELSE Leave /\ stw' = "term" /\ Step("drain")
  /\ UNCHANGED <<mutatorVars, lock, trip, cycleVars, snap, round, attempt, missing, todo, seen>>

\* gc_all_threads_scanned
AllThreadsScanned == Others(collecting) \subseteq scanned

\* The termination handshake decides.  empty: the worklist after both seeds.
TermJudged(empty) ==
  /\ Collector("judge") /\ stw = "term"
  /\ scanned' = scanned \cup {collecting}
  /\ IF ~missing /\ AllThreadsScanned /\ empty
       THEN /\ phase' = "IDLE"
            /\ Step("sweep")
            /\ IF StwSweep THEN UNCHANGED <<request, release>> ELSE Leave
            /\ UNCHANGED attempt
       ELSE /\ Leave
            /\ attempt' = attempt + 1
            /\ Step("drain")
            /\ UNCHANGED phase
  /\ UNCHANGED <<mutatorVars, lock, trip, collecting, cycles,
                 snap, round, stw, missing, todo, seen>>

\* Concurrent work gives the mutex up now and then and takes it back: the
\* drain (and the sleep after a failed attempt), the sweep, the reclaim.
Yield ==
  /\ \/ Collector("drain") \/ Collector("reclaim")
     \/ Collector("sweep") /\ ~StwSweep
  /\ lock' = IF Holding THEN NoThread ELSE collecting
  /\ Holding \/ lock = NoThread
  /\ UNCHANGED <<mutatorVars, flagVars, cycleVars, handVars>>

\* The drain is over: next attempt of the termination handshake.
DrainEnds ==
  /\ Collector("drain") /\ Holding
  /\ Step("retry")
  /\ UNCHANGED <<mutatorVars, lock, flagVars, cycleVars,
                 snap, round, stw, attempt, missing, todo, scanned, seen>>

\* Mutant: the records of the last handshake are kept.
NextAttemptKeepsScanned ==
  /\ Collector("retry")
  /\ Step(IF trip \/ attempt = TermRetries THEN "abort" ELSE "enter")
  /\ UNCHANGED <<mutatorVars, lock, flagVars, cycleVars,
                 snap, round, stw, attempt, missing, todo, scanned, seen>>

\* Top of an attempt: no attempt left or a trip aborts; scanned starts anew.
NextAttempt ==
  /\ Collector("retry")
  /\ IF trip \/ attempt = TermRetries
       THEN Step("abort") /\ UNCHANGED scanned
       ELSE Step("enter") /\ scanned' = {}
  /\ UNCHANGED <<mutatorVars, lock, flagVars, cycleVars,
                 snap, round, stw, attempt, missing, todo, seen>>

\* Mutant: gives up without leaving the stop.
AbortStopped ==
  /\ Collector("abort")
  /\ trip' = FALSE
  /\ phase' = "IDLE"
  /\ scanned' = {}
  /\ Step("reclaim")
  /\ UNCHANGED <<mutatorVars, lock, request, release, collecting, cycles,
                 snap, round, stw, attempt, missing, todo, seen>>

\* gc_abort_mark_cycle
Abort ==
  /\ Collector("abort")
  /\ IF request THEN Leave ELSE UNCHANGED <<request, release>>
  /\ trip' = FALSE
  /\ phase' = "IDLE"
  /\ scanned' = {}
  /\ Step("reclaim")
  /\ UNCHANGED <<mutatorVars, lock, collecting, cycles,
                 snap, round, stw, attempt, missing, todo, seen>>

SweepEnds ==
  /\ Collector("sweep") /\ Holding
  /\ IF StwSweep THEN Leave ELSE UNCHANGED <<request, release>>
  /\ scanned' = {}
  /\ Step("reclaim")
  /\ UNCHANGED <<mutatorVars, lock, trip, cycleVars,
                 snap, round, stw, attempt, missing, todo, seen>>

\* The doomed list is drained: gc_collecting = 0, unlock.
FinishCollect ==
  /\ Collector("reclaim") /\ Holding
  /\ collecting' = NoThread
  /\ lock' = NoThread
  /\ Step("idle")
  /\ Goto(collecting, "run")
  /\ op' = [op EXCEPT ![collecting] = "none"]
  /\ UNCHANGED <<threads, parked, sig, killed, flagVars, phase, cycles,
                 snap, round, stw, attempt, missing, todo, scanned, seen>>

-----------------------------------------------------------------------------

CollectorStep ==
  \/ MarkSetup \/ EnterStw \/ BeginRound \/ RoundsOver \/ WindowEnds
  \/ TripRelock \/ Recount \/ BetweenRounds
  \/ (\E t \in Threads : ScanNext(t)) \/ ScanDone \/ ScanLoopEnds
  \/ RootJudged \/ (\E empty \in BOOLEAN : TermJudged(empty))
  \/ Yield \/ DrainEnds \/ NextAttempt \/ Abort \/ SweepEnds \/ FinishCollect

\* What a thread does by itself once it is under way.
ThreadStep(t) ==
  \/ Safepoint(t) \/ ParkSelf(t) \/ SeeRelease(t) \/ Unpark(t)
  \/ LockGc(t) \/ BackOff(t) \/ ShortOp(t) \/ AddThread(t)
  \/ UnregisterThread(t) \/ StartCollect(t)
  \/ SignalPark(t) \/ SignalSeeRelease(t) \/ SignalUnpark(t)

\* What the program, the operating system or the clock decides.
Environment(t) ==
  \/ \E o \in Ops \ {"register"} : Call(t, o)
  \/ RegisterThread(t) \/ WatchdogTrip(t) \/ OsBlockEnter(t) \/ OsBlockLeave(t)

Next == CollectorStep \/ \E t \in Threads : ThreadStep(t) \/ Environment(t)

Spec == Init /\ [][Next]_vars

\* The collector's steps are straight-line code between bounded waits, and a
\* thread that polled, parks, sees the release or owns the mutex runs on.
\* Nothing is assumed of what the program or the clock decides, and nothing of
\* the order in which a contended mutex is granted.
Fairness ==
  /\ WF_vars(CollectorStep)
  /\ \A t \in Threads : WF_vars(ThreadStep(t))

FairSpec == Spec /\ Fairness

-----------------------------------------------------------------------------
(* Properties.                                                             *)

\* While the collector counts flags without the mutex (gc_count_parked in the
\* wait loop) every thread of its snapshot is still registered: the flags live
\* in the TLS of the threads, which an exiting thread takes with it.
SnapshotAlive ==
  Collector("window") => snap \subseteq threads

\* A thread that announces itself parked does not own the GC mutex, so the
\* collector can take it back at the end of its wait (cooperative parking).
ParkedWithoutGcLock ==
  \A t \in Threads : parked[t] => lock # t

\* Both: the threads the collector counts as parked are there, and none of
\* them has what the collector needs to go on.
ParkedSafely == SnapshotAlive /\ ParkedWithoutGcLock

\* Whatever way a collection ends (sweep, incomplete root or termination
\* handshake, watchdog), it leaves no stop requested, no parked thread shut in,
\* no open barrier and no scan record behind for the next one.
NothingLeftBehind ==
  collecting = NoThread =>
    ~request /\ release /\ phase = "IDLE" /\ scanned = {}

\* The sweep starts only when every registered thread but the collector had its
\* stack scanned in the very handshake that just ended, threads registered
\* while the mutex was given up included.
SweepSeesAllStacks ==
  [][cpc = "judge" /\ cpc' = "sweep" => Others(collecting) \subseteq seen]_vars

\* A thread that waits for the release of a stop is let go eventually.
Released ==
  \A t \in Threads :
    (pc[t] = "wait" \/ sig[t] = "wait") ~> (pc[t] # "wait" /\ sig[t] # "wait")

\* The same, unless a signal has parked the thread that owns the GC mutex: then
\* the collector cannot go on.
ReleasedUnlessWedged ==
  \A t \in Threads :
    (pc[t] = "wait" \/ sig[t] = "wait")
      ~> \/ pc[t] # "wait" /\ sig[t] # "wait"
         \/ lock \in Threads /\ sig[lock] = "wait"

\* What the comment in hao_gc_os_block_leave promises: a thread scanned as
\* parked stays put until the collector leaves.
HeldUntilLeave ==
  \A t \in scanned \ {collecting} :
    request => pc[t] \in {"wait", "clear", "blocked"} \/ sig[t] \in {"wait", "clear"}

\* What the comment above the root handshake promises: concurrent marking is
\* never entered with a registered thread whose roots were not scanned.
NoMissedRootIntoMark ==
  [][cpc = "judge" /\ cpc' = "drain" /\ stw = "root"
       => Others(collecting) \subseteq seen]_vars

=============================================================================
