---------------------------- MODULE NativeHandle ----------------------------
(***************************************************************************)
(* stdlib/runtime_handle.c: the handle through which the program owns a    *)
(* resource of the C runtime (a socket, a file, a thread, a channel, a     *)
(* pool, a cell), and hao_thread_join, which takes the resource out of it. *)
(* Nothing in it is locked: each read and each group of writes that comes  *)
(* between two calls is a step.  One handle is modelled, as an object of   *)
(* the heap; its finalizer runs when the program has no reference left.    *)
(***************************************************************************)
EXTENDS Naturals, FiniteSets

CONSTANTS
    Threads,
    Raws,       \* resources
    Joinable,   \* the resources are threads
    Ordered,    \* the program lets one thread at a time call on a handle
    Nil

ASSUME NilAssumption == Nil \notin Raws

VARIABLES
    raw, drop, closed,  \* the fields; drop: whether there is a drop function
    finalizer,          \* hao_handle_finalize is set on the object
    lost,               \* the program refers to it no more
    pc, arg,            \* where a thread is and with which resource
    owed,               \* resources given with a drop function (history)
    released            \* how often a resource was released (history)

handle == <<raw, drop, closed>>
vars == <<handle, finalizer, lost, pc, arg, owed, released>>

NoArg == [raw |-> Nil, drop |-> FALSE]

PC == {"idle", "close", "clear", "drop", "reset", "attach", "guard", "use", "take", "join", "finalize"}

TypeOK ==
    /\ raw \in Raws \union {Nil} /\ drop \in BOOLEAN /\ closed \in BOOLEAN
    /\ finalizer \in BOOLEAN /\ lost \in BOOLEAN
    /\ pc \in [Threads -> PC]
    /\ arg \in [Threads -> [raw : Raws \union {Nil}, drop : BOOLEAN]]
    /\ \A t \in Threads : pc[t] \in {"idle", "guard", "finalize"} => arg[t] = NoArg
    /\ owed \subseteq Raws
    /\ released \in [Raws -> Nat]

(* hao_handle_alloc.                                                       *)
Init ==
    /\ raw = Nil /\ drop = FALSE /\ closed = TRUE
    /\ finalizer = FALSE /\ lost = FALSE
    /\ pc = [t \in Threads |-> "idle"]
    /\ arg = [t \in Threads |-> NoArg]
    /\ owed = {}
    /\ released = [r \in Raws |-> 0]

At(t, here) == pc[t] = here
Goto(t, there) == pc' = [pc EXCEPT ![t] = there]

CanCall(t) ==
    /\ At(t, "idle")
    /\ ~lost
    /\ Ordered => \A u \in Threads : pc[u] = "idle"

Release(r) == released' = [released EXCEPT ![r] = @ + 1]

(* hao_handle_close and hao_handle_attach, which begins with it: arg says  *)
(* what is attached afterwards.                                            *)
Close(t) ==
    /\ CanCall(t)
    /\ Goto(t, "close")
    /\ UNCHANGED <<handle, finalizer, lost, arg, owed, released>>

(* A resource enters a handle once; drop is NULL in hao_handle_wrap.       *)
Attach(t) ==
    /\ CanCall(t)
    /\ \E r \in Raws \ (owed \union {raw} \union {arg[u].raw : u \in Threads}), d \in BOOLEAN :
          /\ released[r] = 0
          /\ arg' = [arg EXCEPT ![t] = [raw |-> r, drop |-> d]]
          /\ owed' = IF d THEN owed \union {r} ELSE owed
    /\ Goto(t, "close")
    /\ UNCHANGED <<handle, finalizer, lost, released>>

AfterClose(t) == IF arg[t].raw = Nil THEN "idle" ELSE "attach"

CloseTests(t) ==
    /\ At(t, "close")
    /\ Goto(t, IF closed THEN AfterClose(t) ELSE "clear")
    /\ UNCHANGED <<handle, finalizer, lost, arg, owed, released>>

CloseClearsFinalizer(t) ==
    /\ At(t, "clear")
    /\ finalizer' = FALSE
    /\ Goto(t, "drop")
    /\ UNCHANGED <<handle, lost, arg, owed, released>>

CloseDrops(t) ==
    /\ At(t, "drop")
    /\ IF drop /\ raw # Nil THEN Release(raw) ELSE UNCHANGED released
    /\ Goto(t, "reset")
    /\ UNCHANGED <<handle, finalizer, lost, arg, owed>>

(* Mutant: the handle is not marked closed.                                *)
CloseLeavesOpen(t) ==
    /\ At(t, "reset")
    /\ Goto(t, AfterClose(t))
    /\ UNCHANGED <<handle, finalizer, lost, arg, owed, released>>

CloseResets(t) ==
    /\ At(t, "reset")
    /\ raw' = Nil /\ drop' = FALSE /\ closed' = TRUE
    /\ Goto(t, AfterClose(t))
    /\ UNCHANGED <<finalizer, lost, arg, owed, released>>

AttachSets(t) ==
    /\ At(t, "attach")
    /\ raw' = arg[t].raw /\ drop' = arg[t].drop /\ closed' = FALSE
    /\ arg' = [arg EXCEPT ![t] = NoArg]
    /\ Goto(t, "guard")
    /\ UNCHANGED <<finalizer, lost, owed, released>>

(* Mutant: the finalizer is set for a second attach only.                  *)
AttachGuardsLate(t) ==
    /\ At(t, "guard")
    /\ finalizer' = (\E r \in Raws : released[r] > 0)
    /\ Goto(t, "idle")
    /\ UNCHANGED <<handle, lost, arg, owed, released>>

AttachGuards(t) ==
    /\ At(t, "guard")
    /\ finalizer' = TRUE
    /\ Goto(t, "idle")
    /\ UNCHANGED <<handle, lost, arg, owed, released>>

(* hao_handle_raw and the use its caller makes of the resource.            *)
hao_handle_raw(t) ==
    /\ CanCall(t)
    /\ ~closed /\ raw # Nil
    /\ arg' = [arg EXCEPT ![t].raw = raw]
    /\ Goto(t, "use")
    /\ UNCHANGED <<handle, finalizer, lost, owed, released>>

UseEnds(t) ==
    /\ At(t, "use")
    /\ arg' = [arg EXCEPT ![t] = NoArg]
    /\ Goto(t, "idle")
    /\ UNCHANGED <<handle, finalizer, lost, owed, released>>

(* hao_thread_join: reads closed and raw, empties the handle, joins.       *)
Join(t) ==
    /\ Joinable
    /\ CanCall(t)
    /\ ~closed
    /\ arg' = [arg EXCEPT ![t] = [raw |-> raw, drop |-> drop]]
    /\ Goto(t, "take")
    /\ UNCHANGED <<handle, finalizer, lost, owed, released>>

JoinTakes(t) ==
    /\ At(t, "take")
    /\ raw' = Nil /\ drop' = FALSE /\ closed' = TRUE
    /\ finalizer' = FALSE
    /\ Goto(t, "join")
    /\ UNCHANGED <<lost, arg, owed, released>>

(* Only what pthread_create made is joined, so drop was set.               *)
JoinEnds(t) ==
    /\ At(t, "join")
    /\ IF arg[t].drop THEN Release(arg[t].raw) ELSE UNCHANGED released
    /\ arg' = [arg EXCEPT ![t] = NoArg]
    /\ Goto(t, "idle")
    /\ UNCHANGED <<handle, finalizer, lost, owed>>

Forget ==
    /\ ~lost
    /\ \A t \in Threads : At(t, "idle")
    /\ lost' = TRUE
    /\ UNCHANGED <<handle, finalizer, pc, arg, owed, released>>

(* The drain takes the finalizer off the object and calls it.              *)
Swept(t) ==
    /\ At(t, "idle")
    /\ lost /\ finalizer
    /\ finalizer' = FALSE
    /\ Goto(t, "finalize")
    /\ UNCHANGED <<handle, lost, arg, owed, released>>

hao_handle_finalize(t) ==
    /\ At(t, "finalize")
    /\ IF closed
       THEN UNCHANGED <<handle, released>>
       ELSE /\ IF drop /\ raw # Nil THEN Release(raw) ELSE UNCHANGED released
            /\ raw' = Nil /\ drop' = FALSE /\ closed' = TRUE
    /\ Goto(t, "idle")
    /\ UNCHANGED <<finalizer, lost, arg, owed>>

Next ==
    \/ \E t \in Threads :
          \/ Close(t) \/ Attach(t) \/ CloseTests(t) \/ CloseClearsFinalizer(t) \/ CloseDrops(t)
          \/ CloseResets(t) \/ AttachSets(t) \/ AttachGuards(t)
          \/ hao_handle_raw(t) \/ UseEnds(t)
          \/ Join(t) \/ JoinTakes(t) \/ JoinEnds(t)
          \/ Swept(t) \/ hao_handle_finalize(t)
    \/ Forget

Spec == Init /\ [][Next]_vars

-----------------------------------------------------------------------------
(* Properties.                                                             *)

(* No resource is released twice: by close, by attach over it, by join or  *)
(* by the finalizer.                                                       *)
DropOnce == \A r \in Raws : released[r] <= 1

(* Nor does a caller of hao_handle_raw use it after it was released.       *)
ReleasedOnce == DropOnce /\ \A t \in Threads : At(t, "use") => released[arg[t].raw] = 0

(* A resource that was given to the handle to be released is released, or  *)
(* the handle still has it and a finalizer that will see to it.            *)
NoLeak ==
    (\A t \in Threads : At(t, "idle")) =>
        \A r \in owed : released[r] = 0 => raw = r /\ drop /\ ~closed /\ finalizer
=============================================================================
