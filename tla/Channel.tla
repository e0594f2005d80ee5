------------------------------ MODULE Channel ------------------------------
(***************************************************************************)
(* The channels of stdlib/runtime_channel.c: send, recv, trySend, tryRecv, *)
(* close, select and the drop of the native channel.                       *)
(*                                                                         *)
(* A critical section of the channel mutex is one step, from the moment    *)
(* the mutex is taken to the unlock or to the cond_wait that releases it.  *)
(* The mutex is a variable because one path keeps it while it blocks: a    *)
(* thread that cond_wait has woken owns it again and then waits, in        *)
(* hao_gc_os_block_disarm, for a stop-the-world request to be released.    *)
(* Roots are added before the mutex is taken and removed after it is given *)
(* back, each in a step of its own.                                        *)
(*                                                                         *)
(* The single slot of an unbuffered channel (slot, has_slot) is the ring   *)
(* of size one whose length is has_slot.  A thread asleep on cv_send or on *)
(* cv_recv is one whose pc is "asleep": which of the two it is on follows  *)
(* from the call it is making.  Payloads are heap objects, so every one is *)
(* rooted; an integer payload differs in that its roots stay 0.  The       *)
(* failing calloc of make and select is left out.                          *)
(***************************************************************************)
EXTENDS Naturals, FiniteSets, Sequences

CONSTANTS
    Threads,    \* threads of the program
    Chans,      \* the channels
    Values,     \* payloads
    Cap,        \* Cap[c]: capacity c was made with; 0 is a rendezvous
    Requests,   \* Requests[t]: the calls thread t may make
    Collects,   \* whether the collector stops the world meanwhile
    None

SendOps == {"send", "trySend"}
RecvOps == {"recv", "tryRecv", "selRecv"}

(* A case of select is a trySend or sel_try_recv of one channel.           *)
Cases == [op : {"trySend"}, c : Chans, v : Values] \union [op : {"selRecv"}, c : Chans]

Calls == [op : SendOps \union {"await"}, c : Chans, v : Values]
            \union [op : RecvOps \union {"close"}, c : Chans]

Selects == [op : {"select"}, cases : (SUBSET Cases) \ {{}}, default : BOOLEAN]

(* What a program can ask for: waiting for the taker is the second half of *)
(* an unbuffered send, and sel_try_recv runs under a select only.          *)
ProgramCalls == {k \in Calls : k.op \notin {"await", "selRecv"}}

Answers == {"ok", "fail", "zero", "default"}

ASSUME FiniteAssumption == IsFiniteSet(Threads) /\ IsFiniteSet(Chans)
ASSUME CapAssumption == Cap \in [Chans -> Nat]
ASSUME NoneAssumption ==
    None \notin Values \union Calls \union Selects \union Threads \union Answers
ASSUME ValuesAssumption == Values \intersect Answers = {}
ASSUME RequestsAssumption == Requests \in [Threads -> SUBSET (ProgramCalls \union Selects)]

VARIABLES
    buf, head, len,     \* the ring of each channel
    closed,             \* channels that are closed
    freed,              \* channels whose native part was dropped
    mtx,                \* owner of the channel mutex, between two steps
    selq,               \* selq[c]: enrolled <<thread, case>> nodes
    woken,              \* the woken flag of a thread's select waiter
    roots,              \* how often a payload is in the root table
    pc,                 \* where a thread is
    req,                \* the program's call, None outside one
    call,               \* the primitive being run: req or a case of it
    ret,                \* what the call returns, None until that is decided
    todo,               \* cases the current pass of select has still to visit
    enrolled,           \* whether select is past its enrol pass
    stw                 \* gc_stw_request

ring == <<buf, head, len>>
selVars == <<todo, enrolled>>
vars == <<buf, head, len, closed, freed, mtx, selq, woken, roots, pc, req,
          call, ret, todo, enrolled, stw>>

Size(c) == IF Cap[c] = 0 THEN 1 ELSE Cap[c]

PC == {"idle", "enter", "asleep", "wake", "disarm", "unroot", "return",
       "next", "enrol", "parked", "leave"}

RingOK ==
    /\ DOMAIN buf = Chans
    /\ head \in [Chans -> Nat] /\ len \in [Chans -> Nat]
    /\ \A c \in Chans : /\ buf[c] \in [0 .. Size(c) - 1 -> Values \union {None}]
                        /\ head[c] < Size(c) /\ len[c] <= Size(c)

TypeOK ==
    /\ RingOK
    /\ closed \subseteq Chans /\ freed \subseteq closed
    /\ mtx \in [Chans -> Threads \union {None}]
    /\ selq \in [Chans -> SUBSET (Threads \X Cases)]
    /\ woken \in [Threads -> BOOLEAN]
    /\ roots \in [Values -> Nat]
    /\ pc \in [Threads -> PC]
    /\ req \in [Threads -> Calls \union Selects \union {None}]
    /\ call \in [Threads -> Calls \union {None}]
    /\ ret \in [Threads -> Values \union Answers \union {None}]
    /\ todo \in [Threads -> SUBSET Cases]
    /\ enrolled \in [Threads -> BOOLEAN]
    /\ stw \in BOOLEAN

Init ==
    /\ buf = [c \in Chans |-> [i \in 0 .. Size(c) - 1 |-> None]]
    /\ head = [c \in Chans |-> 0]
    /\ len = [c \in Chans |-> 0]
    /\ closed = {} /\ freed = {}
    /\ mtx = [c \in Chans |-> None]
    /\ selq = [c \in Chans |-> {}]
    /\ woken = [t \in Threads |-> FALSE]
    /\ roots = [v \in Values |-> 0]
    /\ pc = [t \in Threads |-> "idle"]
    /\ req = [t \in Threads |-> None]
    /\ call = [t \in Threads |-> None]
    /\ ret = [t \in Threads |-> None]
    /\ todo = [t \in Threads |-> {}]
    /\ enrolled = [t \in Threads |-> FALSE]
    /\ stw = FALSE

-----------------------------------------------------------------------------
(* The ring.                                                               *)

Full(c) == len[c] >= Size(c)
Empty(c) == len[c] = 0

Contents(c) == [i \in 1 .. len[c] |-> buf[c][(head[c] + i - 1) % Size(c)]]

Holding(c, v) == {i \in 1 .. len[c] : Contents(c)[i] = v}

chan_push_buf(c, v) ==
    /\ buf' = [buf EXCEPT ![c][(head[c] + len[c]) % Size(c)] = v]
    /\ len' = [len EXCEPT ![c] = @ + 1]
    /\ UNCHANGED head

chan_pop_buf(c) ==
    /\ head' = [head EXCEPT ![c] = (@ + 1) % Size(c)]
    /\ len' = [len EXCEPT ![c] = @ - 1]
    /\ UNCHANGED buf

(* hao_gc_add_root_if_heap and hao_gc_remove_root: the table is a bag.     *)
chan_root(v) == roots' = [roots EXCEPT ![v] = @ + 1]
chan_unroots(v, n) == IF roots[v] <= n THEN 0 ELSE roots[v] - n
chan_unroot(v) == roots' = [roots EXCEPT ![v] = chan_unroots(v, 1)]

-----------------------------------------------------------------------------
(* Sleeping and waking.  A signal wakes one sleeper, whichever the system  *)
(* picks, and is lost when there is none.                                  *)

Asleep(c, ops) ==
    {t \in Threads : pc[t] = "asleep" /\ call[t].c = c /\ call[t].op \in ops}

SendSleepers(c) == Asleep(c, {"send", "await"})
RecvSleepers(c) == Asleep(c, {"recv"})

Signal(S) == IF S = {} THEN {{}} ELSE {{t} : t \in S}

(* Thread t goes on at "to", and the sleepers in W are woken.              *)
Go(t, to, W) ==
    pc' = [u \in Threads |-> IF u = t THEN to
                             ELSE IF u \in W THEN "wake" ELSE pc[u]]

chan_wake_select(c) ==
    woken' = [t \in Threads |-> woken[t] \/ \E n \in selq[c] : n[1] = t]

(* The mutex of the current call's channel is t's: it is free and taken    *)
(* now, or cond_wait gave it back and no stop request is pending.          *)
Owns(t) ==
    /\ call[t] # None
    /\ \/ pc[t] = "enter" /\ mtx[call[t].c] = None
       \/ pc[t] = "disarm" /\ ~stw

Unlock(t) == mtx' = [mtx EXCEPT ![call[t].c] = None]

InSelect(t) == req[t].op = "select"

AfterCall(t) == IF InSelect(t) THEN "next" ELSE "return"

Decide(t, r) == ret' = [ret EXCEPT ![t] = r] /\ UNCHANGED todo

(* A primitive that had no effect ends the call, or only one case of it.   *)
NoEffect(t, r) ==
    IF InSelect(t)
    THEN todo' = [todo EXCEPT ![t] = @ \ {call[t]}] /\ UNCHANGED ret
    ELSE Decide(t, r)

-----------------------------------------------------------------------------
(* Calls.  A send puts its payload in the root table before it takes the   *)
(* mutex.                                                                  *)

Touches(r) == IF r.op = "select" THEN {k.c : k \in r.cases} ELSE {r.c}

Invoke(t, r) ==
    /\ pc[t] = "idle"
    /\ Touches(r) \intersect freed = {}
    /\ req' = [req EXCEPT ![t] = r]
    /\ IF r.op = "select"
       THEN /\ todo' = [todo EXCEPT ![t] = r.cases]
            /\ pc' = [pc EXCEPT ![t] = "next"]
            /\ UNCHANGED <<call, roots>>
       ELSE /\ call' = [call EXCEPT ![t] = r]
            /\ pc' = [pc EXCEPT ![t] = "enter"]
            /\ IF r.op \in SendOps THEN chan_root(r.v) ELSE UNCHANGED roots
            /\ UNCHANGED todo
    /\ UNCHANGED <<ring, closed, freed, mtx, selq, woken, ret, enrolled, stw>>

Return(t) ==
    /\ pc[t] = "return"
    /\ pc' = [pc EXCEPT ![t] = "idle"]
    /\ req' = [req EXCEPT ![t] = None]
    /\ call' = [call EXCEPT ![t] = None]
    /\ ret' = [ret EXCEPT ![t] = None]
    /\ UNCHANGED <<ring, closed, freed, mtx, selq, woken, roots, selVars, stw>>

(* The closing chan_unroot of a refused send and of a successful receive.  *)
Unroot(t) ==
    /\ pc[t] = "unroot"
    /\ chan_unroot(IF call[t].op \in SendOps THEN call[t].v ELSE ret[t])
    /\ pc' = [pc EXCEPT ![t] = AfterCall(t)]
    /\ UNCHANGED <<ring, closed, freed, mtx, selq, woken, req, call, ret, selVars, stw>>

-----------------------------------------------------------------------------
(* hao_chan_send and hao_chan_try_send.                                    *)

SendRefused(t) ==
    /\ Owns(t)
    /\ call[t].op \in SendOps
    /\ \/ call[t].c \in closed
       \/ call[t].op = "trySend" /\ Full(call[t].c)
    /\ NoEffect(t, "fail")
    /\ Go(t, "unroot", {})
    /\ Unlock(t)
    /\ UNCHANGED <<ring, closed, freed, selq, woken, roots, req, call, enrolled, stw>>

(* The wait for room; a rendezvous sender waits for the slot the same way. *)
SendWaits(t) ==
    /\ Owns(t)
    /\ call[t].op = "send"
    /\ call[t].c \notin closed /\ Full(call[t].c)
    /\ Go(t, "asleep", {})
    /\ Unlock(t)
    /\ UNCHANGED <<ring, closed, freed, selq, woken, roots, req, call, ret, selVars, stw>>

(* Mutant: a receiver is woken only when the queue was empty. *)
SendPutWakesFirst(t) ==
    LET c == call[t].c IN
    /\ Owns(t)
    /\ call[t].op \in SendOps
    /\ c \notin closed /\ ~Full(c)
    /\ chan_push_buf(c, call[t].v)
    /\ \E W \in IF Empty(c) THEN Signal(RecvSleepers(c)) ELSE {{}} : Go(t, AfterCall(t), W)
    /\ Decide(t, "ok")
    /\ chan_wake_select(c)
    /\ Unlock(t)
    /\ UNCHANGED <<closed, freed, selq, roots, req, call, enrolled, stw>>

SendPut(t) ==
    LET c == call[t].c IN
    /\ Owns(t)
    /\ call[t].op \in SendOps
    /\ c \notin closed /\ ~Full(c)
    /\ chan_push_buf(c, call[t].v)
    /\ \E W \in Signal(RecvSleepers(c)) :
          IF Cap[c] = 0 /\ call[t].op = "send"
          THEN /\ Go(t, "asleep", W)
               /\ call' = [call EXCEPT ![t].op = "await"]
               /\ UNCHANGED <<ret, todo>>
          ELSE /\ Go(t, AfterCall(t), W)
               /\ Decide(t, "ok")
               /\ UNCHANGED call
    /\ chan_wake_select(c)
    /\ Unlock(t)
    /\ UNCHANGED <<closed, freed, selq, roots, req, enrolled, stw>>

(* A rendezvous sender whose value is in the slot waits until the slot is  *)
(* empty or the channel closed, and then reports success.                  *)
AwaitWaits(t) ==
    /\ Owns(t)
    /\ call[t].op = "await"
    /\ call[t].c \notin closed /\ Full(call[t].c)
    /\ Go(t, "asleep", {})
    /\ Unlock(t)
    /\ UNCHANGED <<ring, closed, freed, selq, woken, roots, req, call, ret, selVars, stw>>

(* Mutant: the rendezvous sender tests the slot once instead of in a loop. *)
AwaitEndsOnWake(t) ==
    /\ Owns(t)
    /\ call[t].op = "await"
    /\ Decide(t, "ok")
    /\ Go(t, "return", {})
    /\ Unlock(t)
    /\ UNCHANGED <<ring, closed, freed, selq, woken, roots, req, call, enrolled, stw>>

AwaitEnds(t) ==
    /\ Owns(t)
    /\ call[t].op = "await"
    /\ call[t].c \in closed \/ ~Full(call[t].c)
    /\ Decide(t, "ok")
    /\ Go(t, "return", {})
    /\ Unlock(t)
    /\ UNCHANGED <<ring, closed, freed, selq, woken, roots, req, call, enrolled, stw>>

-----------------------------------------------------------------------------
(* hao_chan_recv, hao_chan_try_recv and sel_try_recv.  A closed channel    *)
(* still hands out what it holds.                                          *)

RecvTake(t) ==
    LET c == call[t].c IN
    /\ Owns(t)
    /\ call[t].op \in RecvOps
    /\ ~Empty(c)
    /\ Decide(t, buf[c][head[c]])
    /\ chan_pop_buf(c)
    /\ \E W \in Signal(SendSleepers(c)) : Go(t, "unroot", W)
    /\ chan_wake_select(c)
    /\ Unlock(t)
    /\ UNCHANGED <<closed, freed, selq, roots, req, call, enrolled, stw>>

(* Nothing to take: recv sleeps, the others report it; once the channel is *)
(* closed recv and a select case return the zero value.                    *)
RecvWaits(t) ==
    LET c == call[t].c IN
    /\ Owns(t)
    /\ call[t].op = "recv"
    /\ Empty(c) /\ c \notin closed
    /\ Go(t, "asleep", {})
    /\ Unlock(t)
    /\ UNCHANGED <<ring, closed, freed, selq, woken, roots, req, call, ret, selVars, stw>>

(* Mutant: recv looks at closed before it looks at the queue.             *)
RecvNothingIfClosed(t) ==
    LET c == call[t].c IN
    /\ Owns(t)
    /\ call[t].op \in RecvOps
    /\ \/ c \in closed /\ call[t].op # "tryRecv" /\ Decide(t, "zero")
       \/ Empty(c) /\ c \in closed /\ call[t].op = "tryRecv" /\ NoEffect(t, "fail")
       \/ Empty(c) /\ c \notin closed /\ call[t].op # "recv" /\ NoEffect(t, "fail")
    /\ Go(t, AfterCall(t), {})
    /\ Unlock(t)
    /\ UNCHANGED <<ring, closed, freed, selq, woken, roots, req, call, enrolled, stw>>

RecvNothing(t) ==
    LET c == call[t].c IN
    /\ Owns(t)
    /\ call[t].op \in RecvOps
    /\ Empty(c)
    /\ \/ c \in closed /\ call[t].op # "tryRecv" /\ Decide(t, "zero")
       \/ c \in closed /\ call[t].op = "tryRecv" /\ NoEffect(t, "fail")
       \/ c \notin closed /\ call[t].op # "recv" /\ NoEffect(t, "fail")
    /\ Go(t, AfterCall(t), {})
    /\ Unlock(t)
    /\ UNCHANGED <<ring, closed, freed, selq, woken, roots, req, call, enrolled, stw>>

(* Mutant: close wakes the receivers only. *)
CloseWakesReceivers(t) ==
    LET c == call[t].c IN
    /\ Owns(t)
    /\ call[t].op = "close"
    /\ closed' = closed \union {c}
    /\ Decide(t, "ok")
    /\ Go(t, "return", RecvSleepers(c))
    /\ chan_wake_select(c)
    /\ Unlock(t)
    /\ UNCHANGED <<ring, freed, selq, roots, req, call, enrolled, stw>>

hao_chan_close(t) ==
    LET c == call[t].c IN
    /\ Owns(t)
    /\ call[t].op = "close"
    /\ closed' = closed \union {c}
    /\ Decide(t, "ok")
    /\ IF c \in closed
       THEN Go(t, "return", {}) /\ UNCHANGED woken
       ELSE Go(t, "return", SendSleepers(c) \union RecvSleepers(c)) /\ chan_wake_select(c)
    /\ Unlock(t)
    /\ UNCHANGED <<ring, freed, selq, roots, req, call, enrolled, stw>>

-----------------------------------------------------------------------------
(* cond_wait: a sleeper is signalled above or wakes for no reason, then    *)
(* takes the mutex back; hao_gc_os_block_disarm comes next, in Owns.       *)

SpuriousWake(t) ==
    /\ pc[t] = "asleep"
    /\ pc' = [pc EXCEPT ![t] = "wake"]
    /\ UNCHANGED <<ring, closed, freed, mtx, selq, woken, roots, req, call, ret, selVars, stw>>

Reacquire(t) ==
    /\ pc[t] = "wake"
    /\ mtx[call[t].c] = None
    /\ mtx' = [mtx EXCEPT ![call[t].c] = t]
    /\ pc' = [pc EXCEPT ![t] = "disarm"]
    /\ UNCHANGED <<ring, closed, freed, selq, woken, roots, req, call, ret, selVars, stw>>

(* The collector asks for a stop and, later, releases it.                  *)
StwRequest ==
    /\ Collects
    /\ ~stw
    /\ stw' = TRUE
    /\ UNCHANGED <<ring, closed, freed, mtx, selq, woken, roots, pc, req, call, ret, selVars>>

StwRelease ==
    /\ stw
    /\ stw' = FALSE
    /\ UNCHANGED <<ring, closed, freed, mtx, selq, woken, roots, pc, req, call, ret, selVars>>

-----------------------------------------------------------------------------
(* hao_chan_select.  A pass visits the cases in an order that depends on a *)
(* per-thread rotation; here, in any order.                                *)

SelTryOne(t) ==
    /\ pc[t] = "next"
    /\ ret[t] = None
    /\ \E k \in todo[t] :
          /\ call' = [call EXCEPT ![t] = k]
          /\ IF k.op = "trySend" THEN chan_root(k.v) ELSE UNCHANGED roots
    /\ pc' = [pc EXCEPT ![t] = "enter"]
    /\ UNCHANGED <<ring, closed, freed, mtx, selq, woken, req, ret, selVars, stw>>

(* The first pass ends: with a case, with the default, or by enrolling     *)
(* with a fresh waiter.                                                    *)
SelFirstPassEnds(t) ==
    /\ pc[t] = "next"
    /\ ~enrolled[t]
    /\ \/ /\ ret[t] # None
          /\ pc' = [pc EXCEPT ![t] = "return"]
          /\ todo' = [todo EXCEPT ![t] = {}]
          /\ UNCHANGED <<ret, woken>>
       \/ /\ ret[t] = None /\ todo[t] = {} /\ req[t].default
          /\ ret' = [ret EXCEPT ![t] = "default"]
          /\ pc' = [pc EXCEPT ![t] = "return"]
          /\ UNCHANGED <<todo, woken>>
       \/ /\ ret[t] = None /\ todo[t] = {} /\ ~req[t].default
          /\ woken' = [woken EXCEPT ![t] = FALSE]
          /\ todo' = [todo EXCEPT ![t] = req[t].cases]
          /\ pc' = [pc EXCEPT ![t] = "enrol"]
          /\ UNCHANGED ret
    /\ UNCHANGED <<ring, closed, freed, mtx, selq, roots, req, call, enrolled, stw>>

sel_enroll(t) ==
    /\ pc[t] = "enrol"
    /\ \E k \in todo[t] :
          /\ mtx[k.c] = None
          /\ selq' = [selq EXCEPT ![k.c] = @ \union {<<t, k>>}]
          /\ IF todo[t] = {k}
             THEN /\ pc' = [pc EXCEPT ![t] = "next"]
                  /\ todo' = [todo EXCEPT ![t] = req[t].cases]
                  /\ enrolled' = [enrolled EXCEPT ![t] = TRUE]
             ELSE /\ todo' = [todo EXCEPT ![t] = @ \ {k}]
                  /\ UNCHANGED <<pc, enrolled>>
    /\ UNCHANGED <<ring, closed, freed, mtx, woken, roots, req, call, ret, stw>>

(* Mutant: a select that found a case in its second pass leaves its nodes behind. *)
SelSecondPassReturns(t) ==
    /\ pc[t] = "next"
    /\ enrolled[t]
    /\ ret[t] # None \/ todo[t] = {}
    /\ pc' = [pc EXCEPT ![t] = IF ret[t] # None THEN "return"
                               ELSE IF woken[t] THEN "leave" ELSE "parked"]
    /\ todo' = [todo EXCEPT ![t] = req[t].cases]
    /\ UNCHANGED <<ring, closed, freed, mtx, selq, woken, roots, req, call, ret, enrolled, stw>>

(* The second pass, made once enrolled, ends: with a case, or with a wake  *)
(* that came in meanwhile, or by parking.                                  *)
SelSecondPassEnds(t) ==
    /\ pc[t] = "next"
    /\ enrolled[t]
    /\ ret[t] # None \/ todo[t] = {}
    /\ pc' = [pc EXCEPT ![t] = IF ret[t] = None /\ ~woken[t] THEN "parked" ELSE "leave"]
    /\ todo' = [todo EXCEPT ![t] = req[t].cases]
    /\ UNCHANGED <<ring, closed, freed, mtx, selq, woken, roots, req, call, ret, enrolled, stw>>

(* sel_park returns.                                                       *)
SelUnpark(t) ==
    /\ pc[t] = "parked"
    /\ woken[t]
    /\ ~stw
    /\ woken' = [woken EXCEPT ![t] = FALSE]
    /\ pc' = [pc EXCEPT ![t] = "leave"]
    /\ UNCHANGED <<ring, closed, freed, mtx, selq, roots, req, call, ret, selVars, stw>>

sel_unenroll(t) ==
    /\ pc[t] = "leave"
    /\ \E k \in todo[t] :
          /\ mtx[k.c] = None
          /\ selq' = [selq EXCEPT ![k.c] = @ \ {<<t, k>>}]
          /\ IF todo[t] # {k}
             THEN /\ todo' = [todo EXCEPT ![t] = @ \ {k}]
                  /\ UNCHANGED <<pc, enrolled>>
             ELSE /\ enrolled' = [enrolled EXCEPT ![t] = FALSE]
                  /\ pc' = [pc EXCEPT ![t] = IF ret[t] = None THEN "next" ELSE "return"]
                  /\ todo' = [todo EXCEPT ![t] = IF ret[t] = None THEN req[t].cases ELSE {}]
    /\ UNCHANGED <<ring, closed, freed, mtx, woken, roots, req, call, ret, stw>>

-----------------------------------------------------------------------------
(* Mutant: the dropped channel forgets its unread payloads. *)
DropForgetsPayloads(c) ==
    /\ Collects
    /\ c \notin freed
    /\ \A t \in Threads : req[t] # None => c \notin Touches(req[t])
    /\ closed' = closed \union {c}
    /\ freed' = freed \union {c}
    /\ len' = [len EXCEPT ![c] = 0]
    /\ UNCHANGED <<buf, head, mtx, selq, woken, roots, pc, req, call, ret, selVars, stw>>

(* chan_free_native, run by the finalizer of the channel's handle: the     *)
(* collector found the handle unreachable, so no call on it is under way   *)
(* and none will be made.  Payloads nobody received lose their roots.      *)
Drop(c) ==
    /\ Collects
    /\ c \notin freed
    /\ \A t \in Threads : req[t] # None => c \notin Touches(req[t])
    /\ closed' = closed \union {c}
    /\ freed' = freed \union {c}
    /\ roots' = [v \in Values |-> chan_unroots(v, Cardinality(Holding(c, v)))]
    /\ len' = [len EXCEPT ![c] = 0]
    /\ head' = [head EXCEPT ![c] = (@ + len[c]) % Size(c)]
    /\ UNCHANGED <<buf, mtx, selq, woken, pc, req, call, ret, selVars, stw>>

-----------------------------------------------------------------------------
(* What a thread does inside a call once it has made it.                   *)
Step(t) ==
    \/ Return(t) \/ Unroot(t)
    \/ SendRefused(t) \/ SendWaits(t) \/ SendPut(t) \/ AwaitWaits(t) \/ AwaitEnds(t)
    \/ RecvTake(t) \/ RecvWaits(t) \/ RecvNothing(t) \/ hao_chan_close(t)
    \/ Reacquire(t)
    \/ SelTryOne(t) \/ SelFirstPassEnds(t) \/ sel_enroll(t) \/ SelSecondPassEnds(t)
    \/ SelUnpark(t) \/ sel_unenroll(t)

Next ==
    \/ \E t \in Threads : Step(t) \/ SpuriousWake(t)
    \/ \E t \in Threads : \E r \in Requests[t] : Invoke(t, r)
    \/ StwRequest \/ StwRelease
    \/ \E c \in Chans : Drop(c)

Spec == Init /\ [][Next]_vars

(* The scheduler runs every thread that can run, and the collector ends    *)
(* every stop it began.  A thread that waits in disarm polls the release   *)
(* flag with brief yields, far shorter than the marking between two stops, *)
(* so it does see one of the releases.  Nobody has to make a call or to    *)
(* wake for no reason.                                                     *)
Fairness ==
    /\ \A t \in Threads : WF_vars(Step(t)) /\ SF_vars(pc[t] = "disarm" /\ Step(t))
    /\ WF_vars(StwRelease)

FairSpec == Spec /\ Fairness

-----------------------------------------------------------------------------
(* Properties.                                                             *)

(* The places of the queues that hold v.                                   *)
Places(v) == UNION {{<<c, i>> : i \in Holding(c, v)} : c \in Chans}
Queued(v) == Cardinality(Places(v))

(* The channels are first-in first-out queues: see Mailbox.                *)
Promise == INSTANCE Mailbox WITH
    queue <- [c \in Chans |-> Contents(c)],
    offered <- {t \in Threads : call[t] # None /\ call[t].op = "await" /\ ret[t] = None},
    Unbuffered <- {c \in Chans : Cap[c] = 0}
KeepsPromise == Promise!Spec

(* Calls that hold a root of v which is not yet, or no longer, a queued    *)
(* payload's.                                                              *)
InFlight(v) ==
    {t \in Threads :
        \/ /\ pc[t] \in {"enter", "asleep", "wake", "disarm"}
           /\ call[t].op \in SendOps /\ call[t].v = v
        \/ /\ pc[t] = "unroot"
           /\ v = IF call[t].op \in SendOps THEN call[t].v ELSE ret[t]}

(* Every payload in a channel is in the root table as often as it is       *)
(* queued, and the calls under way hold one root each: a queued object is  *)
(* never collected, and none is kept alive after it was received, refused  *)
(* or dropped with its channel.                                            *)
RootBalance == \A v \in Values : roots[v] = Queued(v) + Cardinality(InFlight(v))

(* A case a select could take now.                                         *)
Ready(k) ==
    \/ k.op = "selRecv" /\ (~Empty(k.c) \/ k.c \in closed)
    \/ k.op = "trySend" /\ ~Full(k.c) /\ k.c \notin closed

(* What a blocked thread is waiting for has happened.                      *)
Served(t) ==
    \/ /\ pc[t] = "asleep"
       /\ LET c == call[t].c IN
          \/ c \in closed
          \/ call[t].op = "recv" /\ ~Empty(c)
          \/ call[t].op \in {"send", "await"} /\ ~Full(c)
    \/ pc[t] = "parked" /\ \E k \in req[t].cases : Ready(k)

(* No wake-up is lost: when every thread is outside a call, asleep or      *)
(* parked with its flag unset, none of them is blocked on what has         *)
(* happened already.  (Signals go to one sleeper, tries and selects take   *)
(* what another was woken for, and select looks before it enrols.)         *)
NoLostWakeup ==
    (\A t \in Threads : \/ pc[t] \in {"idle", "asleep"}
                        \/ pc[t] = "parked" /\ ~woken[t])
        => \A t \in Threads : ~Served(t)

(* A node on a channel's select list belongs to a select that is still     *)
(* running: the node and the waiter it points to are on that call's frame, *)
(* and sel_signal writes to them.                                          *)
NoDanglingWaiter ==
    \A c \in Chans : \A n \in selq[c] :
        /\ req[n[1]] # None /\ n[2] \in req[n[1]].cases
        /\ pc[n[1]] # "return"

(* A rendezvous send reports success only when its value was taken: the    *)
(* slot no longer holds it.                                                *)
RendezvousTaken ==
    [][\A t \in Threads :
          (call[t] # None /\ call[t].op = "await" /\ ret[t] = None /\ ret'[t] = "ok")
             => ~\E i \in 1 .. len[call[t].c] : Contents(call[t].c)[i] = call[t].v]_vars

(* A thread that waits for a stop request to be released never holds a     *)
(* channel mutex that a running thread is waiting for: that thread could   *)
(* not park, and the world would never stop.                               *)
NoStopWhileLocked ==
    \A t, u \in Threads :
        ~(stw /\ pc[t] = "disarm" /\ pc[u] = "enter" /\ mtx[call[u].c] = t)

(* Once a channel is closed every call on it ends.                         *)
CloseReleases ==
    \A t \in Threads : \A c \in Chans :
        (c \in closed /\ req[t] # None /\ c \in Touches(req[t]) /\ ~InSelect(t)) ~> (req[t] = None)

(* A select whose channels are all closed ends.                            *)
SelectReleased ==
    \A t \in Threads :
        (req[t] # None /\ InSelect(t) /\ Touches(req[t]) \subseteq closed) ~> (req[t] = None)
=============================================================================
