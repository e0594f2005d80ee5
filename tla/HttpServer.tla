----------------------------- MODULE HttpServer -----------------------------
(* The loops of net.HttpApp and net.HttpServer (src/stdlib/src/net): one   *)
(* thread that accepts and serves, several threads that do (serveParallel),*)
(* or a boss that accepts and gives connections to a pool                  *)
(* (serveBossWorkers).  A connection is kept alive until it asks to be     *)
(* closed, hangs up or is silent for five seconds; another thread may call *)
(* close() at any time.                                                    *)
EXTENDS Naturals, Sequences, FiniteSets

CONSTANTS
    Clients,
    Workers,        \* threads beside the one that serves, the main one
    Modes,          \* the calls looked at
    MAX_REQUESTS,   \* bound: requests of a client
    MAX_FAILURES,   \* bound: accepts that fail although the server is open, submits refused
    Known           \* the known gaps of the code to leave out, from Gaps

(* serve sets running, so a close() before it is lost and it goes round    *)
(* for ever; on POSIX a blocked accept does not see that its socket was    *)
(* closed; serveParallel returns while its threads go on; an exception of  *)
(* a handler ends the process, or leaves the connection open and the pool  *)
(* running; the descriptor 0 is taken for none.                            *)
Gaps == {"closed_before_served", "accept_outlives_close", "threads_left_running",
         "thrown_by_handler", "descriptor_0"}
Open(gap) == gap \notin Known

VARIABLES
    mode,       \* the call: "serve", "parallel", "boss" or "plain", HttpServer's
    wakes,      \* does closing a socket wake a blocked accept? (Windows does)
    free,       \* the lowest free descriptor: 0 when stdin is closed
    running,
    listener,   \* the handle: "new", "open", "closed"; "lost" when listen only said it is open
    closer,     \* close(): "not_called", "flag", "done"
    backlog,    \* connections not yet accepted
    client,     \* of each: its connection, requests sent, those not yet read, and whether one was the last
    pc,         \* of each thread
    at,         \* the connection it serves, or "none"
    tasks,      \* of the pool
    pool,       \* "none", "up", "empty" - its threads could not be made - "down"
    failures,
    dead        \* the process ended by an uncaught exception

vars == <<mode, wakes, free, running, listener, closer, backlog, client, pc, at, tasks, pool, failures, dead>>
world == <<mode, wakes, free>>

Threads == {"main"} \union Workers
Bosses == {"boss", "plain"}
Accepting(t) == t = "main" \/ mode = "parallel"

New == [state |-> "new", sent |-> 0, unread |-> 0, last |-> FALSE]

Init ==
    /\ mode \in Modes
    /\ wakes \in BOOLEAN /\ (Open("accept_outlives_close") \/ wakes)
    /\ free \in {0, 3} /\ (Open("descriptor_0") \/ free = 3)
    /\ running = FALSE
    /\ listener = "new"
    /\ closer = "not_called"
    /\ backlog = <<>>
    /\ client = [c \in Clients |-> New]
    /\ pc = [t \in Threads |-> "idle"]
    /\ at = [t \in Threads |-> "none"]
    /\ tasks = <<>>
    /\ pool = "none"
    /\ failures = 0
    /\ dead = FALSE

----------------------------------------------------------------------------
(* Clients.  While a thread is blocked in accept the socket it waits on is *)
(* there, closed or not.                                                   *)

Held == \E t \in Threads : pc[t] = "accept"
Listens == listener = "open" \/ (listener = "closed" /\ ~wakes /\ Held)

Connect(c) ==
    /\ client[c].state = "new" /\ Listens
    /\ client' = [client EXCEPT ![c].state = "connected"]
    /\ backlog' = Append(backlog, c)
    /\ UNCHANGED <<world, running, listener, closer, pc, at, tasks, pool, failures, dead>>

(* The last request of a client asks for the connection to be closed; one  *)
(* that hangs up is to the server like one that is silent.                 *)
Send(c, last) ==
    /\ client[c].state = "connected" /\ ~client[c].last
    /\ client[c].sent < MAX_REQUESTS
    /\ client' = [client EXCEPT ![c].sent = @ + 1, ![c].unread = @ + 1, ![c].last = last]
    /\ UNCHANGED <<world, running, listener, closer, backlog, pc, at, tasks, pool, failures, dead>>

----------------------------------------------------------------------------
(* listen attaches its descriptor to the handle; 0 is taken for none, the  *)
(* handle is closed, and listen still says TRUE.                           *)
Listen ==
    /\ listener = "new" /\ closer = "not_called"
    /\ listener' = IF free = 0 THEN "lost" ELSE "open"
    /\ UNCHANGED <<world, running, closer, backlog, client, pc, at, tasks, pool, failures, dead>>

(* close: first the flag, then the socket - HttpServer has no flag.        *)
CloseFlag ==
    /\ closer = "not_called" /\ listener # "new"
    /\ Open("closed_before_served") \/ pc["main"] # "idle"
    /\ closer' = "flag"
    /\ running' = IF mode = "plain" THEN running ELSE FALSE
    /\ UNCHANGED <<world, listener, backlog, client, pc, at, tasks, pool, failures, dead>>

(* What waits on a socket that nobody holds is reset.                      *)
Reset(held) ==
    IF held THEN UNCHANGED <<backlog, client>>
    ELSE /\ backlog' = <<>>
         /\ client' = [c \in Clients |-> IF \E k \in DOMAIN backlog : backlog[k] = c
                                         THEN [client[c] EXCEPT !.state = "reset"] ELSE client[c]]
CloseSocket ==
    /\ closer = "flag"
    /\ closer' = "done"
    /\ listener' = "closed"
    /\ Reset(~wakes /\ Held)
    /\ UNCHANGED <<world, running, pc, at, tasks, pool, failures, dead>>

----------------------------------------------------------------------------
(* Serving.  serveParallel starts its threads, serveBossWorkers its pool.  *)

Start ==
    /\ pc["main"] = "idle" /\ listener # "new"
    /\ running' = TRUE
    /\ pool' \in IF mode \in Bosses THEN {"up", "empty"} ELSE {"none"}
    /\ pc' = [t \in Threads |->
                 IF t = "main" \/ mode = "parallel" THEN "test" ELSE IF pool' = "up" THEN "wait" ELSE "idle"]
    /\ UNCHANGED <<world, listener, closer, backlog, client, at, tasks, failures, dead>>

Test(t) ==
    /\ pc[t] = "test"
    /\ pc' = [pc EXCEPT ![t] = CASE running -> "enter" [] ~running /\ t = "main" /\ mode \in Bosses -> "shutting"
                                 [] OTHER -> "returned"]
    /\ UNCHANGED <<world, running, listener, closer, backlog, client, at, tasks, pool, failures, dead>>

(* accept: no socket, or one closed since, is a failure at once.           *)
AcceptFailed(t) ==
    /\ pc' = [pc EXCEPT ![t] = IF mode = "plain" THEN "shutting" ELSE "test"]
    /\ running' = IF mode = "plain" THEN FALSE ELSE running
Enter(t) ==
    /\ pc[t] = "enter"
    /\ IF listener = "open" THEN pc' = [pc EXCEPT ![t] = "accept"] /\ UNCHANGED running ELSE AcceptFailed(t)
    /\ UNCHANGED <<world, listener, closer, backlog, client, at, tasks, pool, failures, dead>>

Fail(t) ==
    /\ pc[t] = "accept"
    /\ \/ listener = "closed" /\ wakes /\ UNCHANGED failures
       \/ listener = "open" /\ failures < MAX_FAILURES /\ failures' = failures + 1
    /\ AcceptFailed(t)
    /\ UNCHANGED <<world, listener, closer, backlog, client, at, tasks, pool, dead>>

(* The boss gives what it accepted to the pool, the others serve it.       *)
Accept(t) ==
    /\ pc[t] = "accept" /\ backlog # <<>>
    /\ pc' = [pc EXCEPT ![t] = IF mode \in Bosses THEN "submit" ELSE "read"]
    /\ at' = [at EXCEPT ![t] = Head(backlog)]
    /\ IF listener = "open" \/ \E u \in Threads \ {t} : pc[u] = "accept"
       THEN backlog' = Tail(backlog) /\ UNCHANGED client
       ELSE /\ backlog' = <<>>
            /\ client' = [c \in Clients |-> IF \E k \in 2..Len(backlog) : backlog[k] = c
                                            THEN [client[c] EXCEPT !.state = "reset"] ELSE client[c]]
    /\ UNCHANGED <<world, running, listener, closer, tasks, pool, failures, dead>>

Submit ==
    /\ pc["main"] = "submit"
    /\ \/ /\ pool = "up"
          /\ tasks' = Append(tasks, at["main"])
          /\ pc' = [pc EXCEPT !["main"] = "test"] /\ at' = [at EXCEPT !["main"] = "none"]
          /\ UNCHANGED failures
       \/ /\ IF pool = "empty" THEN UNCHANGED failures ELSE failures < MAX_FAILURES /\ failures' = failures + 1
          /\ pc' = [pc EXCEPT !["main"] = "read"]
          /\ UNCHANGED <<tasks, at>>
    /\ UNCHANGED <<world, running, listener, closer, backlog, client, pool, dead>>

(* A pool that is shut down still does the tasks it has.                   *)
TakeTask(t) ==
    /\ pc[t] = "wait" /\ tasks # <<>>
    /\ tasks' = Tail(tasks)
    /\ at' = [at EXCEPT ![t] = Head(tasks)]
    /\ pc' = [pc EXCEPT ![t] = "read"]
    /\ UNCHANGED <<world, running, listener, closer, backlog, client, pool, failures, dead>>
WorkerEnds(t) ==
    /\ pc[t] = "wait" /\ tasks = <<>> /\ pool = "down"
    /\ pc' = [pc EXCEPT ![t] = "returned"]
    /\ UNCHANGED <<world, running, listener, closer, backlog, client, at, tasks, pool, failures, dead>>

ShutDown ==
    /\ pc["main"] = "shutting"
    /\ pool' = IF pool = "up" THEN "down" ELSE pool
    /\ pc' = [pc EXCEPT !["main"] = "join"]
    /\ UNCHANGED <<world, running, listener, closer, backlog, client, at, tasks, failures, dead>>
Joined == \A t \in Workers : pc[t] \in {"idle", "returned"}
Join ==
    /\ pc["main"] = "join" /\ Joined
    /\ pc' = [pc EXCEPT !["main"] = "returned"]
    /\ UNCHANGED <<world, running, listener, closer, backlog, client, at, tasks, pool, failures, dead>>

----------------------------------------------------------------------------
(* serveChannel.                                                           *)

(* A message, or none: the client hung up, or the read timed out.          *)
Read(t) ==
    /\ pc[t] = "read"
    /\ IF client[at[t]].unread > 0
       THEN /\ client' = [client EXCEPT ![at[t]].unread = @ - 1]
            /\ pc' = [pc EXCEPT ![t] = "handle"]
       ELSE pc' = [pc EXCEPT ![t] = "close"] /\ UNCHANGED client
    /\ UNCHANGED <<world, running, listener, closer, backlog, at, tasks, pool, failures, dead>>

(* The answer; Connection: close in the request ends the connection, so    *)
(* does a pipeline that gives no response or the wish for short /api ones. *)
AsksToClose(t) == client[at[t]].last /\ client[at[t]].unread = 0
Handle(t) ==
    /\ pc[t] = "handle"
    /\ \E next \in IF AsksToClose(t) THEN {"close"} ELSE {"read", "close"} : pc' = [pc EXCEPT ![t] = next]
    /\ UNCHANGED <<world, running, listener, closer, backlog, client, at, tasks, pool, failures, dead>>

(* A handler throws: nobody catches it in a thread of its own; the caller  *)
(* of serve may.                                                           *)
Throw(t) ==
    /\ pc[t] = "handle" /\ Open("thrown_by_handler")
    /\ IF t = "main" THEN pc' = [pc EXCEPT ![t] = "returned"] /\ at' = [at EXCEPT ![t] = "none"] /\ UNCHANGED dead
       ELSE dead' = TRUE /\ UNCHANGED <<pc, at>>
    /\ UNCHANGED <<world, running, listener, closer, backlog, client, tasks, pool, failures>>

AfterServing(t) == IF Accepting(t) THEN "test" ELSE "wait"
Close(t) ==
    /\ pc[t] = "close"
    /\ client' = [client EXCEPT ![at[t]].state = "closed"]
    /\ at' = [at EXCEPT ![t] = "none"]
    /\ pc' = [pc EXCEPT ![t] = AfterServing(t)]
    /\ UNCHANGED <<world, running, listener, closer, backlog, tasks, pool, failures, dead>>

Work(t) ==
    \/ Test(t) \/ Enter(t) \/ Fail(t) \/ Accept(t) \/ TakeTask(t) \/ WorkerEnds(t)
    \/ Read(t) \/ Handle(t) \/ Throw(t) \/ Close(t)
Next ==
    /\ ~dead
    /\ \/ \E c \in Clients : Connect(c) \/ \E last \in BOOLEAN : Send(c, last)
       \/ Listen \/ CloseFlag \/ CloseSocket \/ Start \/ Submit \/ ShutDown \/ Join
       \/ \E t \in Threads : Work(t)

Spec == Init /\ [][Next]_vars

----------------------------------------------------------------------------
(* Properties.                                                             *)

TypeOK ==
    /\ mode \in Modes /\ wakes \in BOOLEAN /\ free \in {0, 3} /\ running \in BOOLEAN /\ dead \in BOOLEAN
    /\ listener \in {"new", "open", "closed", "lost"} /\ closer \in {"not_called", "flag", "done"}
    /\ pool \in {"none", "up", "empty", "down"} /\ failures \in 0..MAX_FAILURES
    /\ at \in [Threads -> Clients \union {"none"}]

(* An accepted connection is somebody's until it is closed: it waits in    *)
(* the backlog, is a task of the pool, or one thread serves it - whatever  *)
(* the pool refuses and whenever the server is closed.                     *)
Holders(c) ==
    Cardinality({k \in DOMAIN backlog : backlog[k] = c}) + Cardinality({k \in DOMAIN tasks : tasks[k] = c})
    + Cardinality({t \in Threads : at[t] = c})
OneHolder == \A c \in Clients : Holders(c) = IF client[c].state = "connected" THEN 1 ELSE 0

(* When the call that serves returns, everything it accepted is closed and *)
(* none of its threads is left; a boss waits for its pool.                 *)
NothingLeft ==
    pc["main"] = "returned" /\ (mode # "parallel" \/ Open("threads_left_running")) =>
        /\ tasks = <<>>
        /\ \A t \in Workers : pc[t] \in {"idle", "returned"}

(* close() ends the server: the loops see it, and no thread stays blocked  *)
(* in an accept that only another client would end.                        *)
CloseEnds ==
    closer = "done" =>
        /\ mode = "plain" \/ ~running
        /\ wakes \/ ~Held

(* A request that asks for the connection to be closed is the last one     *)
(* read, and a thread never goes back to read after it.                    *)
LastIsLast ==
    \A t \in Threads : pc[t] = "read" => ~(client[at[t]].last /\ client[at[t]].unread = 0)

(* A handler that throws costs the connection it serves and nothing else.  *)
ThrowIsLocal == ~dead

(* listen says TRUE of a server that listens.                              *)
ListensAsSaid == listener # "lost"

HttpServerSound ==
    /\ TypeOK /\ OneHolder /\ NothingLeft /\ CloseEnds /\ LastIsLast /\ ThrowIsLocal /\ ListensAsSaid
=============================================================================
