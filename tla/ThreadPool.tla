----------------------------- MODULE ThreadPool -----------------------------
(***************************************************************************)
(* The thread pool (base/thread_pool.cpp): callers start it, stop it, give *)
(* it tasks and destroy it, and its threads run the tasks.  A task may     *)
(* call the pool itself.                                                   *)
(*                                                                         *)
(* Everything between two accesses that another thread can see is one      *)
(* action.  _quit is atomic and read without the mutex; stop() notifies    *)
(* without it.  The vector of threads is not protected at all.             *)
(***************************************************************************)
EXTENDS Naturals, Sequences, FiniteSets

CONSTANTS
  Callers,      (* the threads that use the pool                            *)
  PoolSize,     (* _numberOfThreads                                         *)
  MaxTasks,     (* bound: the tasks that callers enqueue                    *)
  MaxStarts     (* bound: the calls of start() that are not refused         *)

ASSUME PoolAssumption ==
  /\ PoolSize \in Nat \ {0} /\ MaxTasks \in Nat /\ MaxStarts \in Nat
  /\ Callers \cap Nat = {}

(* A thread of the pool is its place in _serviceThreads.                   *)
Workers == 1 .. PoolSize * MaxStarts
Procs == Callers \cup Workers

(* What a task does: nothing that matters here, stop the pool, give it a   *)
(* further task, or throw.                                                 *)
Kinds == {"plain", "stop", "enqueue", "throw"}

VARIABLES
  quit,         (* _quit                                                    *)
  taskQueue,    (* _taskQueue: for each task its number and its kind        *)
  spawned,      (* the size of _serviceThreads                              *)
  joined,       (* the threads that are not joinable() any more             *)
  at,           (* where everyone is in its call, or in run()               *)
  next,         (* the loops of start() and stop(): who comes next          *)
  task,         (* what each thread of the pool runs                        *)
  accepted,     (* history: the number of tasks that were enqueued          *)
  started,      (* history: the tasks that were begun, in this order        *)
  starts,       (* history: the calls of start()                            *)
  overlapped,   (* history: a start() met a stop(), or a stop() a start()   *)
  closing,      (* the destructor has begun                                 *)
  poolFault     (* "terminate": std::terminate(), "race": undefined         *)

poolVars == <<quit, taskQueue, spawned, joined, at, next, task, accepted, started,
              starts, overlapped, closing, poolFault>>

NoTask == [id |-> 0, kind |-> "plain"]

PoolInit ==
  /\ quit = TRUE
  /\ taskQueue = <<>> /\ accepted = 0 /\ started = <<>>
  /\ spawned = 0 /\ joined = {} /\ starts = 0
  /\ at = [p \in Procs |-> IF p \in Callers THEN "idle" ELSE "none"]
  /\ next = [p \in Procs |-> 0]
  /\ task = [t \in Workers |-> NoTask]
  /\ overlapped = FALSE /\ closing = FALSE /\ poolFault = "none"

-----------------------------------------------------------------------------
Move(p, there) == at' = [at EXCEPT ![p] = there]
(* Where a call of the pool returns to.                                    *)
Return(p) ==
  Move(p, CASE p \in Workers -> "check"
            [] p \in Callers /\ closing -> "free"
            [] p \in Callers /\ ~ closing -> "idle")
(* A caller that may begin a call, or a task that does.                    *)
MayCall(p, kind) ==
  \/ p \in Callers /\ at[p] = "idle" /\ ~ closing
  \/ p \in Workers /\ at[p] = "run" /\ task[p].kind = kind

(* Who is in start() or in the part of stop() that was not stopped before. *)
Busy == {p \in Procs : at[p] \in {"spawn", "notify", "join"}}
(* Who goes through the vector of threads.                                 *)
Crowd == {p \in Procs : at[p] \in {"spawn", "join"}}
Alone(p) == Crowd \subseteq {p}

(* The mutex is held from a look at the queue until wait_for() sleeps.     *)
Locked == \E t \in Workers : at[t] = "doze"

(* A worker is woken by the next task or by stop().                        *)
Asleep == {t \in Workers : at[t] = "asleep"}

-----------------------------------------------------------------------------
(* start()                                                                 *)
BeginStart(c) ==
  /\ MayCall(c, "start") /\ quit /\ starts < MaxStarts
  /\ quit' = FALSE
  /\ starts' = starts + 1
  /\ overlapped' = (overlapped \/ Busy # {})
  /\ Move(c, "spawn")
  /\ next' = [next EXCEPT ![c] = 0]
  /\ UNCHANGED <<taskQueue, spawned, joined, task, accepted, started, closing, poolFault>>

(* The vector has room for the threads of MaxStarts calls.                 *)
Spawn(c) ==
  /\ at[c] = "spawn" /\ Alone(c) /\ next[c] < PoolSize /\ spawned + 1 \in Workers
  /\ spawned' = spawned + 1
  /\ next' = [next EXCEPT ![c] = @ + 1]
  /\ at' = [at EXCEPT ![spawned + 1] = "check",
                      ![c] = IF next[c] + 1 = PoolSize THEN "idle" ELSE @]
  /\ UNCHANGED <<quit, taskQueue, joined, task, accepted, started, starts, overlapped,
                 closing, poolFault>>

-----------------------------------------------------------------------------
(* stop() of a caller, of a task, or of the destructor.                    *)
StopRunning(p) ==
  /\ ~ quit
  /\ quit' = TRUE
  /\ overlapped' = (overlapped \/ Busy # {})
  /\ Move(p, "notify")
  /\ next' = [next EXCEPT ![p] = 1]

BeginStop(p) ==
  /\ MayCall(p, "stop")
  /\ StopRunning(p)
  /\ UNCHANGED <<taskQueue, spawned, joined, task, accepted, started, starts, closing,
                 poolFault>>

(* The pool is being stopped already: the call does not wait.              *)
StopAtOnce(t) ==
  /\ t \in Workers /\ MayCall(t, "stop") /\ quit
  /\ Return(t)
  /\ UNCHANGED <<quit, taskQueue, spawned, joined, next, task, accepted, started, starts,
                 overlapped, closing, poolFault>>

Notify(p) ==
  /\ at[p] = "notify"
  /\ at' = [q \in Procs |-> IF q = p THEN "join" ELSE IF q \in Asleep THEN "check" ELSE at[q]]
  /\ UNCHANGED <<quit, taskQueue, spawned, joined, next, task, accepted, started, starts,
                 overlapped, closing, poolFault>>

Join(p) ==
  /\ at[p] = "join" /\ Alone(p) /\ next[p] <= spawned
  /\ next[p] \in joined \/ at[next[p]] = "ended"
  /\ joined' = joined \cup {next[p]}
  /\ next' = [next EXCEPT ![p] = @ + 1]
  /\ UNCHANGED <<quit, taskQueue, spawned, at, task, accepted, started, starts, overlapped,
                 closing, poolFault>>

(* What could go wrong, for the runs that test the properties: the thread  *)
(* that begun last is not waited for.                                      *)
EndStopEarly(p) ==
  /\ at[p] = "join" /\ Alone(p) /\ next[p] >= spawned
  /\ Return(p)
  /\ UNCHANGED <<quit, taskQueue, spawned, joined, next, task, accepted, started, starts,
                 overlapped, closing, poolFault>>

EndStop(p) ==
  /\ at[p] = "join" /\ Alone(p) /\ next[p] > spawned
  /\ Return(p)
  /\ UNCHANGED <<quit, taskQueue, spawned, joined, next, task, accepted, started, starts,
                 overlapped, closing, poolFault>>

Fails(how) ==
  /\ poolFault' = how
  /\ UNCHANGED <<quit, taskQueue, spawned, joined, at, next, task, accepted, started, starts,
                 overlapped, closing>>

(* join() of a thread by itself throws, out of the function of the thread. *)
JoinItself(t) == t \in Workers /\ at[t] = "join" /\ next[t] = t /\ Fails("terminate")

(* Two go through the vector, and one of them changes it.                  *)
Race == (\E p \in Crowd : ~ Alone(p)) /\ Fails("race")

-----------------------------------------------------------------------------
(* enqueueTask(): _quit is looked at before the mutex is taken.            *)
BeginEnqueue(p) ==
  /\ MayCall(p, "enqueue") /\ ~ quit
  /\ p \in Callers => accepted + Cardinality({q \in Procs : at[q] = "push"}) < MaxTasks
  /\ Move(p, "push")
  /\ UNCHANGED <<quit, taskQueue, spawned, joined, next, task, accepted, started, starts,
                 overlapped, closing, poolFault>>

(* A task that a task gives to the pool is none that does so again, which  *)
(* bounds the tasks; notify_one() wakes one of the threads  *)
(* that sleep, if there are any.                                           *)
PushTask(p, kind) ==
  /\ at[p] = "push" /\ ~ Locked /\ (p \in Workers => kind # "enqueue")
  /\ taskQueue' = Append(taskQueue, [id |-> accepted + 1, kind |-> kind])
  /\ accepted' = accepted + 1
  /\ LET back == IF p \in Workers THEN "check" ELSE "idle"
     IN  IF Asleep = {} THEN Move(p, back)
         ELSE \E t \in Asleep : at' = [at EXCEPT ![p] = back, ![t] = "check"]
  /\ UNCHANGED <<quit, spawned, joined, next, task, started, starts, overlapped, closing,
                 poolFault>>

(* The exception of a stopped pool leaves the task and the thread.         *)
EnqueueThrows(t) ==
  t \in Workers /\ MayCall(t, "enqueue") /\ quit /\ Fails("terminate")

-----------------------------------------------------------------------------
(* ~ThreadPool(): stop(), which may not wait, then the members.            *)
BeginDestroy(c) ==
  /\ MayCall(c, "destroy") /\ \A d \in Callers : at[d] = "idle"
  /\ closing' = TRUE
  /\ \/ StopRunning(c)
     \/ quit /\ Move(c, "free") /\ UNCHANGED <<quit, overlapped, next>>
  /\ UNCHANGED <<taskQueue, spawned, joined, task, accepted, started, starts, poolFault>>

Free(c) ==
  /\ at[c] = "free" /\ joined = 1 .. spawned
  /\ Move(c, "gone")
  /\ UNCHANGED <<quit, taskQueue, spawned, joined, next, task, accepted, started, starts,
                 overlapped, closing, poolFault>>

(* A thread is destroyed that was not joined.                              *)
FreeRunning(c) == at[c] = "free" /\ joined # 1 .. spawned /\ Fails("terminate")

-----------------------------------------------------------------------------
(* run()                                                                   *)
Step(t, here, there) ==
  /\ at[t] = here
  /\ Move(t, there)
  /\ UNCHANGED <<quit, taskQueue, spawned, joined, next, task, accepted, started, starts,
                 overlapped, closing, poolFault>>

(* while(!_quit.load()), and wait_for(), which looks at _quit and at the   *)
(* queue: there is nothing between the two looks that makes a difference.  *)
Leave(t) == quit /\ Step(t, "check", "ended")

(* Nothing to do: the thread sleeps, which gives the mutex back, until it  *)
(* is notified, or for 150 ms.                                             *)
Doze(t) == ~ Locked /\ ~ quit /\ taskQueue = <<>> /\ Step(t, "check", "doze")
Sleep(t) == Step(t, "doze", "asleep")

(* What could go wrong, for the runs that test the properties: wait() in   *)
(* the place of wait_for().                                                *)
NoTimeOut(t) == FALSE /\ Step(t, "asleep", "check")

TimeOut(t) == Step(t, "asleep", "check")

Take(t) ==
  /\ at[t] = "check" /\ ~ Locked /\ ~ quit /\ taskQueue # <<>>
  /\ task' = [task EXCEPT ![t] = Head(taskQueue)]
  /\ taskQueue' = Tail(taskQueue)
  /\ started' = Append(started, Head(taskQueue))
  /\ Move(t, "run")
  /\ UNCHANGED <<quit, spawned, joined, next, accepted, starts, overlapped, closing, poolFault>>

FinishTask(t) == task[t].kind = "plain" /\ Step(t, "run", "check")
TaskThrows(t) == at[t] = "run" /\ task[t].kind = "throw" /\ Fails("terminate")

-----------------------------------------------------------------------------
Worker(t) ==
  \/ Leave(t) \/ Doze(t) \/ Sleep(t) \/ TimeOut(t) \/ Take(t)
  \/ FinishTask(t) \/ TaskThrows(t)
  \/ BeginStop(t) \/ StopAtOnce(t) \/ JoinItself(t)
  \/ BeginEnqueue(t) \/ EnqueueThrows(t)

(* The rest of a call that has begun.                                      *)
Call(p) ==
  \/ Spawn(p) \/ Notify(p) \/ Join(p) \/ EndStop(p)
  \/ (\E kind \in Kinds : PushTask(p, kind))
  \/ Free(p) \/ FreeRunning(p)

Caller(c) == BeginStart(c) \/ BeginStop(c) \/ BeginEnqueue(c) \/ BeginDestroy(c)

PoolNext ==
  /\ poolFault = "none"
  /\ \/ \E t \in Workers : Worker(t)
     \/ \E p \in Procs : Call(p)
     \/ \E c \in Callers : Caller(c)
     \/ Race

PoolSpec == PoolInit /\ [][PoolNext]_poolVars
-----------------------------------------------------------------------------
PoolTypeOK ==
  /\ quit \in BOOLEAN /\ overlapped \in BOOLEAN /\ closing \in BOOLEAN
  /\ accepted \in Nat /\ spawned \in 0 .. PoolSize * MaxStarts /\ starts \in 0 .. MaxStarts
  /\ joined \subseteq 1 .. spawned
  /\ taskQueue \in Seq([id : Nat, kind : Kinds]) /\ started \in Seq([id : Nat, kind : Kinds])
  /\ at \in [Procs -> {"idle", "spawn", "notify", "join", "push", "free", "gone", "none",
                       "check", "doze", "asleep", "run", "ended"}]
  /\ next \in [Procs -> Nat]
  /\ task \in [Workers -> [id : Nat, kind : Kinds]]
  /\ poolFault \in {"none", "terminate", "race"}

(* Every task that was accepted is begun once or still waits, and they are *)
(* begun in the order in which they were accepted, over any sequence of    *)
(* start() and stop().                                                     *)
Waiting == started \o taskQueue
TasksKept ==
  /\ Len(Waiting) = accepted
  /\ \A k \in 1 .. accepted : Waiting[k].id = k

(* "Will wait for thread termination" (thread_pool.h:84): when the pool is *)
(* stopped and no call that stops it is under way, no thread runs.  It     *)
(* holds as long as nobody starts the pool while it is being stopped.      *)
StopWaits ==
  quit /\ Busy = {} /\ ~ overlapped =>
    joined = 1 .. spawned /\ \A t \in joined : at[t] = "ended"

(* The program ends, or its memory is damaged, only if a start() met a     *)
(* stop() or a task throws, stops the pool that it runs in, or gives a     *)
(* task to a pool that is stopped meanwhile.                               *)
PoolFaultsExplained ==
  /\ poolFault = "race" => overlapped
  /\ poolFault = "terminate" =>
       overlapped \/ \E k \in DOMAIN started : started[k].kind # "plain"

(* No task is lost or run twice, stop() waits, and what goes wrong has one *)
(* of the known reasons.                                                   *)
PoolExplained == TasksKept /\ StopWaits /\ PoolFaultsExplained

(* Every stop() returns, although a thread may miss its notification, and  *)
(* every task is begun unless the pool is stopped, where no start() met a  *)
(* stop().                                                                 *)
Derailed == overlapped \/ poolFault # "none"
PoolWorks ==
  /\ Busy # {} ~> (Busy = {} \/ Derailed)
  /\ Len(started) < accepted ~> (Len(started) = accepted \/ quit \/ Derailed)
=============================================================================
