------------------------------ MODULE MCThreads ------------------------------
(***************************************************************************)
(* Model checking of the three parts whose threads share memory without    *)
(* blocks of rows: the counters of the block manager, the thread pool and  *)
(* the signal handler.  They share nothing with each other, so a behaviour *)
(* is one of one part.                                                     *)
(***************************************************************************)
EXTENDS BlockManagerThreads, ThreadPool, SignalHandler

VARIABLE part   (* the part that the behaviour shows                        *)

others == <<vars, poolVars, signalVars>>

MCInit ==
  /\ part \in {"manager", "pool", "signals"}
  /\ Init /\ PoolInit /\ SignalInit

Manager == part = "manager" /\ SerialNext /\ UNCHANGED <<poolVars, signalVars>>
Pool == part = "pool" /\ PoolNext /\ UNCHANGED <<vars, signalVars>>
Signal == part = "signals" /\ SignalNext /\ UNCHANGED <<vars, poolVars>>

MCNext == (Manager \/ Pool \/ Signal) /\ UNCHANGED part

(* A thread of the pool that can go on does, and whoever is in a call; the *)
(* thread of the signal handler does, and its destructor.                  *)
PoolRuns(step) ==
  part = "pool" /\ poolFault = "none" /\ step /\ UNCHANGED <<vars, signalVars, part>>
SignalRuns(step) ==
  part = "signals" /\ ~ handlerFault /\ step /\ UNCHANGED <<vars, poolVars, part>>

MCSpec ==
  /\ MCInit /\ [][MCNext]_<<others, part>>
  /\ \A t \in Workers : WF_poolVars(PoolRuns(Worker(t) \/ Call(t)))
  /\ WF_poolVars(PoolRuns(\E c \in Callers : Call(c)))
  /\ WF_signalVars(SignalRuns(Listener)) /\ WF_signalVars(SignalRuns(Shutdown))

(* The calls of the pool and the signals that are sent come to an end.     *)
ThreadsEnd == PoolWorks /\ SignalsHandled
=============================================================================
