---------------------------- MODULE SignalHandler ----------------------------
(***************************************************************************)
(* The signal handler (base/signalhandler.h, base/detail/posix/            *)
(* signalhandler.cpp): a thread waits for the signals, which all other     *)
(* threads block, and calls the handlers that are registered for a signal. *)
(* A guard registers a handler and removes it again; when the last guard   *)
(* is gone the handler may be destroyed, as main() does.                   *)
(*                                                                         *)
(* The list of handlers is copied under the mutex and called without it.   *)
(***************************************************************************)
EXTENDS Naturals, Sequences, FiniteSets, SequencesExt

CONSTANTS
  Handlers,
  Signals,            (* of those that the thread waits for                 *)
  INT,                (* SIGINT, which the destructor sends                 *)
  MaxRegistrations,   (* bound: the guards                                  *)
  MaxSignals          (* bound: the signals that others send                *)

ASSUME SignalAssumption ==
  /\ INT \in Signals
  /\ MaxRegistrations \in Nat /\ MaxSignals \in Nat

VARIABLES
  handlerMap,    (* _handlerMap: a list for each signal                     *)
  stopping,      (* _threadObject._quit                                     *)
  pending,       (* the signals that were sent and not yet delivered        *)
  listener,      (* where the thread is in run()                            *)
  caught,        (* sig_caught                                              *)
  toCall,        (* the rest of the copied list                             *)
  lifetime,      (* how far the destructor of the SignalHandler has got     *)
  alive,         (* the handlers that exist                                 *)
  registered,    (* history: the pairs of signal and handler with a guard   *)
  left,          (* history: the pairs that removeHandler() left in a list  *)
  missed,        (* history: the handlers that were removed from a list     *)
                 (* while a copy of it was called                           *)
  registrations, sent, (* history: how many                                 *)
  handlerFault   (* a handler was called that does not exist                *)

signalVars == <<handlerMap, stopping, pending, listener, caught, toCall, lifetime, alive,
                registered, left, missed, registrations, sent, handlerFault>>

SignalInit ==
  /\ handlerMap = [s \in Signals |-> <<>>]
  /\ stopping = FALSE /\ lifetime = "open"
  /\ pending = {} /\ sent = 0
  /\ listener = "check" /\ caught = INT /\ toCall = <<>>
  /\ alive = Handlers
  /\ registered = {} /\ left = {} /\ missed = {} /\ registrations = 0
  /\ handlerFault = FALSE

-----------------------------------------------------------------------------
(* addHandler(), by the constructor of a guard.                            *)
AddHandler(s, h) ==
  /\ lifetime = "open" /\ h \in alive /\ <<s, h>> \notin registered
  /\ registrations < MaxRegistrations
  /\ handlerMap' = [handlerMap EXCEPT ![s] = Append(@, h)]
  /\ registered' = registered \cup {<<s, h>>}
  /\ registrations' = registrations + 1
  /\ UNCHANGED <<stopping, pending, listener, caught, toCall, lifetime, alive, left, missed,
                 sent, handlerFault>>

(* What could go wrong, for the runs that test the properties: a handler   *)
(* is moved over another one that stays.                                   *)
RemovedLast(list, h) == IF list = <<>> THEN list ELSE Append(Front(list), h)

(* std::remove() moves the handlers that stay to the front; that the list  *)
(* keeps its length, with its old end, is not looked at.                   *)
Removed(list, h) ==
  LET stays == {k \in DOMAIN list : list[k] # h}
      Place(k) == Cardinality({j \in stays : j <= k})
  IN  [i \in DOMAIN list |->
         IF \E k \in stays : Place(k) = i THEN list[CHOOSE k \in stays : Place(k) = i] ELSE list[i]]

(* removeHandler(), by the destructor of a guard.                          *)
RemoveHandler(s, h) ==
  /\ lifetime = "open" /\ <<s, h>> \in registered
  /\ handlerMap' = [handlerMap EXCEPT ![s] = Removed(@, h)]
  /\ registered' = registered \ {<<s, h>>}
  /\ left' = IF h \in ToSet(handlerMap'[s]) THEN left \cup {<<s, h>>} ELSE left
  /\ missed' = IF caught = s /\ h \in ToSet(toCall) THEN missed \cup {h} ELSE missed
  /\ UNCHANGED <<stopping, pending, listener, caught, toCall, lifetime, alive, registrations,
                 sent, handlerFault>>

(* A handler ends its life when no guard has it any more.                  *)
DestroyHandler(h) ==
  /\ h \in alive /\ \A s \in Signals : <<s, h>> \notin registered
  /\ alive' = alive \ {h}
  /\ UNCHANGED <<handlerMap, stopping, pending, listener, caught, toCall, lifetime, registered,
                 left, missed, registrations, sent, handlerFault>>

(* A signal that is pending already is not counted twice.                  *)
Send(s) ==
  /\ sent < MaxSignals /\ lifetime # "gone"
  /\ pending' = pending \cup {s}
  /\ sent' = sent + 1
  /\ UNCHANGED <<handlerMap, stopping, listener, caught, toCall, lifetime, alive, registered,
                 left, missed, registrations, handlerFault>>

-----------------------------------------------------------------------------
(* ~SignalHandler(), after the guards: _quit, then a SIGINT that ends the  *)
(* thread's waiting, then join().                                          *)
Quit ==
  /\ lifetime = "open" /\ registered = {}
  /\ lifetime' = "kill"
  /\ stopping' = TRUE
  /\ UNCHANGED <<handlerMap, pending, listener, caught, toCall, alive, registered, left, missed,
                 registrations, sent, handlerFault>>

Kill ==
  /\ lifetime = "kill"
  /\ lifetime' = "join"
  /\ pending' = pending \cup {INT}
  /\ UNCHANGED <<handlerMap, stopping, listener, caught, toCall, alive, registered, left, missed,
                 registrations, sent, handlerFault>>

JoinListener ==
  /\ lifetime = "join" /\ listener = "ended"
  /\ lifetime' = "gone"
  /\ UNCHANGED <<handlerMap, stopping, pending, listener, caught, toCall, alive, registered, left,
                 missed, registrations, sent, handlerFault>>

-----------------------------------------------------------------------------
(* run() of the thread.                                                    *)
LookAtQuit ==
  /\ listener = "check"
  /\ listener' = IF stopping THEN "ended" ELSE "sigwait"
  /\ UNCHANGED <<handlerMap, stopping, pending, caught, toCall, lifetime, alive, registered, left,
                 missed, registrations, sent, handlerFault>>

Catch(s) ==
  /\ listener = "sigwait" /\ s \in pending
  /\ pending' = pending \ {s}
  /\ caught' = s
  /\ listener' = "caught"
  /\ UNCHANGED <<handlerMap, stopping, toCall, lifetime, alive, registered, left, missed,
                 registrations, sent, handlerFault>>

(* _quit is looked at again, then the list is copied.                      *)
Intercept ==
  /\ listener = "caught"
  /\ \/ stopping /\ listener' = "check" /\ UNCHANGED <<toCall, missed>>
     \/ /\ ~ stopping /\ listener' = "call"
        /\ toCall' = handlerMap[caught] /\ missed' = {}
  /\ UNCHANGED <<handlerMap, stopping, pending, caught, lifetime, alive, registered, left,
                 registrations, sent, handlerFault>>

(* A handler may end the chain.                                            *)
OnSignal ==
  /\ listener = "call" /\ toCall # <<>> /\ Head(toCall) \in alive
  /\ toCall' \in {Tail(toCall), <<>>}
  /\ UNCHANGED <<handlerMap, stopping, pending, listener, caught, lifetime, alive, registered,
                 left, missed, registrations, sent, handlerFault>>

OnSignalOfNone ==
  /\ listener = "call" /\ toCall # <<>> /\ Head(toCall) \notin alive
  /\ handlerFault' = TRUE
  /\ UNCHANGED <<handlerMap, stopping, pending, listener, caught, toCall, lifetime, alive,
                 registered, left, missed, registrations, sent>>

EndCalls ==
  /\ listener = "call" /\ toCall = <<>>
  /\ listener' = "check"
  /\ UNCHANGED <<handlerMap, stopping, pending, caught, toCall, lifetime, alive, registered, left,
                 missed, registrations, sent, handlerFault>>

Listener ==
  LookAtQuit \/ (\E s \in Signals : Catch(s)) \/ Intercept \/ OnSignal \/ OnSignalOfNone \/ EndCalls
Shutdown == Kill \/ JoinListener

Program ==
  \/ \E s \in Signals : Send(s) \/ (\E h \in Handlers : AddHandler(s, h) \/ RemoveHandler(s, h))
  \/ \E h \in Handlers : DestroyHandler(h)
  \/ Quit

SignalNext == ~ handlerFault /\ (Listener \/ Shutdown \/ Program)

SignalSpec == SignalInit /\ [][SignalNext]_signalVars
-----------------------------------------------------------------------------
SignalTypeOK ==
  /\ handlerMap \in [Signals -> Seq(Handlers)]
  /\ stopping \in BOOLEAN /\ handlerFault \in BOOLEAN
  /\ pending \subseteq Signals /\ caught \in Signals
  /\ listener \in {"check", "sigwait", "caught", "call", "ended"}
  /\ toCall \in Seq(Handlers)
  /\ lifetime \in {"open", "kill", "join", "gone"}
  /\ alive \subseteq Handlers /\ missed \subseteq Handlers
  /\ registered \subseteq Signals \X Handlers /\ left \subseteq Signals \X Handlers

(* A handler with a guard is called for its signal, whatever was removed   *)
(* before or beside it, and it exists.                                     *)
GuardsHold ==
  \A r \in registered : r[2] \in ToSet(handlerMap[r[1]]) /\ r[2] \in alive

(* A handler that was destroyed is called only if its guard went away      *)
(* during the calls for a signal, or if removeHandler() left it in the     *)
(* list, which it does to whatever is last in it.                          *)
HandlersExplained ==
  /\ GuardsHold
  /\ handlerFault => \/ Head(toCall) \in missed
                     \/ <<caught, Head(toCall)>> \in left
  /\ \A s \in Signals : \A h \in ToSet(handlerMap[s]) : <<s, h>> \in registered \cup left

(* A signal that is sent is caught, and the destructor ends, although the  *)
(* thread that it waits for may be blocked in sigwait().                   *)
SignalsHandled ==
  /\ \A s \in Signals : s \in pending ~> (s \notin pending \/ stopping \/ handlerFault)
  /\ stopping ~> (lifetime = "gone" \/ handlerFault)
=============================================================================
