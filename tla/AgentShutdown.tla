--------------------------- MODULE AgentShutdown ---------------------------
(***************************************************************************)
(* main of cmd/api-agent: the goroutine that serves, the one that stops    *)
(* the server, the one that waits for signals, and main, which waits for   *)
(* any of them, closes `done` and waits for all.                           *)
(*                                                                         *)
(* Each goroutine ends with its deferred calls in their order.  A channel  *)
(* that is only ever closed is closed once its goroutine has passed        *)
(* "close".  grpc and the delivery of signals are external: Serve returns  *)
(* when accepting fails or the server was stopped, GracefulStop refuses    *)
(* new calls and waits for the active ones, and the runtime sends each     *)
(* signal to the channel registered with Notify, which is never            *)
(* deregistered, without waiting for room.                                 *)
(***************************************************************************)
EXTENDS Naturals

CONSTANTS
    Calls,      \* calls of clients, each made at most once
    MaxSignals  \* bound: signals sent to the agent

ASSUME MaxSignalsAssumption == MaxSignals \in Nat

VARIABLES
    server,    \* the goroutine around Serve
    stopper,   \* the goroutine around GracefulStop
    watcher,   \* the goroutine of the signals
    main,      \* main itself; its end is the end of the process
    done,      \* channel done is closed
    buffered,  \* a signal is in signalChan
    active,    \* calls whose handlers run
    made,      \* history: calls accepted so far
    signals    \* bound

goroutines == <<server, stopper, watcher, main>>

shutdownVars == <<server, stopper, watcher, main, done, buffered, active, made, signals>>

-----------------------------------------------------------------------------
\* How the process ended: main returned, or a signal had its default effect
\* or made the runtime panic.
Ended == main \in {"returned", "killed", "panicked"}

ShutdownInit ==
    /\ server = "serve"
    /\ stopper = "wait"
    /\ watcher = "notify"
    /\ main = "select"
    /\ done = FALSE
    /\ buffered = FALSE
    /\ active = {}
    /\ made = {}
    /\ signals = 0

(***************************************************************************)
(* Calls, which a stopped server refuses.  A connection outlives a failure *)
(* to accept new ones.                                                     *)
(***************************************************************************)
CallBegins(c) ==
    /\ ~ Ended
    /\ stopper = "wait"
    /\ c \notin made
    /\ made' = made \cup {c}
    /\ active' = active \cup {c}
    /\ UNCHANGED <<goroutines, done, buffered, signals>>

CallEnds(c) ==
    /\ ~ Ended
    /\ c \in active
    /\ active' = active \ {c}
    /\ UNCHANGED <<goroutines, done, buffered, made, signals>>

(***************************************************************************)
(* The goroutine around Serve.                                             *)
(***************************************************************************)
AcceptFails ==
    /\ ~ Ended
    /\ server = "serve"
    /\ server' = "close"
    /\ UNCHANGED <<stopper, watcher, main, done, buffered, active, made, signals>>

\* Serve returns after GracefulStop; then close(serverShutdown), wg.Done().
Serve ==
    /\ ~ Ended
    /\ \/ server = "serve" /\ stopper \in {"close", "leave", "left"} /\ server' = "close"
       \/ server = "close" /\ server' = "leave"
       \/ server = "leave" /\ server' = "left"
    /\ UNCHANGED <<stopper, watcher, main, done, buffered, active, made, signals>>

(***************************************************************************)
(* The goroutine around GracefulStop.                                      *)
(***************************************************************************)
GracefulStop ==
    /\ ~ Ended
    /\ \/ stopper = "wait" /\ done /\ stopper' = "stop"
       \/ stopper = "stop" /\ active = {} /\ stopper' = "close"
       \/ stopper = "close" /\ stopper' = "leave"
       \/ stopper = "leave" /\ stopper' = "left"
    /\ UNCHANGED <<server, watcher, main, done, buffered, active, made, signals>>

(***************************************************************************)
(* The goroutine of the signals.                                           *)
(***************************************************************************)
\* Mutant: signals are watched only; done is not.
WatchSignals_OnlySignals ==
    /\ ~ Ended
    /\ \/ watcher = "notify" /\ watcher' = "select" /\ UNCHANGED buffered
       \/ watcher = "select" /\ buffered /\ watcher' = "closeChan" /\ buffered' = FALSE
       \/ watcher = "closeChan" /\ watcher' = "close" /\ UNCHANGED buffered
       \/ watcher = "close" /\ watcher' = "leave" /\ UNCHANGED buffered
       \/ watcher = "leave" /\ watcher' = "left" /\ UNCHANGED buffered
    /\ UNCHANGED <<server, stopper, main, done, active, made, signals>>

\* Notify, the select, then close(signalChan), close(signalReceived), wg.Done().
WatchSignals ==
    /\ ~ Ended
    /\ \/ watcher = "notify" /\ watcher' = "select" /\ UNCHANGED buffered
       \/ watcher = "select" /\ done /\ watcher' = "closeChan" /\ UNCHANGED buffered
       \/ watcher = "select" /\ buffered /\ watcher' = "closeChan" /\ buffered' = FALSE
       \/ watcher = "closeChan" /\ watcher' = "close" /\ UNCHANGED buffered
       \/ watcher = "close" /\ watcher' = "leave" /\ UNCHANGED buffered
       \/ watcher = "leave" /\ watcher' = "left" /\ UNCHANGED buffered
    /\ UNCHANGED <<server, stopper, main, done, active, made, signals>>

\* SIGINT, SIGQUIT or SIGTERM: fatal before Notify; dropped when one waits;
\* a panic once the channel is closed.
SignalArrives ==
    /\ ~ Ended
    /\ signals < MaxSignals
    /\ signals' = signals + 1
    /\ \/ watcher = "notify" /\ main' = "killed" /\ UNCHANGED buffered
       \/ watcher \in {"select", "closeChan"} /\ buffered' = TRUE /\ UNCHANGED main
       \/ watcher \in {"close", "leave", "left"} /\ main' = "panicked" /\ UNCHANGED buffered
    /\ UNCHANGED <<server, stopper, watcher, done, active, made>>

(***************************************************************************)
(* main.                                                                   *)
(***************************************************************************)
Closed(pc) == pc \in {"leave", "left"}

CloseDone ==
    /\ main = "select"
    /\ Closed(server) \/ Closed(stopper) \/ Closed(watcher)
    /\ main' = "wait"
    /\ done' = TRUE
    /\ UNCHANGED <<server, stopper, watcher, buffered, active, made, signals>>

\* Mutant: the stopping goroutine is not counted.
WaitGroup_Uncounted == server = "left" /\ watcher = "left"

WaitGroup == server = "left" /\ stopper = "left" /\ watcher = "left"

MainReturns ==
    /\ main = "wait"
    /\ WaitGroup
    /\ main' = "returned"
    /\ UNCHANGED <<server, stopper, watcher, done, buffered, active, made, signals>>

ShutdownNext ==
    \/ \E c \in Calls : CallBegins(c) \/ CallEnds(c)
    \/ AcceptFails
    \/ Serve
    \/ GracefulStop
    \/ WatchSignals
    \/ SignalArrives
    \/ CloseDone
    \/ MainReturns

\* Every goroutine that can run does; nothing is assumed of the handlers.
Fairness ==
    /\ WF_shutdownVars(Serve)
    /\ WF_shutdownVars(GracefulStop)
    /\ WF_shutdownVars(WatchSignals)
    /\ WF_shutdownVars(CloseDone)
    /\ WF_shutdownVars(MainReturns)

ShutdownSpec == ShutdownInit /\ [][ShutdownNext]_shutdownVars /\ Fairness

-----------------------------------------------------------------------------
Ending == {"close", "leave", "left"}

\* Every variable has its type; no channel is closed before its time.
ShutdownTypeOK ==
    /\ server \in {"serve"} \cup Ending
    /\ stopper \in {"wait", "stop"} \cup Ending
    /\ watcher \in {"notify", "select", "closeChan"} \cup Ending
    /\ main \in {"select", "wait", "returned", "killed", "panicked"}
    /\ done \in BOOLEAN
    /\ buffered \in BOOLEAN
    /\ active \subseteq made
    /\ made \subseteq Calls
    /\ signals \in 0..MaxSignals
    /\ main = "select" => ~ done
    /\ stopper # "wait" => done

\* When main returns, no handler runs: every call that was accepted before
\* the signal or the failure of the listener has been answered.
ReturnsWhenIdle == main = "returned" => active = {}

\* The watcher has taken a signal, or Serve has failed.
StopRequested == server # "serve" \/ watcher \notin {"notify", "select"}

\* Once that happens the process ends, unless a handler runs forever.
Terminates == <>[](active = {}) => (StopRequested ~> Ended)

=============================================================================
