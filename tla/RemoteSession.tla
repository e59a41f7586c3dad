---------------------------- MODULE RemoteSession ----------------------------
(***************************************************************************)
(* A cds process that works over an ssh connection (internal/shexec,       *)
(* shell.go and remote.go): a terminal attached to a remote shell (project *)
(* ssh and rsh) or to a remote process, a local port forwarded into a      *)
(* container (project expose), or a list of commands executed one by one.  *)
(*                                                                         *)
(* The goroutines of the process are steps of their own: the one that      *)
(* watches the size of the window, the one that accepts the next           *)
(* connection, and three per forwarded connection.  Channels without a     *)
(* buffer are joint steps of the sender and the receiver.  What is typed,  *)
(* printed and forwarded is left out; when a copy ends is not.             *)
(***************************************************************************)
EXTENDS Naturals, Sequences, FiniteSets

CONSTANTS
    Conns,     \* the connections that may come in on the local port
    NoConn,    \* an Accept that failed
    MaxCmds,   \* bound: length of a list of commands
    MaxTicks   \* bound: changes of the window's size

ASSUME ConnsAssumption == NoConn \notin Conns
ASSUME BoundsAssumption == MaxCmds \in Nat /\ MaxTicks \in Nat

VARIABLES
    mode,     \* which function runs
    key,      \* the private key file
    agent,    \* what answers at SSH_AUTH_SOCK
    tty,      \* standard input is a terminal that answers
    main,     \* where the function is
    result,   \* what it returned, or "none"
    cleanup,  \* the deferred function of an attached session
    raw,      \* the terminal is in raw mode
    session,  \* the session is open
    remote,   \* the shell or process at the other end
    cancelled,\* the context of the window handler
    win,      \* where the window handler is
    resizes,  \* bound, and whether the size has changed since the last look
    acceptor, \* where the goroutine that accepts is
    queue,    \* the channel localConn, of capacity 1
    conn,     \* the connections
    cmds,     \* the commands that are left
    errs,     \* how many errors they gave so far
    log       \* history: how each command went

shellVars == <<cleanup, raw, session, remote, cancelled, win, resizes>>
forwardVars == <<acceptor, queue, conn>>
execVars == <<cmds, errs, log>>
given == <<mode, key, agent>>
vars == <<given, tty, main, result, shellVars, forwardVars, execVars>>

Modes == {"shell", "process", "forward", "commands"}

\* A command may be one that the list goes on after, or not.
Commands == [carryOn : BOOLEAN]

NewConn == [st |-> "away", local |-> TRUE, peer |-> TRUE, send |-> "none", receive |-> "none"]

Init ==
    /\ mode \in Modes
    /\ key \in {"plain", "locked", "unreadable"}
    /\ agent \in {"none", "answers", "silent"}
    /\ tty \in BOOLEAN
    /\ main = IF mode = "forward" THEN "listen" ELSE "connect"
    /\ result = "none"
    /\ cleanup = "none" /\ raw = FALSE /\ session = FALSE
    /\ remote = "none" /\ cancelled = FALSE /\ win = "none"
    /\ resizes = [n |-> 0, seen |-> 0]
    /\ acceptor = "none" /\ queue = <<>>
    /\ conn = [c \in Conns |-> NewConn]
    /\ cmds \in IF mode = "commands" THEN UNION {[1 .. n -> Commands] : n \in 1 .. MaxCmds} ELSE {<<>>}
    /\ errs = 0 /\ log = <<>>

Goto(pc) == main' = pc /\ UNCHANGED <<given, tty, result>>

Return(r) == main' = "returned" /\ result' = r /\ UNCHANGED <<given, tty>>

-----------------------------------------------------------------------------
(***************************************************************************)
(* The connection.                                                         *)
(***************************************************************************)
\* A key with a passphrase is left to the agent if there is one, else the
\* passphrase is asked for, on a terminal only.
getAuthMethod ==
    CASE key = "plain" -> {TRUE}
      [] key = "unreadable" -> {FALSE}
      [] key = "locked" /\ agent # "none" -> {agent = "answers"}
      [] OTHER -> IF tty THEN BOOLEAN ELSE {FALSE}

Connected ==
    CASE mode \in {"shell", "process"} -> "session"
      [] mode = "forward" -> "loop"
      [] mode = "commands" -> "execute"

Listen ==
    /\ main = "listen"
    /\ Goto("connect") \/ Return("error")
    /\ UNCHANGED <<shellVars, forwardVars, execVars>>

connectSSHKey ==
    /\ main = "connect"
    /\ \/ TRUE \in getAuthMethod /\ Goto(Connected)
       \/ Return("error")
    /\ UNCHANGED <<shellVars, forwardVars, execVars>>

-----------------------------------------------------------------------------
(***************************************************************************)
(* AttachShellUsingKey and AttachProcessUsingKey: openAttachedSession      *)
(* hands out, with the session or with an error, what has to be undone.    *)
(***************************************************************************)
NewSession ==
    /\ main = "session"
    /\ cleanup' = "close"
    /\ \/ session' = TRUE /\ Goto("raw")
       \/ session' = FALSE /\ Goto("cleanup")
    /\ UNCHANGED <<raw, remote, cancelled, win, resizes, forwardVars, execVars>>

\* Mutant: the cleanup is not replaced when the terminal has changed.
MakeRaw_KeepsCleanup ==
    /\ main = "raw"
    /\ raw' = tty
    /\ Goto(IF tty THEN "size" ELSE "cleanup")
    /\ UNCHANGED <<cleanup, session, remote, cancelled, win, resizes, forwardVars, execVars>>

MakeRaw ==
    /\ main = "raw"
    /\ cleanup' = "restore"
    /\ raw' = tty
    /\ Goto(IF tty THEN "size" ELSE "cleanup")
    /\ UNCHANGED <<session, remote, cancelled, win, resizes, forwardVars, execVars>>

getTermSize ==
    /\ main = "size"
    /\ Goto(IF tty THEN "pty" ELSE "cleanup")
    /\ UNCHANGED <<shellVars, forwardVars, execVars>>

RequestPty ==
    /\ main = "pty"
    /\ Goto("start") \/ Goto("cleanup")
    /\ UNCHANGED <<shellVars, forwardVars, execVars>>

\* A shell is started and then its window watched; a process is started when
\* its window is watched already.
Start ==
    /\ main = "start"
    /\ \/ /\ mode = "process" /\ win = "none"
          /\ win' = "first"
          /\ Goto("start")
          /\ UNCHANGED <<remote, cancelled>>
       \/ /\ mode = "shell" \/ win # "none"
          /\ remote' = "running"
          /\ win' = IF mode = "shell" THEN "first" ELSE win
          /\ Goto("wait")
          /\ UNCHANGED cancelled
       \/ /\ mode = "shell" \/ win # "none"
          /\ cancelled' = (mode = "process")
          /\ Goto("cleanup")
          /\ UNCHANGED <<remote, win>>
    /\ UNCHANGED <<cleanup, raw, session, resizes, forwardVars, execVars>>

\* The remote end has ended.  A process that failed is not waited for any
\* further; otherwise the errors of the window handler are collected.
Wait ==
    /\ main = "wait"
    /\ remote \in {"exited", "failed"}
    /\ cancelled' = TRUE
    /\ Goto(IF mode = "process" /\ remote = "failed" THEN "cleanup" ELSE "drain")
    /\ UNCHANGED <<cleanup, raw, session, remote, win, resizes, forwardVars, execVars>>

\* The range over errChan ends when the channel is closed.
Drained ==
    /\ main = "drain"
    /\ win = "closed"
    /\ Goto("cleanup")
    /\ UNCHANGED <<shellVars, forwardVars, execVars>>

\* What was deferred; the result was fixed before.
Cleanup ==
    /\ main = "cleanup"
    /\ session' = FALSE
    /\ raw' = (raw /\ ~ (cleanup = "restore" /\ tty))
    /\ Return(IF remote = "exited" THEN "ok" ELSE "error")
    /\ UNCHANGED <<cleanup, remote, cancelled, win, resizes, forwardVars, execVars>>

(***************************************************************************)
(* windowSizeChangeHandler.                                                *)
(***************************************************************************)
Handler(pc) == win' = pc /\ UNCHANGED <<given, tty, main, result, cleanup, raw, session, remote, cancelled, forwardVars, execVars>>

FirstSize ==
    /\ win = "first"
    /\ resizes' = [resizes EXCEPT !.seen = resizes.n]
    /\ Handler(IF tty THEN "loop" ELSE "sendErr")

Tick ==
    /\ win = "loop"
    /\ \/ ~ tty /\ Handler("sendErr") /\ UNCHANGED resizes
       \/ /\ tty /\ resizes.seen # resizes.n
          /\ resizes' = [resizes EXCEPT !.seen = resizes.n]
          \* WindowChange works, or the session has gone
          /\ Handler("loop") \/ (remote # "running" /\ Handler("sendErr"))

CtxDone ==
    /\ win = "loop"
    /\ cancelled
    /\ Handler("sendNil")
    /\ UNCHANGED resizes

\* Mutant: the channel is not closed on every return.
SendErr_NoClose ==
    /\ win \in {"sendErr", "sendNil"}
    /\ main = "drain"
    /\ win' = IF win = "sendNil" THEN "closed" ELSE "gone"
    /\ UNCHANGED <<given, tty, main, result, cleanup, raw, session, remote, cancelled, resizes, forwardVars, execVars>>

\* A send that the main goroutine receives, then the deferred close.
SendErr ==
    /\ win \in {"sendErr", "sendNil"}
    /\ main = "drain"
    /\ win' = "closed"
    /\ UNCHANGED <<given, tty, main, result, cleanup, raw, session, remote, cancelled, resizes, forwardVars, execVars>>

-----------------------------------------------------------------------------
(***************************************************************************)
(* ForwardPort.                                                            *)
(***************************************************************************)
\* Mutant: one goroutine accepts, once.
Spawn_Once ==
    /\ main = "loop"
    /\ acceptor' = IF \A c \in Conns : conn[c].st \in {"away", "arrived"} THEN "accept" ELSE acceptor
    /\ Goto("select")
    /\ UNCHANGED <<shellVars, queue, conn, execVars>>

Spawn ==
    /\ main = "loop"
    /\ acceptor' = "accept"
    /\ Goto("select")
    /\ UNCHANGED <<shellVars, queue, conn, execVars>>

\* The channel is empty whenever a goroutine accepts, so its send never waits.
Accept ==
    /\ main # "returned"
    /\ acceptor = "accept"
    /\ acceptor' = "none"
    /\ queue = <<>>
    /\ \E c \in Conns :
          /\ conn[c].st = "arrived"
          /\ conn' = [conn EXCEPT ![c].st = "accepted"]
          /\ queue' = <<c>>
    /\ UNCHANGED <<given, tty, main, result, shellVars, execVars>>

AcceptFails ==
    /\ main # "returned"
    /\ acceptor = "accept"
    /\ acceptor' = "none"
    /\ queue = <<>>
    /\ queue' = <<NoConn>>
    /\ UNCHANGED <<given, tty, main, result, shellVars, conn, execVars>>

\* The error that is returned is the one of Listen, which is nil.
SelectConn ==
    /\ main = "select"
    /\ queue # <<>>
    /\ queue' = <<>>
    /\ IF queue[1] = NoConn
       THEN Return("ok") /\ UNCHANGED conn
       ELSE Goto("loop") /\ conn' = [conn EXCEPT ![queue[1]].st = "dialing"]
    /\ UNCHANGED <<shellVars, acceptor, execVars>>

\* A timer that is restarted with every connection accepted; if a connection
\* waits in the channel as well, either may be taken.
SelectTimeout ==
    /\ main = "select"
    /\ Return("ok")
    /\ UNCHANGED <<shellVars, forwardVars, execVars>>

(***************************************************************************)
(* forwardConnToRemote, as long as the process lives.                      *)
(***************************************************************************)
Set(c, r) ==
    /\ main # "returned"
    /\ conn' = [conn EXCEPT ![c] = r]
    /\ UNCHANGED <<given, tty, main, result, shellVars, acceptor, queue, execVars>>

\* A dial that fails ends the goroutine; the local connection stays open.
Dial(c) ==
    /\ conn[c].st = "dialing"
    /\ \/ Set(c, [conn[c] EXCEPT !.st = "open", !.send = "copy", !.receive = "copy"])
       \/ Set(c, [conn[c] EXCEPT !.st = "abandoned"])

\* A copy ends when its reader does.
CopyEnds(c) ==
    \/ conn[c].send = "copy" /\ ~ conn[c].local /\ Set(c, [conn[c] EXCEPT !.send = "signal"])
    \/ conn[c].receive = "copy" /\ ~ conn[c].peer /\ Set(c, [conn[c] EXCEPT !.receive = "signal"])

\* Mutant: a copy that fails tells nobody.
CopyFails_Silent(c) ==
    \/ conn[c].send = "copy" /\ ~ conn[c].peer /\ Set(c, [conn[c] EXCEPT !.send = "gone"])
    \/ conn[c].receive = "copy" /\ ~ conn[c].local /\ Set(c, [conn[c] EXCEPT !.receive = "gone"])

\* A copy fails when something is written to an end that has closed.
CopyFails(c) ==
    \/ conn[c].send = "copy" /\ ~ conn[c].peer /\ Set(c, [conn[c] EXCEPT !.send = "signal"])
    \/ conn[c].receive = "copy" /\ ~ conn[c].local /\ Set(c, [conn[c] EXCEPT !.receive = "signal"])

\* sendDone, then receiveDone, then the deferred close of the remote end.
Join(c) ==
    \/ /\ conn[c].st = "open" /\ conn[c].send = "signal"
       /\ Set(c, [conn[c] EXCEPT !.st = "half", !.send = "done"])
    \/ /\ conn[c].st = "half" /\ conn[c].receive = "signal"
       /\ Set(c, [conn[c] EXCEPT !.st = "ended", !.receive = "done", !.peer = FALSE])

-----------------------------------------------------------------------------
(***************************************************************************)
(* RunCmds over keyExecuteCallback.execute: a command that fails ends the  *)
(* list, or is recovered from and the list goes on; its error is kept.     *)
(***************************************************************************)
Executed(outcome, errors, pc) ==
    /\ log' = Append(log, outcome)
    /\ errs' = errs + errors
    /\ Goto(pc)

\* Mutant: a command that was recovered from counts as one that worked.
execute_Forgets ==
    /\ main = "execute" /\ cmds # <<>>
    /\ cmds' = Tail(cmds)
    /\ \/ Executed("ok", 0, "execute")
       \/ ~ Head(cmds).carryOn /\ Executed("fatal", 1, "report")
       \/ Head(cmds).carryOn /\ Executed("recovered", 0, "execute")
       \/ Head(cmds).carryOn /\ Executed("failed", 2, "execute")
    /\ UNCHANGED <<shellVars, forwardVars>>

\* When the recovery fails as well there are its error, and the first twice.
execute ==
    /\ main = "execute" /\ cmds # <<>>
    /\ cmds' = Tail(cmds)
    /\ \/ Executed("ok", 0, "execute")
       \/ ~ Head(cmds).carryOn /\ Executed("fatal", 1, "report")
       \/ Head(cmds).carryOn /\ Executed("recovered", 1, "execute")
       \/ Head(cmds).carryOn /\ Executed("failed", 3, "execute")
    /\ UNCHANGED <<shellVars, forwardVars>>

RunCmds ==
    /\ main = "report" \/ (main = "execute" /\ cmds = <<>>)
    /\ Return(IF errs = 0 THEN "ok" ELSE "error")
    /\ UNCHANGED <<shellVars, forwardVars, execVars>>

-----------------------------------------------------------------------------
(***************************************************************************)
(* Outside the process.                                                    *)
(***************************************************************************)
Outside == UNCHANGED <<given, main, result, cleanup, raw, session, cancelled, win, acceptor, queue, execVars>>

\* The user or the program at the other end ends it, or the connection breaks.
RemoteEnds ==
    /\ remote = "running"
    /\ remote' \in {"exited", "failed"}
    /\ Outside /\ UNCHANGED <<tty, resizes, conn>>

Resize ==
    /\ win # "none" /\ main # "returned"
    /\ resizes.n < MaxTicks
    /\ resizes' = [resizes EXCEPT !.n = @ + 1]
    /\ Outside /\ UNCHANGED <<tty, remote, conn>>

TerminalFails ==
    /\ tty /\ mode \in {"shell", "process"} /\ main # "returned"
    /\ tty' = FALSE
    /\ Outside /\ UNCHANGED <<resizes, remote, conn>>

Arrive(c) ==
    /\ mode = "forward" /\ main \in {"loop", "select"}
    /\ conn[c].st = "away"
    /\ conn' = [conn EXCEPT ![c].st = "arrived"]
    /\ Outside /\ UNCHANGED <<tty, resizes, remote>>

Hangup(c) ==
    /\ main # "returned" /\ conn[c].st # "away"
    /\ \/ conn[c].local /\ conn' = [conn EXCEPT ![c].local = FALSE]
       \/ conn[c].st = "open" /\ conn[c].peer /\ conn' = [conn EXCEPT ![c].peer = FALSE]
       \/ conn[c].st = "half" /\ conn[c].peer /\ conn' = [conn EXCEPT ![c].peer = FALSE]
    /\ Outside /\ UNCHANGED <<tty, resizes, remote>>

Main ==
    \/ Listen \/ connectSSHKey
    \/ NewSession \/ MakeRaw \/ getTermSize \/ RequestPty \/ Start \/ Wait \/ Drained \/ Cleanup
    \/ Spawn \/ SelectConn
    \/ execute \/ RunCmds

Window == FirstSize \/ Tick \/ SendErr

Next ==
    \/ Main
    \/ Window \/ CtxDone
    \/ Accept \/ AcceptFails \/ SelectTimeout
    \/ \E c \in Conns : Dial(c) \/ CopyEnds(c) \/ CopyFails(c) \/ Join(c)
    \/ RemoteEnds \/ Resize \/ TerminalFails
    \/ \E c \in Conns : Arrive(c) \/ Hangup(c)

\* Go schedules every goroutine that can run.  The select of the window
\* handler sees the end of its context between two ticks.  The timer, the
\* user, the network and the programs at both ends owe nothing, so a copy to an
\* end that has closed need not fail.
Spec ==
    /\ Init /\ [][Next]_vars
    /\ WF_vars(Main)
    /\ WF_vars(Window)
    /\ WF_vars(CtxDone)
    /\ WF_vars(Accept)
    /\ \A c \in Conns : WF_vars(Dial(c)) /\ WF_vars(CopyEnds(c)) /\ WF_vars(Join(c))

-----------------------------------------------------------------------------
Places ==
    {"listen", "connect", "session", "raw", "size", "pty", "start", "wait", "drain", "cleanup",
     "loop", "select", "execute", "report", "returned"}

ConnType ==
    [st : {"away", "arrived", "accepted", "dialing", "abandoned", "open", "half", "ended"},
     local : BOOLEAN, peer : BOOLEAN,
     send : {"none", "copy", "signal", "done"}, receive : {"none", "copy", "signal", "done"}]

\* Every variable has its type.
TypeOK ==
    /\ mode \in Modes
    /\ key \in {"plain", "locked", "unreadable"}
    /\ agent \in {"none", "answers", "silent"}
    /\ tty \in BOOLEAN /\ raw \in BOOLEAN /\ session \in BOOLEAN /\ cancelled \in BOOLEAN
    /\ main \in Places
    /\ result \in {"none", "ok", "error"}
    /\ main = "returned" <=> result # "none"
    /\ cleanup \in {"none", "close", "restore"}
    /\ remote \in {"none", "running", "exited", "failed"}
    /\ win \in {"none", "first", "loop", "sendErr", "sendNil", "closed"}
    /\ resizes \in [n : Nat, seen : Nat]
    /\ acceptor \in {"none", "accept"}
    /\ queue \in Seq(Conns \cup {NoConn}) /\ Len(queue) <= 1
    /\ conn \in [Conns -> ConnType]
    /\ cmds \in Seq(Commands)
    /\ errs \in Nat
    /\ log \in Seq({"ok", "fatal", "recovered", "failed"})

\* However an attached session ends, the terminal, if it still answers, is back
\* in its mode, the session is closed, and no goroutine is left that uses them, but for the
\* window handler of a process that failed, which AttachProcessUsingKey does
\* not wait for.
LeavesNothing ==
    main = "returned" =>
        /\ raw => ~ tty
        /\ ~ session
        /\ win \in {"none", "closed"} \/ (mode = "process" /\ result = "error")

\* RunCmds returns no error only if every command was executed and worked: an
\* error is not lost when the list goes on after it, and nothing is executed
\* after a command that the list must not go on after.
NoErrorLost ==
    /\ mode = "commands" /\ result = "ok" => cmds = <<>> /\ \A i \in DOMAIN log : log[i] = "ok"
    /\ \A i \in DOMAIN log : log[i] = "fatal" => i = Len(log) /\ result # "ok"

\* The goroutine that accepts finds the channel empty, so that its send, which
\* nobody may be there to receive, does not block it.
SendNeverWaits == acceptor = "accept" => queue = <<>>

\* Inductive: which function is at which place, and what the attached session
\* has open there.  A terminal in raw mode has its restore among the deferred
\* calls; the window handler runs only between the start and the end of the
\* remote program, and past that point only for a process that failed.
AttachedInv ==
    /\ main \in {"listen", "loop", "select"} => mode = "forward"
    /\ main \in {"session", "raw", "size", "pty", "start", "wait", "drain", "cleanup"} => mode \in {"shell", "process"}
    /\ main \in {"execute", "report"} => mode = "commands"
    /\ session => main \in {"raw", "size", "pty", "start", "wait", "drain", "cleanup"}
    /\ raw => main \in {"size", "pty", "start", "wait", "drain", "cleanup", "returned"} /\ cleanup = "restore"
    /\ win # "none" => main \in {"start", "wait", "drain", "cleanup", "returned"}
    /\ main = "start" /\ mode = "shell" => win = "none"
    /\ remote = "running" => main = "wait"
    /\ main \in {"wait", "drain"} => remote # "none"
    /\ main = "drain" /\ mode = "process" => remote = "exited"
    /\ remote # "none" => main \in {"wait", "drain", "cleanup", "returned"}
    /\ main = "cleanup" => win \in {"none", "closed"} \/ (mode = "process" /\ remote # "exited")

\* Inductive: the connections between two rounds of the loop of ForwardPort.
ForwardInv ==
    /\ acceptor = "accept" => queue = <<>>
    /\ main = "loop" => acceptor = "none" /\ queue = <<>>
    /\ mode # "forward" \/ main \in {"listen", "connect"} => acceptor = "none" /\ queue = <<>>

\* Inductive: what the list of commands has done so far.
ExecInv ==
    /\ mode # "commands" => log = <<>>
    /\ errs = 0 => \A i \in DOMAIN log : log[i] = "ok"
    /\ \A i \in DOMAIN log : log[i] = "fatal" => i = Len(log) /\ main \in {"report", "returned"}
    /\ main = "report" => errs # 0
    /\ mode = "commands" /\ result = "ok" => errs = 0 /\ cmds = <<>>

\* The inductive invariant.
IInv == TypeOK /\ AttachedInv /\ LeavesNothing /\ ForwardInv /\ ExecInv

\* When the remote shell or process has ended, the attached command returns,
\* although it then waits for a goroutine that may be about to report an error
\* on a channel without a buffer.
AttachReturns == remote \in {"exited", "failed"} ~> main = "returned"

\* A connection that comes in is served, whatever becomes of the others, as
\* long as the command runs.
EachConnectionIsServed ==
    \A c \in Conns :
        conn[c].st = "arrived" ~> (conn[c].st \notin {"arrived", "accepted"} \/ main = "returned")

\* When both ends have hung up, the goroutines of a connection end.
ForwardEnds ==
    \A c \in Conns :
        (conn[c].st = "open" /\ ~ conn[c].local /\ ~ conn[c].peer)
            ~> (conn[c].st = "ended" \/ main = "returned")

=============================================================================
