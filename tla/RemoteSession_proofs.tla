------------------------ MODULE RemoteSession_proofs ------------------------
(***************************************************************************)
(* Proofs about RemoteSession, for any number of connections and any list  *)
(* of commands: an attached session leaves nothing behind, a list of       *)
(* commands loses no error, and the goroutine that accepts never blocks on *)
(* its send.  Each part of the inductive invariant is shown to survive     *)
(* each step, by the groups the steps fall into: the attached session, its *)
(* window handler, the forwarded port, the list of commands, the outside.  *)
(***************************************************************************)
EXTENDS RemoteSession, TLAPS

\* The invariant holds of the process that has just been started.
LEMMA InitOK == Init => IInv
<1> SUFFICES ASSUME Init PROVE IInv
    OBVIOUS
<1>1. cmds \in Seq(Commands)
  <2>1. CASE mode = "commands"
    <3>1. PICK n \in 1 .. MaxCmds : cmds \in [1 .. n -> Commands]
        BY <2>1 DEF Init
    <3>2. n \in Nat
        BY BoundsAssumption
    <3>3. QED
        BY <3>1, <3>2
  <2>2. CASE mode # "commands"
      BY <2>2 DEF Init
  <2>3. QED
      BY <2>1, <2>2
<1>2. conn \in [Conns -> ConnType]
    BY DEF Init, ConnType, NewConn
<1>3. queue \in Seq(Conns \cup {NoConn}) /\ Len(queue) <= 1
      /\ log \in Seq({"ok", "fatal", "recovered", "failed"})
      /\ resizes \in [n : Nat, seen : Nat]
    BY DEF Init
<1>4. TypeOK
    BY <1>1, <1>2, <1>3 DEF Init, TypeOK, Modes, Places
<1>5. AttachedInv /\ LeavesNothing /\ ForwardInv /\ ExecInv
    BY DEF Init, AttachedInv, LeavesNothing, ForwardInv, ExecInv, Modes
<1>6. QED
    BY <1>4, <1>5 DEF IInv

-----------------------------------------------------------------------------
(***************************************************************************)
(* The steps of the function itself.                                       *)
(***************************************************************************)
\* Connecting opens nothing that would have to be closed.
LEMMA ConnectOK == IInv /\ (Listen \/ connectSSHKey) => IInv'
<1> SUFFICES ASSUME IInv, Listen \/ connectSSHKey PROVE IInv'
    OBVIOUS
<1> USE DEF given, shellVars, forwardVars, execVars
<1>1. UNCHANGED <<given, tty, shellVars, forwardVars, execVars>> /\ main \in {"listen", "connect"}
    BY DEF Listen, connectSSHKey, Goto, Return
<1>2. \/ mode = "forward" /\ main' \in {"connect", "loop"} /\ result' = result
      \/ mode \in {"shell", "process"} /\ main' = "session" /\ result' = result
      \/ mode = "commands" /\ main' = "execute" /\ result' = result
      \/ main' = "returned" /\ result' = "error"
    BY DEF IInv, TypeOK, AttachedInv, Modes, Listen, connectSSHKey, Connected, Goto, Return
<1>3. TypeOK'
    BY <1>1, <1>2 DEF IInv, TypeOK, Places
<1>4. AttachedInv' /\ LeavesNothing'
    BY <1>1, <1>2 DEF IInv, TypeOK, AttachedInv, LeavesNothing
<1>5. ForwardInv' /\ ExecInv'
    BY <1>1, <1>2 DEF IInv, TypeOK, AttachedInv, ForwardInv, ExecInv
<1>6. QED
    BY <1>3, <1>4, <1>5 DEF IInv

\* A step of the attached session.
Attached ==
    \/ NewSession \/ MakeRaw \/ getTermSize \/ RequestPty
    \/ Start \/ Wait \/ Drained \/ Cleanup

\* What it leaves alone, and where it goes.
LEMMA AttachedFrame ==
    ASSUME IInv, Attached
    PROVE  /\ UNCHANGED <<given, tty, resizes, forwardVars, execVars>>
           /\ TypeOK' /\ ForwardInv' /\ ExecInv'
<1> USE DEF given, shellVars, forwardVars, execVars, Goto, Return
<1>1. UNCHANGED <<given, tty, resizes, forwardVars, execVars>> /\ mode \in {"shell", "process"}
    BY DEF IInv, AttachedInv, Attached, NewSession, MakeRaw, getTermSize, RequestPty, Start, Wait,
           Drained, Cleanup
<1>2. \/ main' \in {"raw", "size", "pty", "start", "wait", "drain", "cleanup"} /\ result' = result
      \/ main' = "returned" /\ result' \in {"ok", "error"}
    BY DEF Attached, NewSession, MakeRaw, getTermSize, RequestPty, Start, Wait, Drained, Cleanup
<1>3. main \in {"session", "raw", "size", "pty", "start", "wait", "drain", "cleanup"}
    BY DEF Attached, NewSession, MakeRaw, getTermSize, RequestPty, Start, Wait, Drained, Cleanup
<1>4. /\ cleanup' \in {"none", "close", "restore"}
      /\ remote' \in {"none", "running", "exited", "failed"}
      /\ win' \in {"none", "first", "loop", "sendErr", "sendNil", "closed"}
      /\ raw' \in BOOLEAN /\ session' \in BOOLEAN /\ cancelled' \in BOOLEAN
  <2>1. CASE NewSession \/ MakeRaw
      BY <2>1 DEF IInv, TypeOK, NewSession, MakeRaw
  <2>2. CASE getTermSize \/ RequestPty \/ Drained
      BY <2>2 DEF IInv, TypeOK, getTermSize, RequestPty, Drained
  <2>3. CASE Start
      BY <2>3 DEF IInv, TypeOK, Start
  <2>4. CASE Wait
      BY <2>4 DEF IInv, TypeOK, Wait
  <2>5. CASE Cleanup
      BY <2>5 DEF IInv, TypeOK, Cleanup
  <2>6. QED
      BY <2>1, <2>2, <2>3, <2>4, <2>5 DEF Attached
<1>5. TypeOK'
    BY <1>1, <1>2, <1>3, <1>4 DEF IInv, TypeOK, Places
<1>6. ForwardInv' /\ ExecInv'
    BY <1>1, <1>2 DEF IInv, ForwardInv, ExecInv
<1>7. QED
    BY <1>1, <1>5, <1>6

\* Opening, running and closing the session.
LEMMA AttachOK == IInv /\ Attached => IInv'
<1> SUFFICES ASSUME IInv, Attached PROVE AttachedInv' /\ LeavesNothing'
    BY AttachedFrame DEF IInv
<1> USE DEF given, shellVars, forwardVars, execVars, Goto, Return
<1>1. UNCHANGED <<given, tty, resizes, forwardVars, execVars>> /\ TypeOK'
    BY AttachedFrame
<1>2. CASE NewSession
    BY <1>1, <1>2 DEF IInv, TypeOK, AttachedInv, LeavesNothing, NewSession
<1>3. CASE MakeRaw
    BY <1>1, <1>3 DEF IInv, TypeOK, AttachedInv, LeavesNothing, MakeRaw
<1>4. CASE getTermSize
    BY <1>1, <1>4 DEF IInv, TypeOK, AttachedInv, LeavesNothing, getTermSize
<1>5. CASE RequestPty
    BY <1>1, <1>5 DEF IInv, TypeOK, AttachedInv, LeavesNothing, RequestPty
<1>6. CASE Start
    BY <1>1, <1>6 DEF IInv, TypeOK, AttachedInv, LeavesNothing, Start
<1>7. CASE Wait
    BY <1>1, <1>7 DEF IInv, TypeOK, AttachedInv, LeavesNothing, Wait
<1>8. CASE Drained
    BY <1>1, <1>8 DEF IInv, TypeOK, AttachedInv, LeavesNothing, Drained
<1>9. CASE Cleanup
    BY <1>1, <1>9 DEF IInv, TypeOK, AttachedInv, LeavesNothing, Cleanup
<1>10. QED
    BY <1>2, <1>3, <1>4, <1>5, <1>6, <1>7, <1>8, <1>9 DEF Attached

\* The window handler moves between its own places until it is closed.
LEMMA WindowOK == IInv /\ (Window \/ CtxDone) => IInv'
    BY DEF IInv, TypeOK, AttachedInv, LeavesNothing, ForwardInv, ExecInv, Window, CtxDone,
           FirstSize, Tick, SendErr, Handler, given, forwardVars, execVars

-----------------------------------------------------------------------------
(***************************************************************************)
(* The forwarded port.                                                     *)
(***************************************************************************)
\* A connection of which some fields have been set is a connection.
LEMMA ConnTyped ==
    ASSUME NEW r \in ConnType
    PROVE  /\ \A p \in {"arrived", "accepted", "dialing", "abandoned"} : [r EXCEPT !.st = p] \in ConnType
           /\ [r EXCEPT !.st = "open", !.send = "copy", !.receive = "copy"] \in ConnType
           /\ [r EXCEPT !.send = "signal"] \in ConnType
           /\ [r EXCEPT !.receive = "signal"] \in ConnType
           /\ [r EXCEPT !.st = "half", !.send = "done"] \in ConnType
           /\ [r EXCEPT !.st = "ended", !.receive = "done", !.peer = FALSE] \in ConnType
           /\ [r EXCEPT !.local = FALSE] \in ConnType
           /\ [r EXCEPT !.peer = FALSE] \in ConnType
    BY DEF ConnType

\* The loop of ForwardPort and the goroutine that accepts.
LEMMA AcceptOK ==
    ASSUME IInv, Spawn \/ Accept \/ AcceptFails \/ SelectConn \/ SelectTimeout
    PROVE  IInv'
<1> USE DEF given, shellVars, forwardVars, execVars, Goto, Return
<1>1. mode = "forward" /\ UNCHANGED <<given, tty, shellVars, execVars>>
    BY DEF IInv, AttachedInv, ForwardInv, Spawn, Accept, AcceptFails, SelectConn, SelectTimeout
<1>2. TypeOK'
  <2>1. CASE Spawn \/ SelectTimeout
      BY <2>1 DEF IInv, TypeOK, Places, Spawn, SelectTimeout
  <2>2. CASE Accept
    <3>1. PICK c \in Conns : conn' = [conn EXCEPT ![c].st = "accepted"] /\ queue' = <<c>>
        BY <2>2 DEF Accept
    <3>2. conn' \in [Conns -> ConnType]
        BY <3>1 DEF IInv, TypeOK, ConnType
    <3>3. queue' \in Seq(Conns \cup {NoConn}) /\ Len(queue') <= 1
        BY <3>1
    <3>4. QED
        BY <1>1, <2>2, <3>2, <3>3 DEF IInv, TypeOK, Places, Accept
  <2>3. CASE AcceptFails
      BY <2>3 DEF IInv, TypeOK, Places, AcceptFails
  <2>4. CASE SelectConn
    <3>1. queue[1] \in Conns \cup {NoConn}
        BY <2>4 DEF IInv, TypeOK, SelectConn
    <3>2. conn' \in [Conns -> ConnType]
      <4>1. CASE queue[1] = NoConn
          BY <2>4, <4>1 DEF IInv, TypeOK, SelectConn
      <4>2. CASE queue[1] \in Conns
        <5>1. conn \in [Conns -> ConnType] /\ [conn[queue[1]] EXCEPT !.st = "dialing"] \in ConnType
            BY <4>2, ConnTyped DEF IInv, TypeOK
        <5>2. conn' = [conn EXCEPT ![queue[1]] = [conn[queue[1]] EXCEPT !.st = "dialing"]]
            BY <2>4, <4>2, ConnsAssumption DEF SelectConn
        <5>3. QED
            BY <5>1, <5>2
      <4>3. QED
          BY <3>1, <4>1, <4>2
    <3>3. QED
        BY <1>1, <2>4, <3>2 DEF IInv, TypeOK, Places, SelectConn
  <2>5. QED
      BY <2>1, <2>2, <2>3, <2>4
<1>3. AttachedInv' /\ LeavesNothing' /\ ForwardInv' /\ ExecInv'
    BY <1>1 DEF IInv, TypeOK, AttachedInv, LeavesNothing, ForwardInv, ExecInv,
                Spawn, Accept, AcceptFails, SelectConn, SelectTimeout
<1>4. QED
    BY <1>2, <1>3 DEF IInv

\* The goroutines of one connection, and its two ends.
LEMMA ConnOK ==
    ASSUME IInv, NEW c \in Conns,
           Dial(c) \/ CopyEnds(c) \/ CopyFails(c) \/ Join(c) \/ Arrive(c) \/ Hangup(c)
    PROVE  IInv'
<1> USE DEF given, shellVars, forwardVars, execVars
<1>1. UNCHANGED <<given, tty, main, result, shellVars, acceptor, queue, execVars>>
    BY DEF Dial, CopyEnds, CopyFails, Join, Arrive, Hangup, Set, Outside
<1>2. conn' \in [Conns -> ConnType]
  <2>1. conn \in [Conns -> ConnType] /\ conn[c] \in ConnType
      BY DEF IInv, TypeOK
  <2>2. SUFFICES \E r \in ConnType : conn' = [conn EXCEPT ![c] = r]
      BY <2>1
  <2>3. CASE Dial(c)
      BY <2>1, <2>3, ConnTyped DEF Dial, Set
  <2>4. CASE CopyEnds(c) \/ CopyFails(c)
      BY <2>1, <2>4, ConnTyped DEF CopyEnds, CopyFails, Set
  <2>5. CASE Join(c)
      BY <2>1, <2>5, ConnTyped DEF Join, Set
  <2>6. CASE Arrive(c)
      BY <2>1, <2>6, ConnTyped DEF Arrive
  <2>7. CASE Hangup(c)
      BY <2>1, <2>7, ConnTyped DEF Hangup
  <2>8. QED
      BY <2>3, <2>4, <2>5, <2>6, <2>7
<1>3. TypeOK'
    BY <1>1, <1>2 DEF IInv, TypeOK
<1>4. AttachedInv' /\ LeavesNothing' /\ ForwardInv' /\ ExecInv'
    BY <1>1 DEF IInv, AttachedInv, LeavesNothing, ForwardInv, ExecInv
<1>5. QED
    BY <1>3, <1>4 DEF IInv

-----------------------------------------------------------------------------
(***************************************************************************)
(* The list of commands.                                                   *)
(***************************************************************************)
\* The four ways a command can go, and what each adds to the errors.
LEMMA ExecutedOK ==
    ASSUME IInv, main = "execute", cmds' = Tail(cmds), cmds # <<>>, UNCHANGED <<shellVars, forwardVars>>,
           NEW outcome \in {"ok", "fatal", "recovered", "failed"}, NEW errors \in Nat,
           NEW pc \in {"execute", "report"}, Executed(outcome, errors, pc),
           errors = 0 <=> outcome = "ok", outcome = "fatal" <=> pc = "report"
    PROVE  IInv'
<1> USE DEF given, shellVars, forwardVars, execVars, Executed, Goto
<1>1. /\ log' \in Seq({"ok", "fatal", "recovered", "failed"})
      /\ Len(log') = Len(log) + 1
      /\ \A i \in DOMAIN log' : log'[i] = IF i = Len(log') THEN outcome ELSE log[i]
      /\ \A i \in DOMAIN log' : i # Len(log') => i \in DOMAIN log
    BY DEF IInv, TypeOK
<1>2. errs' \in Nat /\ errs' = errs + errors /\ errs \in Nat
    BY DEF IInv, TypeOK
<1>3. cmds' \in Seq(Commands)
    BY DEF IInv, TypeOK
<1>4. TypeOK'
    BY <1>1, <1>2, <1>3 DEF IInv, TypeOK, Places
<1>5. AttachedInv' /\ LeavesNothing' /\ ForwardInv'
    BY DEF IInv, TypeOK, AttachedInv, LeavesNothing, ForwardInv
<1>6. ExecInv'
  <2>1. mode' = "commands" /\ result' = "none"
      BY DEF IInv, TypeOK, AttachedInv
  <2>2. errs' = 0 => \A i \in DOMAIN log' : log'[i] = "ok"
      BY <1>1, <1>2 DEF IInv, ExecInv
  <2>3. \A i \in DOMAIN log' : log'[i] = "fatal" => i = Len(log') /\ main' = "report"
      BY <1>1 DEF IInv, ExecInv
  <2>4. main' = "report" => errs' # 0
      BY <1>2
  <2>5. QED
      BY <2>1, <2>2, <2>3, <2>4 DEF ExecInv
<1>7. QED
    BY <1>4, <1>5, <1>6 DEF IInv

\* A step of RunCmds.
LEMMA CommandsOK == IInv /\ (execute \/ RunCmds) => IInv'
<1>1. ASSUME IInv, execute PROVE IInv'
  <2>1. /\ main = "execute" /\ cmds' = Tail(cmds) /\ cmds # <<>>
        /\ UNCHANGED <<shellVars, forwardVars>>
        /\ \/ Executed("ok", 0, "execute")
           \/ Executed("fatal", 1, "report")
           \/ Executed("recovered", 1, "execute")
           \/ Executed("failed", 3, "execute")
      BY <1>1 DEF execute
  <2>2. QED
      BY <1>1, <2>1, ExecutedOK
<1>2. ASSUME IInv, RunCmds PROVE IInv'
    BY <1>2 DEF IInv, TypeOK, AttachedInv, LeavesNothing, ForwardInv, ExecInv, RunCmds, Places,
                Return, given, shellVars, forwardVars, execVars
<1>3. QED
    BY <1>1, <1>2

-----------------------------------------------------------------------------
(***************************************************************************)
(* The outside, and the results.                                           *)
(***************************************************************************)
\* The remote program, the size of the window and the terminal.
LEMMA OutsideOK == IInv /\ (RemoteEnds \/ Resize \/ TerminalFails) => IInv'
<1> USE DEF IInv, TypeOK, AttachedInv, LeavesNothing, ForwardInv, ExecInv, Outside, given, execVars
<1>1. ASSUME IInv, RemoteEnds PROVE IInv'
  <2>1. main = "wait" /\ remote' \in {"exited", "failed"}
      BY <1>1 DEF RemoteEnds
  <2>2. QED
      BY <1>1, <2>1 DEF RemoteEnds
<1>2. ASSUME IInv, Resize PROVE IInv'
  <2>1. resizes' \in [n : Nat, seen : Nat]
      BY <1>2 DEF Resize
  <2>2. QED
      BY <1>2, <2>1 DEF Resize
<1>3. ASSUME IInv, TerminalFails PROVE IInv'
  <2>1. ~ tty' /\ tty' \in BOOLEAN /\ UNCHANGED <<resizes, remote, conn>> /\ Outside
      BY <1>3 DEF TerminalFails
  <2>2. TypeOK'
      BY <1>3, <2>1
  <2>3. AttachedInv' /\ LeavesNothing'
      BY <1>3, <2>1
  <2>4. ForwardInv' /\ ExecInv'
      BY <1>3, <2>1
  <2>5. QED
      BY <2>2, <2>3, <2>4
<1>4. QED
    BY <1>1, <1>2, <1>3

\* Every step preserves the invariant.
LEMMA NextOK == IInv /\ [Next]_vars => IInv'
<1>1. ASSUME IInv, UNCHANGED vars PROVE IInv'
    BY <1>1 DEF vars, IInv, TypeOK, AttachedInv, LeavesNothing, ForwardInv, ExecInv,
                given, shellVars, forwardVars, execVars
<1>2. QED
    BY <1>1, ConnectOK, AttachOK, WindowOK, AcceptOK, ConnOK, CommandsOK, OutsideOK DEF Next, Main, Attached

\* Every variable keeps its type, for any set of connections and any bounds.
THEOREM TypeCorrect == Spec => []TypeOK
<1>1. IInv => TypeOK
    BY DEF IInv
<1>2. QED
    BY InitOK, NextOK, <1>1, PTL DEF Spec

\* An attached session that has returned leaves the terminal as it was, the
\* session closed and, but for a process that failed, no window handler: the
\* deferred calls and the drain of errChan suffice on every path out.
THEOREM NothingLeft == Spec => []LeavesNothing
<1>1. IInv => LeavesNothing
    BY DEF IInv
<1>2. QED
    BY InitOK, NextOK, <1>1, PTL DEF Spec

\* However long the list of commands, RunCmds returns no error only when every
\* one was executed and worked, and a command that stops the list is the last.
THEOREM ErrorsKept == Spec => []NoErrorLost
<1>1. IInv => NoErrorLost
    BY DEF IInv, TypeOK, ExecInv, NoErrorLost
<1>2. QED
    BY InitOK, NextOK, <1>1, PTL DEF Spec

\* The send on localConn finds the channel empty, for any number of
\* connections: the goroutine that accepts is never left blocked on it.
THEOREM AcceptorNeverBlocks == Spec => []SendNeverWaits
<1>1. IInv => SendNeverWaits
    BY DEF IInv, ForwardInv, SendNeverWaits
<1>2. QED
    BY InitOK, NextOK, <1>1, PTL DEF Spec

=============================================================================
