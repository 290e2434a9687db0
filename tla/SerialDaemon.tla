---------------------------- MODULE SerialDaemon ----------------------------
(***************************************************************************)
(* Uploads from the host: tools/upload/transfer.py (the clients) and       *)
(* tools/upload/serial_daemon.py, which holds the USB serial port open     *)
(* because opening it resets the board.                                    *)
(*                                                                         *)
(* Clients find the daemon by the path of a Unix socket and start one when *)
(* nothing listens there.  Daemons exclude each other by a lock on a file  *)
(* that the kernel drops when the process is gone.  The adapter may be     *)
(* unplugged and replugged, and processes may be interrupted or killed, at *)
(* any moment.  An action is the code up to the next system call whose     *)
(* result another process can change.                                      *)
(***************************************************************************)
EXTENDS Integers, Sequences, SequencesExt

CONSTANTS
  Clients,      \* invocations of transfer.py that may run at the same time
  Daemons,      \* serial_daemon.py processes that may exist at the same time
  Nobody,
  MaxPlug,      \* bound: how often the adapter is plugged in
  Kills,        \* whether processes get signals
  Ops           \* what users run, see AllOps

ASSUME NobodyAssumption == Nobody \notin Clients \cup Daemons
ASSUME PlugAssumption == MaxPlug \in Nat \ {0} /\ Kills \in BOOLEAN

\* Uploads after a reset and without one, the two daemon commands, and "other": a
\* send that the daemon cannot serve, for another protocol version or another port.
AllOps == {"send", "noreset", "stop", "status", "other"}
ASSUME OpsAssumption == Ops \subseteq AllOps

VARIABLES
  proc,         \* where each daemon process is; "none" when there is no process
  lock,         \* who holds the flock on the socket path + ".lock"
  path,         \* the daemon whose socket the socket path names, or Nobody
  backlog,      \* connections of each daemon's listener that wait for accept
  conn,         \* the client whose request the daemon handles, or Nobody
  reply,        \* what the daemon is about to answer it
  stopping,     \* Daemon.stopping
  port,         \* the adapter that PortHolder.serial is open on, 0 for none
  identity,     \* PortHolder._identity: the adapter as it was identified
  fresh,        \* PortHolder.fresh
  adapter,      \* the adapter that is plugged in, 0 for none
  plugs,        \* how often one was plugged in
  client,       \* where each client is
  op,           \* what each client wants, in AllOps
  answer,       \* what each client was told
  written,      \* history: how often each client's payload was written to the port
  warned        \* history: since the port was last opened a --noreset upload was
                \* refused, or a reset upload got through

daemonVars == <<proc, lock, path, conn, reply, stopping, port, identity, fresh>>
clientVars == <<client, op, answer>>
adapterVars == <<adapter, plugs>>
vars == <<daemonVars, backlog, clientVars, adapterVars, written, warned>>

\* The steps of main and serve.  A daemon listens from "loop" until "close_listener".
Starting == {"started", "locked", "unlinked", "bound"}
Handling == {"accepted", "identified", "held", "sending", "reply"}
Replies == {"ok", "reopened", "disconnected", "error", "done"}
Serving == {"loop", "polled"} \cup Handling
Closing == {"close_port", "close_listener", "unlink", "exit"}

Listening(d) == proc[d] \in Serving \cup {"close_port", "close_listener"}

TypeOK ==
  /\ proc \in [Daemons -> {"none"} \cup Starting \cup Serving \cup Closing]
  /\ lock \in Daemons \cup {Nobody}
  /\ path \in Daemons \cup {Nobody}
  /\ backlog \in [Daemons -> Seq(Clients)]
  /\ conn \in [Daemons -> Clients \cup {Nobody}]
  /\ reply \in [Daemons -> Replies]
  /\ stopping \in [Daemons -> BOOLEAN]
  /\ port \in [Daemons -> 0 .. MaxPlug]
  /\ identity \in [Daemons -> 0 .. MaxPlug]
  /\ fresh \in [Daemons -> BOOLEAN]
  /\ adapter \in 0 .. MaxPlug
  /\ plugs \in 0 .. MaxPlug
  /\ client \in [Clients -> {"idle", "connect", "spawn", "retry", "waiting", "unlinking", "gone"}]
  /\ op \in [Clients -> AllOps]
  /\ answer \in [Clients -> Replies \cup {"none", "lost", "not_running", "not_started"}]
  /\ written \in [Clients -> 0 .. 1]
  /\ warned \in BOOLEAN

Init ==
  /\ proc = [d \in Daemons |-> "none"]
  /\ lock = Nobody
  /\ path = Nobody
  /\ backlog = [d \in Daemons |-> <<>>]
  /\ conn = [d \in Daemons |-> Nobody]
  /\ reply = [d \in Daemons |-> "done"]
  /\ stopping = [d \in Daemons |-> FALSE]
  /\ port = [d \in Daemons |-> 0]
  /\ identity = [d \in Daemons |-> 0]
  /\ fresh = [d \in Daemons |-> FALSE]
  /\ adapter \in {0, 1}
  /\ plugs = adapter
  /\ client = [c \in Clients |-> "idle"]
  /\ op = [c \in Clients |-> "send"]
  /\ answer = [c \in Clients |-> "none"]
  /\ written = [c \in Clients |-> 0]
  /\ warned = TRUE

-----------------------------------------------------------------------------
(***************************************************************************)
(* transfer.py                                                             *)
(***************************************************************************)

\* The user runs the command.
Run(c) ==
  /\ client[c] = "idle"
  /\ client' = [client EXCEPT ![c] = "connect"]
  /\ op' \in {[op EXCEPT ![c] = o] : o \in Ops}
  /\ answer' = [answer EXCEPT ![c] = "none"]
  /\ written' = [written EXCEPT ![c] = 0]
  /\ UNCHANGED <<daemonVars, backlog, adapterVars, warned>>

Finish(c, a) ==
  /\ client' = [client EXCEPT ![c] = "idle"]
  /\ answer' = [answer EXCEPT ![c] = a]
  /\ op' = [op EXCEPT ![c] = "send"]

\* connect succeeds when the path names a socket on which a process listens.
Reachable == path # Nobody /\ Listening(path)

Connect(c) ==
  /\ client[c] \in {"connect", "retry"}
  /\ Reachable
  /\ backlog' = [backlog EXCEPT ![path] = Append(@, c)]
  /\ client' = [client EXCEPT ![c] = "waiting"]
  /\ UNCHANGED <<daemonVars, adapterVars, op, answer, written, warned>>

\* NotRunning: a send starts a daemon and tries again, another command gives up.
ConnectRefused(c) ==
  /\ client[c] = "connect"
  /\ ~ Reachable
  /\ IF op[c] \in {"stop", "status"}
       THEN Finish(c, "not_running")
       ELSE client' = [client EXCEPT ![c] = "spawn"] /\ UNCHANGED <<op, answer>>
  /\ UNCHANGED <<daemonVars, backlog, adapterVars, written, warned>>

\* spawn_daemon.  (The bound Daemons may make a client wait for a process to end.)
SpawnDaemon(c, d) ==
  /\ client[c] = "spawn"
  /\ proc[d] = "none"
  /\ client' = [client EXCEPT ![c] = "retry"]
  /\ proc' = [proc EXCEPT ![d] = "started"]
  /\ UNCHANGED <<lock, path, conn, reply, stopping, port, identity, fresh, backlog, op, answer,
                 adapterVars, written, warned>>

\* AUTOSTART_TIMEOUT is long compared with a daemon's start and its exit: it expires
\* only when no daemon is about to listen or about to be gone.
GiveUp(c) ==
  /\ client[c] = "retry"
  /\ ~ Reachable
  /\ \A d \in Daemons : proc[d] \notin Starting \cup Closing
  /\ Finish(c, "not_started")
  /\ UNCHANGED <<daemonVars, backlog, adapterVars, written, warned>>

\* daemon_command: stop returns when the path is gone, or at its deadline, which
\* is long compared with a daemon's exit.
StopSeen(c) ==
  /\ client[c] = "unlinking"
  /\ path # Nobody => ~ stopping[path]
  /\ Finish(c, "done")
  /\ UNCHANGED <<daemonVars, backlog, adapterVars, written, warned>>

\* The user interrupts a command that waits for its answer.  Its connection, with
\* the request in it, stays with the daemon.
InterruptClient(c) ==
  /\ client[c] = "waiting"
  /\ client' = [client EXCEPT ![c] = "gone"]
  /\ answer' = [answer EXCEPT ![c] = "lost"]
  /\ UNCHANGED <<daemonVars, backlog, op, adapterVars, written, warned>>

\* The connections of cs break without an answer.
Break(cs) ==
  /\ client' = [c \in Clients |-> IF c \in cs THEN "idle" ELSE client[c]]
  /\ answer' = [c \in Clients |-> IF c \in cs THEN "lost" ELSE answer[c]]
  /\ op' = [c \in Clients |-> IF c \in cs THEN "send" ELSE op[c]]

-----------------------------------------------------------------------------
(***************************************************************************)
(* serial_daemon.py: main                                                  *)
(***************************************************************************)

Goto(d, l) == proc' = [proc EXCEPT ![d] = l]

\* Mutant: the daemon does not look at whether it got the lock.
TakeLockAlways(d) ==
  /\ proc[d] = "started"
  /\ Goto(d, "locked")
  /\ lock' = d
  /\ UNCHANGED <<path, conn, reply, stopping, port, identity, fresh, backlog, clientVars, adapterVars,
                 written, warned>>

\* Without the lock the process exits at once.
TakeLock(d) ==
  /\ proc[d] = "started"
  /\ IF lock = Nobody
       THEN Goto(d, "locked") /\ lock' = d
       ELSE Goto(d, "none") /\ UNCHANGED lock
  /\ UNCHANGED <<path, conn, reply, stopping, port, identity, fresh, backlog, clientVars, adapterVars,
                 written, warned>>

\* Whatever is at the socket path is stale.
UnlinkStale(d) ==
  /\ proc[d] = "locked"
  /\ path' = Nobody
  /\ Goto(d, "unlinked")
  /\ UNCHANGED <<lock, conn, reply, stopping, port, identity, fresh, backlog, clientVars, adapterVars,
                 written, warned>>

Bind(d) ==
  /\ proc[d] = "unlinked"
  /\ path' = d
  /\ Goto(d, "bound")
  /\ UNCHANGED <<lock, conn, reply, stopping, port, identity, fresh, backlog, clientVars, adapterVars,
                 written, warned>>

\* listen, then a new Daemon and PortHolder.
Listen(d) ==
  /\ proc[d] = "bound"
  /\ Goto(d, "loop")
  /\ stopping' = [stopping EXCEPT ![d] = FALSE]
  /\ UNCHANGED <<lock, path, conn, reply, port, identity, fresh, backlog, clientVars, adapterVars,
                 written, warned>>

-----------------------------------------------------------------------------
(***************************************************************************)
(* serial_daemon.py: serve                                                 *)
(***************************************************************************)

\* Mutant: any adapter at the device's path will do.
PresentAtPath(d) == adapter # 0

\* The device is still the one that was opened.
Present(d) == adapter # 0 /\ adapter = identity[d]

\* The loop's test, then poll.  A poll that finds the adapter gone ends the loop
\* only after one more select.
Poll(d) ==
  /\ proc[d] = "loop"
  /\ IF stopping[d]
       THEN Goto(d, "close_port") /\ UNCHANGED stopping
       ELSE /\ Goto(d, "polled")
            /\ stopping' = [stopping EXCEPT ![d] = port[d] # 0 /\ ~ Present(d)]
  /\ UNCHANGED <<lock, path, conn, reply, port, identity, fresh, backlog, clientVars, adapterVars,
                 written, warned>>

SelectTimeout(d) ==
  /\ proc[d] = "polled"
  /\ backlog[d] = <<>>
  /\ Goto(d, "loop")
  /\ UNCHANGED <<lock, path, conn, reply, stopping, port, identity, fresh, backlog, clientVars, adapterVars,
                 written, warned>>

Accept(d) ==
  /\ proc[d] = "polled"
  /\ backlog[d] # <<>>
  /\ conn' = [conn EXCEPT ![d] = Head(backlog[d])]
  /\ backlog' = [backlog EXCEPT ![d] = Tail(@)]
  /\ Goto(d, "accepted")
  /\ UNCHANGED <<lock, path, reply, stopping, port, identity, fresh, clientVars, adapterVars, written, warned>>

\* Mutant: the connection of a bad request is left open.
BadRequestLeftOpen(d) ==
  /\ proc[d] = "accepted"
  /\ conn' = [conn EXCEPT ![d] = Nobody]
  /\ Goto(d, "loop")
  /\ UNCHANGED <<lock, path, reply, stopping, port, identity, fresh, backlog, clientVars, adapterVars, written, warned>>

\* handle_connection when read_message fails: the request was truncated, or the
\* client did not deliver it within CLIENT_TIMEOUT.
BadRequest(d) ==
  /\ proc[d] = "accepted"
  /\ Break({conn[d]})
  /\ conn' = [conn EXCEPT ![d] = Nobody]
  /\ Goto(d, "loop")
  /\ UNCHANGED <<lock, path, reply, stopping, port, identity, fresh, backlog, adapterVars, written, warned>>

Answer(d, a) ==
  /\ Goto(d, "reply")
  /\ reply' = [reply EXCEPT ![d] = a]

\* handle: status, stop and the checks of send that need no port.
HandleOther(d) ==
  /\ proc[d] = "accepted"
  /\ op[conn[d]] \in {"stop", "status", "other"}
  /\ Answer(d, IF op[conn[d]] = "other" THEN "error" ELSE "done")
  /\ stopping' = [stopping EXCEPT ![d] = @ \/ op[conn[d]] = "stop"]
  /\ UNCHANGED <<lock, path, conn, port, identity, fresh, backlog, clientVars, adapterVars, written, warned>>

Sends(d) == proc[d] = "accepted" /\ op[conn[d]] \in {"send", "noreset"}

\* send fails with NoDevice or OSError: the daemon stops.
Fail(d, a) ==
  /\ Answer(d, a)
  /\ stopping' = [stopping EXCEPT ![d] = TRUE]

\* hold_port, first send: PortHolder.open finds the adapter and identifies it.
FindDevice(d) ==
  /\ Sends(d)
  /\ port[d] = 0
  /\ IF adapter = 0
       THEN Fail(d, "error") /\ UNCHANGED identity
       ELSE /\ identity' = [identity EXCEPT ![d] = adapter]
            /\ Goto(d, "identified")
            /\ UNCHANGED <<reply, stopping>>
  /\ UNCHANGED <<lock, path, conn, port, fresh, backlog, clientVars, adapterVars, written, warned>>

\* Mutant: the port is not marked as fresh.
OpenPortUnmarked(d) ==
  /\ proc[d] = "identified"
  /\ adapter # 0
  /\ port' = [port EXCEPT ![d] = adapter]
  /\ warned' = FALSE
  /\ Goto(d, "held")
  /\ UNCHANGED <<lock, path, conn, reply, stopping, fresh, identity, backlog, clientVars, adapterVars, written>>

\* PortHolder.open opens what is there now, which resets the board.
OpenPort(d) ==
  /\ proc[d] = "identified"
  /\ IF adapter = 0
       THEN Fail(d, "error") /\ UNCHANGED <<port, fresh, warned>>
       ELSE /\ port' = [port EXCEPT ![d] = adapter]
            /\ fresh' = [fresh EXCEPT ![d] = TRUE]
            /\ warned' = FALSE
            /\ Goto(d, "held")
            /\ UNCHANGED <<reply, stopping>>
  /\ UNCHANGED <<lock, path, conn, identity, backlog, clientVars, adapterVars, written>>

\* hold_port, later sends.
HoldPort(d) ==
  /\ Sends(d)
  /\ port[d] # 0
  /\ IF Present(d)
       THEN Goto(d, "held") /\ UNCHANGED <<reply, stopping>>
       ELSE Fail(d, "disconnected")
  /\ UNCHANGED <<lock, path, conn, port, identity, fresh, backlog, clientVars, adapterVars, written, warned>>

\* send: the first upload after the port was opened must be a reset upload.
CheckFresh(d) ==
  /\ proc[d] = "held"
  /\ IF fresh[d] /\ op[conn[d]] = "noreset"
       THEN /\ fresh' = [fresh EXCEPT ![d] = FALSE]
            /\ warned' = TRUE
            /\ Answer(d, "reopened")
       ELSE Goto(d, "sending") /\ UNCHANGED <<reply, fresh, warned>>
  /\ UNCHANGED <<lock, path, conn, stopping, port, identity, backlog, clientVars, adapterVars, written>>

\* Mutant: a transmit that fails reports that nothing was sent.
TransmitFailsQuietly(d) ==
  /\ proc[d] = "sending"
  /\ \/ /\ port[d] = adapter
        /\ written' = [written EXCEPT ![conn[d]] = @ + 1]
        /\ warned' = (warned \/ op[conn[d]] = "send")
        /\ fresh' = [fresh EXCEPT ![d] = FALSE]
        /\ Answer(d, "ok")
        /\ UNCHANGED stopping
     \/ /\ port[d] # adapter
        /\ Fail(d, "disconnected")
        /\ \E sent \in {0, 1} : written' = [written EXCEPT ![conn[d]] = @ + sent]
        /\ UNCHANGED <<warned, fresh>>
  /\ UNCHANGED <<lock, path, conn, port, identity, backlog, clientVars, adapterVars>>

\* Mutant: a transmit that succeeded is tried again.
TransmitAgain(d) ==
  /\ proc[d] = "sending"
  /\ port[d] = adapter
  /\ written' = [written EXCEPT ![conn[d]] = @ + 1]
  /\ UNCHANGED <<daemonVars, backlog, clientVars, adapterVars, warned>>

\* transmit: a port whose adapter is gone fails, with or without the bytes sent.
Transmit(d) ==
  /\ proc[d] = "sending"
  /\ \/ /\ port[d] = adapter
        /\ written' = [written EXCEPT ![conn[d]] = @ + 1]
        /\ warned' = (warned \/ op[conn[d]] = "send")
        /\ fresh' = [fresh EXCEPT ![d] = FALSE]
        /\ Answer(d, "ok")
        /\ UNCHANGED stopping
     \/ /\ port[d] # adapter
        /\ Fail(d, "error")
        /\ \E sent \in {0, 1} : written' = [written EXCEPT ![conn[d]] = @ + sent]
        /\ UNCHANGED <<warned, fresh>>
  /\ UNCHANGED <<lock, path, conn, port, identity, backlog, clientVars, adapterVars>>

\* The reply reaches the client unless it was interrupted.
Reply(d) ==
  /\ proc[d] = "reply"
  /\ LET c == conn[d] IN
       \/ client[c] = "gone" /\ Break({c})
       \/ client[c] = "waiting" /\ op[c] # "stop" /\ Finish(c, reply[d])
       \/ /\ client[c] = "waiting" /\ op[c] = "stop"
          /\ client' = [client EXCEPT ![c] = "unlinking"]
          /\ UNCHANGED <<op, answer>>
  /\ conn' = [conn EXCEPT ![d] = Nobody]
  /\ reply' = [reply EXCEPT ![d] = "done"]
  /\ Goto(d, "loop")
  /\ UNCHANGED <<lock, path, stopping, port, identity, fresh, backlog, adapterVars, written, warned>>

-----------------------------------------------------------------------------
(***************************************************************************)
(* serial_daemon.py: the end of serve, and of the process                  *)
(***************************************************************************)

ClosePort(d) ==
  /\ proc[d] = "close_port"
  /\ port' = [port EXCEPT ![d] = 0]
  /\ identity' = [identity EXCEPT ![d] = 0]
  /\ Goto(d, "close_listener")
  /\ UNCHANGED <<lock, path, conn, reply, stopping, fresh, backlog, clientVars, adapterVars, written, warned>>

\* Mutant: the lock is given up together with the listener, before the path is removed.
CloseListenerAndLock(d) ==
  /\ proc[d] = "close_listener"
  /\ Break(ToSet(backlog[d]))
  /\ backlog' = [backlog EXCEPT ![d] = <<>>]
  /\ lock' = Nobody
  /\ Goto(d, "unlink")
  /\ UNCHANGED <<path, conn, reply, stopping, port, identity, fresh, adapterVars, written, warned>>

\* Closing the listener resets the connections that nobody accepted.
CloseListener(d) ==
  /\ proc[d] = "close_listener"
  /\ Break(ToSet(backlog[d]))
  /\ backlog' = [backlog EXCEPT ![d] = <<>>]
  /\ Goto(d, "unlink")
  /\ UNCHANGED <<lock, path, conn, reply, stopping, port, identity, fresh, adapterVars, written, warned>>

Unlink(d) ==
  /\ proc[d] = "unlink"
  /\ path' = Nobody
  /\ Goto(d, "exit")
  /\ UNCHANGED <<lock, conn, reply, stopping, port, identity, fresh, backlog, clientVars, adapterVars,
                 written, warned>>

\* The kernel closes what the process had open, its lock included.
ProcessEnds(d) ==
  /\ Goto(d, "none")
  /\ lock' = IF lock = d THEN Nobody ELSE lock
  /\ Break(ToSet(backlog[d]) \cup ({conn[d]} \ {Nobody}))
  /\ backlog' = [backlog EXCEPT ![d] = <<>>]
  /\ conn' = [conn EXCEPT ![d] = Nobody]
  /\ reply' = [reply EXCEPT ![d] = "done"]
  /\ stopping' = [stopping EXCEPT ![d] = FALSE]
  /\ port' = [port EXCEPT ![d] = 0]
  /\ identity' = [identity EXCEPT ![d] = 0]
  /\ fresh' = [fresh EXCEPT ![d] = FALSE]
  /\ UNCHANGED <<path, adapterVars, written, warned>>

Exit(d) == proc[d] = "exit" /\ ProcessEnds(d)

\* SIGKILL, or SIGTERM where SystemExit does not pass through serve.
Kill(d) == Kills /\ proc[d] # "none" /\ ProcessEnds(d)

\* SIGTERM raises SystemExit in serve: the connection is closed, then the rest.
Terminate(d) ==
  /\ Kills
  /\ proc[d] \in Serving
  /\ Break({conn[d]} \ {Nobody})
  /\ conn' = [conn EXCEPT ![d] = Nobody]
  /\ reply' = [reply EXCEPT ![d] = "done"]
  /\ stopping' = [stopping EXCEPT ![d] = TRUE]
  /\ Goto(d, "close_port")
  /\ UNCHANGED <<lock, path, port, identity, fresh, backlog, adapterVars, written, warned>>

-----------------------------------------------------------------------------
(***************************************************************************)
(* The adapter.  A replugged adapter has a new identity.                   *)
(***************************************************************************)

Unplug ==
  /\ adapter # 0
  /\ adapter' = 0
  /\ UNCHANGED <<daemonVars, backlog, clientVars, plugs, written, warned>>

Plug ==
  /\ adapter = 0
  /\ plugs < MaxPlug
  /\ plugs' = plugs + 1
  /\ adapter' = plugs + 1
  /\ UNCHANGED <<daemonVars, backlog, clientVars, written, warned>>

-----------------------------------------------------------------------------
ClientStep(c) ==
  \/ Connect(c) \/ ConnectRefused(c) \/ GiveUp(c) \/ StopSeen(c)
  \/ \E d \in Daemons : SpawnDaemon(c, d)

DaemonStep(d) ==
  \/ TakeLock(d) \/ UnlinkStale(d) \/ Bind(d) \/ Listen(d)
  \/ Poll(d) \/ SelectTimeout(d) \/ Accept(d) \/ BadRequest(d) \/ HandleOther(d)
  \/ FindDevice(d) \/ OpenPort(d) \/ HoldPort(d) \/ CheckFresh(d) \/ Transmit(d) \/ Reply(d)
  \/ ClosePort(d) \/ CloseListener(d) \/ Unlink(d) \/ Exit(d)

Next ==
  \/ \E c \in Clients : Run(c) \/ InterruptClient(c) \/ ClientStep(c)
  \/ \E d \in Daemons : DaemonStep(d) \/ Kill(d) \/ Terminate(d)
  \/ Unplug \/ Plug

\* Processes that can run do.  A client that waits for a daemon polls until its
\* deadline, so a chance that comes again and again is taken: strong fairness.
Fairness ==
  /\ \A c \in Clients : SF_vars(ClientStep(c))
  /\ \A d \in Daemons : WF_vars(DaemonStep(d))

Spec == Init /\ [][Next]_vars /\ Fairness

-----------------------------------------------------------------------------
(***************************************************************************)
(* Properties                                                              *)
(***************************************************************************)

\* The port is never open in two daemons: a second open would reset the board.
OnePortHolder ==
  \A d, e \in Daemons : port[d] # 0 /\ port[e] # 0 => d = e

\* A daemon that serves is the one that clients find: no daemon that starts, stops
\* or died left behind or took away a path that is not its own.
ServingIsReachable ==
  \A d \in Daemons : proc[d] \in Serving => path = d /\ lock = d

\* What a command reports is what happened to the payload, whatever became of the
\* daemon and the adapter meanwhile: "ok" means that it was written, and the
\* refusals that say that nothing was sent are right.
AnswersAreTrue ==
  \A c \in Clients :
    /\ answer[c] = "ok" => written[c] = 1
    /\ answer[c] \in {"reopened", "disconnected", "not_started", "not_running", "done"} => written[c] = 0

\* A --noreset payload never goes to a board that opening the port has just reset,
\* unless an upload was refused for it or a reset upload went through since.
NoSurpriseReset ==
  [][\A c \in Clients :
       written'[c] > written[c] /\ op[c] = "noreset" => warned]_vars

\* Every command ends, however daemons start, fail and die.
EveryCommandEnds ==
  \A c \in Clients :
    client[c] \notin {"idle", "gone"} ~> client[c] \in {"idle", "gone"}

\* A daemon whose adapter is gone, replugged or not, exits.
UnpluggedDaemonExits ==
  \A d \in Daemons :
    port[d] # 0 /\ port[d] # adapter ~> proc[d] = "none"

\* serial_daemon.py:7 and tools/README.md:12: a daemon whose adapter is unplugged
\* exits, and "the next upload starts a new daemon".  Without signals and stop
\* commands an upload should then not give up while an adapter is there.
NextUploadStartsDaemon ==
  [][\A c \in Clients : client[c] = "retry" /\ answer'[c] = "not_started" => adapter = 0]_vars

=============================================================================
