------------------------- MODULE SerialDaemonProofs -------------------------
(***************************************************************************)
(* The serial daemons of SerialDaemon.tla, for any number of clients and   *)
(* daemons and any number of replugs: the lock makes one daemon the owner  *)
(* of the serial port and of the socket path.                              *)
(***************************************************************************)
EXTENDS SerialDaemon, TLAPS

\* From the moment it took the lock a process is its owner; the path is its own
\* from bind to unlink; and the port is open only while it serves or closes it.
Owner(d) == proc[d] \notin {"none", "started"} => lock = d
OwnPath(d) == proc[d] \in {"bound", "close_port", "close_listener", "unlink"} \cup Serving => path = d
OpenPortIsServed(d) == port[d] # 0 => proc[d] \in Serving \cup {"close_port"}

DaemonInv ==
  /\ proc \in [Daemons -> {"none"} \cup Starting \cup Serving \cup Closing]
  /\ port \in [Daemons -> Int]
  /\ adapter \in Int /\ plugs \in Int
  /\ \A d \in Daemons : Owner(d) /\ OwnPath(d) /\ OpenPortIsServed(d)

USE DEF Starting, Serving, Handling, Closing

LEMMA DaemonInvInit == Init => DaemonInv
BY DEF Init, DaemonInv, Owner, OwnPath, OpenPortIsServed

\* What other processes and the adapter do leaves a daemon alone.
LEMMA SpawnKeepsInv ==
  ASSUME DaemonInv, NEW c \in Clients, NEW d \in Daemons, SpawnDaemon(c, d)
  PROVE  DaemonInv'
BY DEF SpawnDaemon, adapterVars, DaemonInv, Owner, OwnPath, OpenPortIsServed

\* Only the process that has the lock gets past the test of it.
LEMMA StartKeepsInv ==
  ASSUME DaemonInv, NEW d \in Daemons,
         TakeLock(d) \/ UnlinkStale(d) \/ Bind(d) \/ Listen(d)
  PROVE  DaemonInv'
<1> USE DEF DaemonInv, Owner, OwnPath, OpenPortIsServed, Goto, adapterVars
<1>1. CASE TakeLock(d)
  <2>1. Nobody \notin Daemons
    BY NobodyAssumption
  <2> QED
    BY <1>1, <2>1 DEF TakeLock
<1>2. CASE UnlinkStale(d)
  BY <1>2 DEF UnlinkStale
<1>3. CASE Bind(d)
  BY <1>3 DEF Bind
<1>4. CASE Listen(d)
  BY <1>4 DEF Listen
<1> QED
  BY <1>1, <1>2, <1>3, <1>4

\* Whatever is asked of it, a serving daemon keeps what it owns.
LEMMA ServeKeepsInv ==
  ASSUME DaemonInv, NEW d \in Daemons,
         \/ Poll(d) \/ SelectTimeout(d) \/ Accept(d) \/ BadRequest(d) \/ HandleOther(d)
         \/ FindDevice(d) \/ HoldPort(d) \/ CheckFresh(d) \/ Transmit(d) \/ Reply(d)
  PROVE  DaemonInv'
<1>1. /\ proc[d] \in Serving
      /\ UNCHANGED <<port, path, lock, adapter, plugs>>
  BY DEF adapterVars, Poll, SelectTimeout, Accept, BadRequest, HandleOther, Sends,
         FindDevice, HoldPort, CheckFresh, Transmit, Reply
<1>2. \E l \in Serving \cup {"close_port"} : proc' = [proc EXCEPT ![d] = l]
  BY DEF Poll, SelectTimeout, Accept, BadRequest, HandleOther,
         FindDevice, HoldPort, CheckFresh, Transmit, Reply, Fail, Answer, Goto
<1> QED
  BY <1>1, <1>2 DEF DaemonInv, Owner, OwnPath, OpenPortIsServed

LEMMA OpenPortKeepsInv ==
  ASSUME DaemonInv, NEW d \in Daemons, OpenPort(d)
  PROVE  DaemonInv'
BY DEF OpenPort, Fail, Answer, Goto, adapterVars, DaemonInv, Owner, OwnPath, OpenPortIsServed

\* The port is closed before the path and the lock are given up.
LEMMA StopKeepsInv ==
  ASSUME DaemonInv, NEW d \in Daemons,
         Terminate(d) \/ ClosePort(d) \/ CloseListener(d) \/ Unlink(d)
  PROVE  DaemonInv'
<1> USE DEF DaemonInv, Owner, OwnPath, OpenPortIsServed, Goto, adapterVars
<1>1. CASE Terminate(d)
  BY <1>1 DEF Terminate
<1>2. CASE ClosePort(d)
  BY <1>2 DEF ClosePort
<1>3. CASE CloseListener(d)
  BY <1>3 DEF CloseListener
<1>4. CASE Unlink(d)
  <2>1. \A e \in Daemons \ {d} : proc[e] \in {"none", "started"}
    BY <1>4 DEF Unlink
  <2> QED
    BY <1>4, <2>1 DEF Unlink
<1> QED
  BY <1>1, <1>2, <1>3, <1>4

\* A process that ends, in whatever way, releases the port with the lock.
LEMMA EndKeepsInv ==
  ASSUME DaemonInv, NEW d \in Daemons, ProcessEnds(d)
  PROVE  DaemonInv'
<1>1. proc' = [proc EXCEPT ![d] = "none"] /\ port' = [port EXCEPT ![d] = 0]
  BY DEF ProcessEnds, Goto
<1>2. path' = path /\ adapter' = adapter /\ plugs' = plugs
  BY DEF ProcessEnds, adapterVars
<1>3. lock' = IF lock = d THEN Nobody ELSE lock
  BY DEF ProcessEnds
<1>4. ASSUME NEW e \in Daemons
      PROVE  Owner(e)' /\ OwnPath(e)' /\ OpenPortIsServed(e)'
  BY <1>1, <1>2, <1>3 DEF DaemonInv, Owner, OwnPath, OpenPortIsServed
<1> QED
  BY <1>1, <1>2, <1>4 DEF DaemonInv

LEMMA NextKeepsInv == DaemonInv /\ [Next]_vars => DaemonInv'
<1> SUFFICES ASSUME DaemonInv, [Next]_vars PROVE DaemonInv'
  OBVIOUS
<1>1. ASSUME NEW c \in Clients,
             Run(c) \/ InterruptClient(c) \/ Connect(c) \/ ConnectRefused(c) \/ GiveUp(c) \/ StopSeen(c)
      PROVE  DaemonInv'
  <2>1. UNCHANGED <<proc, lock, path, port, adapter, plugs>>
    BY <1>1 DEF Run, InterruptClient, Connect, ConnectRefused, GiveUp, StopSeen,
                daemonVars, adapterVars
  <2> QED
    BY <2>1 DEF DaemonInv, Owner, OwnPath, OpenPortIsServed
<1>2. ASSUME NEW c \in Clients, NEW d \in Daemons, SpawnDaemon(c, d)
      PROVE  DaemonInv'
  BY <1>2, SpawnKeepsInv
<1>3. ASSUME NEW d \in Daemons, DaemonStep(d) \/ Kill(d) \/ Terminate(d)
      PROVE  DaemonInv'
  BY <1>3, StartKeepsInv, ServeKeepsInv, OpenPortKeepsInv, StopKeepsInv, EndKeepsInv
     DEF DaemonStep, Kill, Exit
<1>4. ASSUME Unplug \/ Plug
      PROVE  DaemonInv'
  BY <1>4 DEF Unplug, Plug, daemonVars, DaemonInv, Owner, OwnPath, OpenPortIsServed
<1>5. ASSUME UNCHANGED vars
      PROVE  DaemonInv'
  BY <1>5 DEF vars, daemonVars, adapterVars, DaemonInv, Owner, OwnPath, OpenPortIsServed
<1> QED
  BY <1>1, <1>2, <1>3, <1>4, <1>5 DEF Next, ClientStep

THEOREM DaemonInvariant == Spec => []DaemonInv
<1>1. Init => DaemonInv
  BY DaemonInvInit
<1> QED
  BY <1>1, NextKeepsInv, PTL DEF Spec

-----------------------------------------------------------------------------

\* However many daemons are started at once, and whenever they are killed, the
\* serial port is open in at most one of them.
THEOREM PortIsHeldOnce == Spec => []OnePortHolder
<1>1. DaemonInv => OnePortHolder
  BY DEF DaemonInv, Owner, OpenPortIsServed, OnePortHolder
<1> QED
  BY <1>1, DaemonInvariant, PTL

\* A serving daemon has the lock and the socket path, so every client reaches it.
THEOREM ServingDaemonIsFound == Spec => []ServingIsReachable
<1>1. DaemonInv => ServingIsReachable
  BY DEF DaemonInv, Owner, OwnPath, ServingIsReachable
<1> QED
  BY <1>1, DaemonInvariant, PTL

-----------------------------------------------------------------------------
(***************************************************************************)
(* What becomes of a request                                               *)
(***************************************************************************)
\* The connections that a daemon has not answered, and their clients.
Handled(d) == {conn[d]} \ {Nobody}
Pending(d) == ToSet(backlog[d]) \cup Handled(d)

Distinct(s) == \A i, j \in DOMAIN s : s[i] = s[j] => i = j

\* A client has one connection at a time, with one daemon.
OneConnection ==
  /\ \A d, e \in Daemons : Pending(d) \cap Pending(e) # {} => d = e
  /\ \A d \in Daemons : conn[d] \notin ToSet(backlog[d]) /\ Distinct(backlog[d])

\* A client that has not had its answer knows nothing yet, before its daemon writes
\* the payload nobody has written it, and what it was told is true.
ClientAt(c) ==
  /\ client[c] \in {"connect", "spawn", "retry", "waiting", "unlinking"} => answer[c] = "none"
  /\ client[c] = "gone" => answer[c] = "lost"
  /\ client[c] \in {"connect", "spawn", "retry"} => written[c] = 0
  /\ client[c] = "unlinking" => op[c] = "stop"
  /\ op[c] \notin {"send", "noreset"} => written[c] = 0
  /\ answer[c] = "ok" => written[c] = 1
  /\ answer[c] \in {"reopened", "disconnected", "not_started", "not_running", "done"} => written[c] = 0

PendingAt(d) ==
  /\ conn[d] # Nobody <=> proc[d] \in Handling
  /\ \A c \in Pending(d) : client[c] \in {"waiting", "gone"}
  /\ \A c \in ToSet(backlog[d]) : written[c] = 0

\* The reply that a daemon has ready is true of the payload, and only a daemon with
\* a port writes one.
HandlingAt(d) ==
  /\ proc[d] \in Handling \ {"reply"} => written[conn[d]] = 0
  /\ proc[d] \in {"identified", "held", "sending"} => op[conn[d]] \in {"send", "noreset"}
  /\ proc[d] \in {"held", "sending"} => port[d] # 0
  /\ proc[d] = "reply" =>
       /\ reply[d] = "ok" => written[conn[d]] = 1
       /\ reply[d] \in {"reopened", "disconnected", "done"} => written[conn[d]] = 0

\* A port that nobody was warned of is still fresh, and what is being sent to a fresh
\* port resets the board.
FreshAt(d) ==
  /\ port[d] # 0 => warned \/ fresh[d]
  /\ proc[d] = "sending" /\ fresh[d] => op[conn[d]] = "send"

RequestInv ==
  /\ TypeOK
  /\ adapter <= plugs
  /\ OneConnection
  /\ \A c \in Clients : ClientAt(c)
  /\ \A d \in Daemons : PendingAt(d) /\ HandlingAt(d) /\ FreshAt(d)

\* The sequence operators that the listener's backlog is changed by.
LEMMA AppendToSet ==
  ASSUME NEW S, NEW s \in Seq(S), NEW e \in S
  PROVE  /\ Append(s, e) \in Seq(S)
         /\ ToSet(Append(s, e)) = ToSet(s) \cup {e}
         /\ Distinct(s) /\ e \notin ToSet(s) => Distinct(Append(s, e))
<1>1. /\ Append(s, e) \in Seq(S) /\ Len(Append(s, e)) = Len(s) + 1 /\ Len(s) \in Nat
      /\ \A i \in 1 .. Len(s) : Append(s, e)[i] = s[i]
      /\ Append(s, e)[Len(s) + 1] = e
  OBVIOUS
<1>2. DOMAIN s = 1 .. Len(s) /\ DOMAIN Append(s, e) = 1 .. Len(s) + 1
  BY <1>1
<1>3. \A i : i \in 1 .. Len(s) + 1 <=> i \in 1 .. Len(s) \/ i = Len(s) + 1
  BY <1>1
<1>4. ToSet(Append(s, e)) = ToSet(s) \cup {e}
  BY <1>1, <1>2, <1>3 DEF ToSet
<1>5. Distinct(s) /\ e \notin ToSet(s) => Distinct(Append(s, e))
  BY <1>1, <1>2, <1>3 DEF ToSet, Distinct
<1> QED
  BY <1>1, <1>4, <1>5

LEMMA TailToSet ==
  ASSUME NEW S, NEW s \in Seq(S), s # <<>>
  PROVE  /\ Head(s) \in S /\ Tail(s) \in Seq(S)
         /\ ToSet(s) = ToSet(Tail(s)) \cup {Head(s)}
         /\ Distinct(s) => Head(s) \notin ToSet(Tail(s)) /\ Distinct(Tail(s))
<1>1. /\ Head(s) \in S /\ Tail(s) \in Seq(S) /\ Len(s) \in Nat \ {0} /\ Len(Tail(s)) = Len(s) - 1
      /\ Head(s) = s[1]
      /\ \A i \in 1 .. Len(s) - 1 : Tail(s)[i] = s[i + 1]
  OBVIOUS
<1>2. DOMAIN s = 1 .. Len(s) /\ DOMAIN Tail(s) = 1 .. Len(s) - 1
  BY <1>1
<1>3. ASSUME NEW i \in 1 .. Len(s), i # 1
      PROVE  i - 1 \in 1 .. Len(s) - 1 /\ (i - 1) + 1 = i
  BY <1>1, <1>3
<1>4. \A i \in 1 .. Len(s) - 1 : i + 1 \in 1 .. Len(s) /\ i + 1 # 1
  BY <1>1
<1>5. 1 \in 1 .. Len(s)
  BY <1>1
<1>6. ToSet(s) \subseteq ToSet(Tail(s)) \cup {Head(s)}
  <2> SUFFICES ASSUME NEW i \in 1 .. Len(s) PROVE s[i] \in ToSet(Tail(s)) \cup {Head(s)}
    BY <1>2 DEF ToSet
  <2>1. CASE i = 1
    BY <1>1, <2>1
  <2>2. CASE i # 1
    <3>1. Tail(s)[i - 1] = s[i] /\ i - 1 \in DOMAIN Tail(s)
      BY <1>1, <1>2, <1>3, <2>2
    <3> QED
      BY <3>1 DEF ToSet
  <2> QED
    BY <2>1, <2>2
<1>7. ToSet(Tail(s)) \cup {Head(s)} \subseteq ToSet(s)
  BY <1>1, <1>2, <1>4, <1>5 DEF ToSet
<1>8. Distinct(s) => Head(s) \notin ToSet(Tail(s)) /\ Distinct(Tail(s))
  <2> SUFFICES ASSUME Distinct(s) PROVE Head(s) \notin ToSet(Tail(s)) /\ Distinct(Tail(s))
    OBVIOUS
  <2>1. ASSUME NEW i \in 1 .. Len(s) - 1
        PROVE  Tail(s)[i] # Head(s)
    BY <1>1, <1>2, <1>4, <1>5 DEF Distinct
  <2>2. ASSUME NEW i \in 1 .. Len(s) - 1, NEW j \in 1 .. Len(s) - 1, Tail(s)[i] = Tail(s)[j]
        PROVE  i = j
    <3>1. s[i + 1] = s[j + 1] /\ i + 1 \in DOMAIN s /\ j + 1 \in DOMAIN s
      BY <1>1, <1>2, <1>4, <2>2
    <3>2. i + 1 = j + 1
      BY <3>1 DEF Distinct
    <3> QED
      BY <3>2
  <2> QED
    BY <1>2, <2>1, <2>2 DEF Distinct, ToSet
<1> QED
  BY <1>1, <1>6, <1>7, <1>8

LEMMA EmptyBacklog == <<>> \in Seq(Clients) /\ ToSet(<<>>) = {} /\ Distinct(<<>>)
BY DEF ToSet, Distinct

LEMMA RequestInvInit == Init => RequestInv
<1> SUFFICES ASSUME Init PROVE RequestInv
  OBVIOUS
<1>1. \A d \in Daemons : Pending(d) = {} /\ conn[d] = Nobody
  BY EmptyBacklog DEF Init, Pending, Handled
<1>2. TypeOK /\ adapter <= plugs
  BY EmptyBacklog, PlugAssumption DEF Init, TypeOK, Replies, AllOps
<1>3. OneConnection
  BY <1>1, EmptyBacklog DEF OneConnection, Init
<1>4. \A d \in Daemons : PendingAt(d)
  BY <1>1, EmptyBacklog DEF PendingAt, Init
<1> QED
  BY <1>2, <1>3, <1>4 DEF Init, RequestInv, ClientAt, HandlingAt, FreshAt

\* A client with a connection waits, or is gone.
LEMMA Connected ==
  ASSUME RequestInv, NEW d \in Daemons
  PROVE  /\ conn[d] # Nobody => conn[d] \in Clients /\ conn[d] \in Pending(d)
         /\ Pending(d) \subseteq Clients
         /\ \A c \in Pending(d) : client[c] \in {"waiting", "gone"}
         /\ ToSet(backlog[d]) \subseteq Pending(d)
<1>1. backlog[d] \in Seq(Clients) /\ conn[d] \in Clients \cup {Nobody}
  BY DEF RequestInv, TypeOK
<1>2. ToSet(backlog[d]) \subseteq Clients
  BY <1>1 DEF ToSet
<1> QED
  BY <1>1, <1>2 DEF RequestInv, PendingAt, Pending, Handled

\* A command without a connection concerns only itself.
LEMMA ClientKeepsRequests ==
  ASSUME RequestInv, NEW c \in Clients,
         Run(c) \/ ConnectRefused(c) \/ GiveUp(c) \/ StopSeen(c) \/ \E d \in Daemons : SpawnDaemon(c, d)
  PROVE  RequestInv'
<1>1. \A d \in Daemons : c \notin Pending(d)
  BY Connected DEF Run, ConnectRefused, GiveUp, StopSeen, SpawnDaemon
<1>2. \A b \in Clients \ {c} : client'[b] = client[b] /\ op'[b] = op[b] /\ answer'[b] = answer[b] /\ written'[b] = written[b]
  BY DEF Run, ConnectRefused, GiveUp, StopSeen, SpawnDaemon, Finish, RequestInv, TypeOK
<1>3. UNCHANGED <<backlog, conn, reply, stopping, port, identity, fresh, lock, path, adapter, plugs, warned>>
  BY DEF Run, ConnectRefused, GiveUp, StopSeen, SpawnDaemon, daemonVars, adapterVars
<1>4. \A d \in Daemons : proc'[d] = proc[d] \/ (proc[d] = "none" /\ proc'[d] = "started")
  BY DEF Run, ConnectRefused, GiveUp, StopSeen, SpawnDaemon, daemonVars, RequestInv, TypeOK
<1>5. \A d \in Daemons : Pending(d)' = Pending(d)
  BY <1>3 DEF Pending, Handled
<1>12. ConnectRefused(c) => \/ Finish(c, "not_running")
                            \/ client' = [client EXCEPT ![c] = "spawn"] /\ UNCHANGED <<op, answer>>
  BY DEF ConnectRefused
<1>6. TypeOK'
  <2> USE DEF RequestInv, TypeOK
  <2>1. proc' \in [Daemons -> {"none"} \cup Starting \cup Serving \cup Closing]
    <3>1. CASE \E d \in Daemons : SpawnDaemon(c, d)
      BY <3>1 DEF SpawnDaemon, Starting
    <3>2. CASE Run(c) \/ ConnectRefused(c) \/ GiveUp(c) \/ StopSeen(c)
      <4>1. proc' = proc
        BY <3>2 DEF Run, ConnectRefused, GiveUp, StopSeen, daemonVars
      <4> QED
        BY <4>1
    <3> QED
      BY <3>1, <3>2
  <2>2. /\ client' \in [Clients -> {"idle", "connect", "spawn", "retry", "waiting", "unlinking", "gone"}]
        /\ op' \in [Clients -> AllOps]
        /\ answer' \in [Clients -> Replies \cup {"none", "lost", "not_running", "not_started"}]
        /\ written' \in [Clients -> 0 .. 1]
    <3>1. CASE Run(c)
      <4>1. PICK o \in Ops : op' = [op EXCEPT ![c] = o]
        BY <3>1 DEF Run
      <4>2. o \in AllOps
        BY OpsAssumption
      <4> QED
        BY <3>1, <4>1, <4>2 DEF Run
    <3>2. CASE ConnectRefused(c)
      BY <3>2, <1>12 DEF ConnectRefused, Finish, AllOps
    <3>3. CASE GiveUp(c) \/ StopSeen(c)
      BY <3>3 DEF GiveUp, StopSeen, Finish, Replies, AllOps
    <3>4. CASE \E d \in Daemons : SpawnDaemon(c, d)
      BY <3>4 DEF SpawnDaemon
    <3> QED
      BY <3>1, <3>2, <3>3, <3>4
  <2> QED
    BY <1>3, <2>1, <2>2
<1>7. OneConnection'
  BY <1>3, <1>5 DEF RequestInv, OneConnection
<1>8. \A b \in Clients : ClientAt(b)'
  <2> USE DEF RequestInv, TypeOK, ClientAt
  <2>1. CASE Run(c)
    BY <2>1 DEF Run
  <2>2. CASE ConnectRefused(c)
    <3>1. CASE Finish(c, "not_running")
      BY <2>2, <3>1 DEF ConnectRefused, Finish
    <3>2. CASE client' = [client EXCEPT ![c] = "spawn"] /\ UNCHANGED <<op, answer>>
      BY <2>2, <3>2 DEF ConnectRefused
    <3> QED
      BY <2>2, <3>1, <3>2, <1>12
  <2>3. CASE GiveUp(c)
    BY <2>3 DEF GiveUp, Finish
  <2>4. CASE StopSeen(c)
    BY <2>4 DEF StopSeen, Finish
  <2>5. CASE \E d \in Daemons : SpawnDaemon(c, d)
    BY <2>5 DEF SpawnDaemon
  <2> QED
    BY <2>1, <2>2, <2>3, <2>4, <2>5
<1>9. \A d \in Daemons : PendingAt(d)'
  BY <1>1, <1>2, <1>3, <1>4, <1>5, Connected DEF RequestInv, PendingAt
<1>10. \A d \in Daemons : conn[d] # Nobody => conn[d] \in Clients \ {c}
  BY <1>1, Connected
<1>11. \A d \in Daemons : HandlingAt(d)' /\ FreshAt(d)'
  BY <1>2, <1>3, <1>4, <1>10 DEF RequestInv, PendingAt, HandlingAt, FreshAt
<1> QED
  BY <1>3, <1>6, <1>7, <1>8, <1>9, <1>11 DEF RequestInv

\* A step of one daemon that touches only the clients that it has a connection with.
LEMMA OneDaemonSteps ==
  ASSUME RequestInv, NEW d \in Daemons, TypeOK', adapter' <= plugs',
         \A e \in Daemons \ {d} : /\ proc'[e] = proc[e] /\ conn'[e] = conn[e] /\ backlog'[e] = backlog[e]
                                  /\ reply'[e] = reply[e] /\ port'[e] = port[e] /\ fresh'[e] = fresh[e],
         \A c \in Clients \ Pending(d) : /\ client'[c] = client[c] /\ op'[c] = op[c]
                                         /\ answer'[c] = answer[c] /\ written'[c] = written[c],
         Pending(d)' \subseteq Pending(d),
         conn'[d] \notin ToSet(backlog'[d]), Distinct(backlog'[d]),
         \A c \in Pending(d) : ClientAt(c)',
         PendingAt(d)', HandlingAt(d)', FreshAt(d)',
         warned' # warned => warned' \/ \A e \in Daemons \ {d} : port[e] = 0
  PROVE  RequestInv'
<1>1. \A e \in Daemons \ {d} : Pending(e)' = Pending(e) /\ Pending(e) \cap Pending(d) = {}
  BY DEF Pending, Handled, RequestInv, OneConnection
<1>2. \A e \in Daemons \ {d} : conn[e] # Nobody => conn[e] \in Clients \ Pending(d)
  BY <1>1, Connected
<1>3. \A e \in Daemons \ {d} : Pending(e) \subseteq Clients \ Pending(d) /\ ToSet(backlog[e]) \subseteq Pending(e)
  BY <1>1, Connected
<1>4. OneConnection'
  BY <1>1 DEF RequestInv, OneConnection
<1>5. ASSUME NEW c \in Clients PROVE ClientAt(c)'
  BY DEF RequestInv, ClientAt
<1>6. ASSUME NEW e \in Daemons PROVE PendingAt(e)'
  BY <1>1, <1>3 DEF RequestInv, PendingAt
<1>7. ASSUME NEW e \in Daemons PROVE HandlingAt(e)' /\ FreshAt(e)'
  <2>1. CASE e = d
    BY <2>1
  <2>2. CASE e # d
    <3>1. /\ proc'[e] = proc[e] /\ conn'[e] = conn[e] /\ reply'[e] = reply[e]
          /\ port'[e] = port[e] /\ fresh'[e] = fresh[e]
      BY <2>2
    <3>2. proc[e] \in Handling => op'[conn[e]] = op[conn[e]] /\ written'[conn[e]] = written[conn[e]]
      BY <1>2, <2>2 DEF RequestInv, PendingAt
    <3>3. HandlingAt(e) /\ FreshAt(e)
      BY DEF RequestInv
    <3>4. HandlingAt(e)'
      BY <3>1, <3>2, <3>3 DEF HandlingAt
    <3>5. warned' # warned => warned' \/ port[e] = 0
      BY <2>2
    <3>6. warned \in BOOLEAN /\ warned' \in BOOLEAN
      BY DEF RequestInv, TypeOK
    <3>7. FreshAt(e)'
      BY <3>1, <3>2, <3>3, <3>5, <3>6 DEF FreshAt
    <3> QED
      BY <3>4, <3>7
  <2> QED
    BY <2>1, <2>2
<1> QED
  BY <1>4, <1>5, <1>6, <1>7 DEF RequestInv

\* A step of one daemon that leaves the connections and the clients alone.
LEMMA QuietDaemonSteps ==
  ASSUME RequestInv, NEW d \in Daemons, TypeOK', UNCHANGED <<backlog, conn, clientVars, adapterVars, written>>,
         \A e \in Daemons \ {d} : /\ proc'[e] = proc[e] /\ reply'[e] = reply[e]
                                  /\ port'[e] = port[e] /\ fresh'[e] = fresh[e],
         proc[d] \in Handling <=> proc'[d] \in Handling,
         HandlingAt(d)', FreshAt(d)',
         warned' # warned => warned' \/ \A e \in Daemons \ {d} : port[e] = 0
  PROVE  RequestInv'
<1>1. UNCHANGED <<backlog, conn, client, op, answer, written, adapter, plugs>>
  BY DEF clientVars, adapterVars
<1>2. Pending(d)' = Pending(d)
  BY <1>1 DEF Pending, Handled
<1>3. Pending(d) \subseteq Clients
  BY Connected
<1>4. \A c \in Pending(d) : ClientAt(c)'
  BY <1>1, <1>3 DEF RequestInv, ClientAt
<1>5. PendingAt(d)'
  BY <1>1, <1>2 DEF RequestInv, PendingAt
<1>6. conn'[d] \notin ToSet(backlog'[d]) /\ Distinct(backlog'[d]) /\ adapter' <= plugs'
  BY <1>1 DEF RequestInv, OneConnection
<1> QED
  BY <1>1, <1>2, <1>4, <1>5, <1>6, OneDaemonSteps

\* The steps of a daemon that starts, and of its loop between two requests.
LEMMA LoopKeepsRequests ==
  ASSUME RequestInv, NEW d \in Daemons,
         \/ TakeLock(d) \/ UnlinkStale(d) \/ Bind(d) \/ Listen(d) \/ Poll(d) \/ SelectTimeout(d)
         \/ ClosePort(d) \/ Unlink(d)
  PROVE  RequestInv'
<1> USE DEF TakeLock, UnlinkStale, Bind, Listen, Poll, SelectTimeout, ClosePort, Unlink, Goto
<1>1. UNCHANGED <<backlog, conn, clientVars, adapterVars, written, reply, fresh, warned>>
  OBVIOUS
<1>2. /\ \A e \in Daemons \ {d} : proc'[e] = proc[e] /\ port'[e] = port[e]
      /\ proc[d] \notin Handling /\ proc'[d] \notin Handling
      /\ port'[d] = port[d] \/ port'[d] = 0
  BY DEF RequestInv, TypeOK
<1>3. TypeOK'
  <2> USE DEF RequestInv, TypeOK
  <2>1. proc' \in [Daemons -> {"none"} \cup Starting \cup Serving \cup Closing]
    OBVIOUS
  <2>2. lock' \in Daemons \cup {Nobody} /\ path' \in Daemons \cup {Nobody}
    OBVIOUS
  <2>3. stopping' \in [Daemons -> BOOLEAN]
    OBVIOUS
  <2>4. port' \in [Daemons -> 0 .. MaxPlug] /\ identity' \in [Daemons -> 0 .. MaxPlug]
    <3>1. 0 \in 0 .. MaxPlug
      BY PlugAssumption
    <3>2. /\ port' = port \/ port' = [port EXCEPT ![d] = 0]
          /\ identity' = identity \/ identity' = [identity EXCEPT ![d] = 0]
      OBVIOUS
    <3>3. port \in [Daemons -> 0 .. MaxPlug] /\ identity \in [Daemons -> 0 .. MaxPlug]
      OBVIOUS
    <3> HIDE DEF TakeLock, UnlinkStale, Bind, Listen, Poll, SelectTimeout, ClosePort, Unlink, RequestInv, TypeOK
    <3> QED
      BY <3>1, <3>2, <3>3
  <2> QED
    BY <1>1, <2>1, <2>2, <2>3, <2>4 DEF clientVars, adapterVars
<1>4. HandlingAt(d)'
  BY <1>2 DEF HandlingAt
<1>5. FreshAt(d)'
  BY <1>1, <1>2 DEF RequestInv, FreshAt
<1> QED
  BY <1>1, <1>2, <1>3, <1>4, <1>5, QuietDaemonSteps

\* A daemon works on the request that it accepted.
LEMMA HandleKeepsRequests ==
  ASSUME RequestInv, DaemonInv, NEW d \in Daemons,
         HandleOther(d) \/ FindDevice(d) \/ OpenPort(d) \/ HoldPort(d) \/ CheckFresh(d)
  PROVE  RequestInv'
<1> USE DEF HandleOther, FindDevice, OpenPort, HoldPort, CheckFresh, Sends, Goto, Fail, Answer
<1>1. UNCHANGED <<backlog, conn, clientVars, adapterVars, written, lock, path>>
  OBVIOUS
<1>2. /\ \A e \in Daemons \ {d} : /\ proc'[e] = proc[e] /\ reply'[e] = reply[e]
                                  /\ port'[e] = port[e] /\ fresh'[e] = fresh[e]
      /\ proc[d] \in Handling /\ proc'[d] \in Handling
  BY DEF RequestInv, TypeOK
<1>3. conn[d] \in Clients /\ written[conn[d]] = 0
  <2>1. proc[d] \in Handling \ {"reply"} /\ conn[d] # Nobody
    BY <1>2 DEF RequestInv, PendingAt
  <2> QED
    BY <2>1, Connected DEF RequestInv, HandlingAt
<1>4. TypeOK'
  <2> USE DEF RequestInv, TypeOK
  <2>1. proc' \in [Daemons -> {"none"} \cup Starting \cup Serving \cup Closing]
    <3>1. PICK l \in Handling : proc' = [proc EXCEPT ![d] = l]
      OBVIOUS
    <3> QED
      BY <3>1
  <2>2. stopping' \in [Daemons -> BOOLEAN] /\ fresh' \in [Daemons -> BOOLEAN] /\ warned' \in BOOLEAN
    OBVIOUS
  <2>3. reply' \in [Daemons -> Replies]
    BY DEF Replies
  <2>4. port' \in [Daemons -> 0 .. MaxPlug] /\ identity' \in [Daemons -> 0 .. MaxPlug]
    OBVIOUS
  <2> QED
    BY <1>1, <2>1, <2>2, <2>3, <2>4 DEF clientVars, adapterVars
<1>5. HandlingAt(d)'
  BY <1>1, <1>2, <1>3 DEF RequestInv, HandlingAt, TypeOK, AllOps, clientVars
<1>6. FreshAt(d)'
  BY <1>1, <1>2, <1>3 DEF RequestInv, HandlingAt, FreshAt, TypeOK, clientVars
<1>7. warned' # warned => warned' \/ \A e \in Daemons \ {d} : port[e] = 0
  BY DEF DaemonInv, Owner, OpenPortIsServed
<1> QED
  BY <1>1, <1>2, <1>4, <1>5, <1>6, <1>7, QuietDaemonSteps

\* What is left of the connections of a daemon that loses some of them.
LEMMA BrokenConnections ==
  ASSUME RequestInv, NEW cs \in SUBSET Clients, Break(cs), written' = written
  PROVE  /\ client' \in [Clients -> {"idle", "connect", "spawn", "retry", "waiting", "unlinking", "gone"}]
         /\ op' \in [Clients -> AllOps]
         /\ answer' \in [Clients -> Replies \cup {"none", "lost", "not_running", "not_started"}]
         /\ \A c \in Clients \ cs : client'[c] = client[c] /\ op'[c] = op[c] /\ answer'[c] = answer[c]
         /\ \A c \in Clients : ClientAt(c)'
<1> USE DEF RequestInv, TypeOK, Break
<1>1. client' \in [Clients -> {"idle", "connect", "spawn", "retry", "waiting", "unlinking", "gone"}]
  OBVIOUS
<1>2. op' \in [Clients -> AllOps]
  BY DEF AllOps
<1>3. answer' \in [Clients -> Replies \cup {"none", "lost", "not_running", "not_started"}]
  OBVIOUS
<1>4. \A c \in Clients : ClientAt(c)'
  BY DEF ClientAt
<1> QED
  BY <1>1, <1>2, <1>3, <1>4

LEMMA AcceptKeepsRequests ==
  ASSUME RequestInv, NEW d \in Daemons, Accept(d)
  PROVE  RequestInv'
<1> USE DEF Accept, Goto
<1>1. backlog[d] \in Seq(Clients) /\ backlog[d] # <<>> /\ Distinct(backlog[d])
  BY DEF RequestInv, TypeOK, OneConnection
<1>2. /\ backlog' = [backlog EXCEPT ![d] = Tail(backlog[d])] /\ conn' = [conn EXCEPT ![d] = Head(backlog[d])]
      /\ proc' = [proc EXCEPT ![d] = "accepted"]
      /\ UNCHANGED <<clientVars, adapterVars, written, warned, lock, path, reply, stopping, port, identity, fresh>>
  OBVIOUS
<1>3. /\ Head(backlog[d]) \in Clients /\ Tail(backlog[d]) \in Seq(Clients)
      /\ ToSet(backlog[d]) = ToSet(Tail(backlog[d])) \cup {Head(backlog[d])}
      /\ Head(backlog[d]) \notin ToSet(Tail(backlog[d])) /\ Distinct(Tail(backlog[d]))
  BY <1>1, TailToSet
<1>4. TypeOK'
  BY <1>2, <1>3 DEF RequestInv, TypeOK, clientVars, adapterVars
<1>5. /\ \A e \in Daemons \ {d} : proc'[e] = proc[e] /\ conn'[e] = conn[e] /\ backlog'[e] = backlog[e]
      /\ conn'[d] = Head(backlog[d]) /\ backlog'[d] = Tail(backlog[d]) /\ proc'[d] = "accepted"
  BY <1>2 DEF RequestInv, TypeOK
<1>6. Head(backlog[d]) # Nobody
  BY <1>3, NobodyAssumption
<1>7. Pending(d)' \subseteq Pending(d)
  BY <1>3, <1>5 DEF Pending, Handled
<1>8. PendingAt(d)' /\ HandlingAt(d)' /\ FreshAt(d)'
  BY <1>2, <1>3, <1>5, <1>6, <1>7 DEF RequestInv, PendingAt, HandlingAt, FreshAt, clientVars
<1>9. \A c \in Pending(d) : ClientAt(c)'
  BY <1>2, Connected DEF RequestInv, ClientAt, clientVars
<1>10. adapter' <= plugs'
  BY <1>2 DEF RequestInv, adapterVars
<1> QED
  BY <1>2, <1>3, <1>4, <1>5, <1>7, <1>8, <1>9, <1>10, OneDaemonSteps DEF clientVars

\* The connection breaks: the request was bad, or the daemon is told to stop.
LEMMA DropKeepsRequests ==
  ASSUME RequestInv, NEW d \in Daemons, BadRequest(d) \/ Terminate(d)
  PROVE  RequestInv'
<1> USE DEF BadRequest, Terminate, Goto
<1>1. Nobody \notin Clients
  BY NobodyAssumption
<1>2. PICK cs \in SUBSET Handled(d) : Break(cs)
  BY Connected DEF Handled, RequestInv, PendingAt
<1>3. /\ UNCHANGED <<backlog, adapterVars, written, warned, lock, path, port, identity, fresh>>
      /\ conn' = [conn EXCEPT ![d] = Nobody]
      /\ \E l \in {"loop", "close_port"} : proc' = [proc EXCEPT ![d] = l]
      /\ reply' = reply \/ reply' = [reply EXCEPT ![d] = "done"]
      /\ stopping' = stopping \/ stopping' = [stopping EXCEPT ![d] = TRUE]
  OBVIOUS
<1> HIDE DEF BadRequest, Terminate
<1>4. /\ \A e \in Daemons \ {d} : proc'[e] = proc[e] /\ conn'[e] = conn[e] /\ reply'[e] = reply[e]
      /\ conn'[d] = Nobody /\ proc'[d] \notin Handling
  BY <1>3 DEF RequestInv, TypeOK
<1>5. cs \subseteq Clients /\ cs \subseteq Pending(d)
  BY Connected DEF Handled, Pending
<1>6. /\ client' \in [Clients -> {"idle", "connect", "spawn", "retry", "waiting", "unlinking", "gone"}]
      /\ op' \in [Clients -> AllOps]
      /\ answer' \in [Clients -> Replies \cup {"none", "lost", "not_running", "not_started"}]
      /\ \A c \in Clients \ cs : client'[c] = client[c] /\ op'[c] = op[c] /\ answer'[c] = answer[c]
      /\ \A c \in Clients : ClientAt(c)'
  BY <1>2, <1>3, <1>5, BrokenConnections
<1>7. TypeOK'
  <2> USE DEF RequestInv, TypeOK
  <2>1. proc' \in [Daemons -> {"none"} \cup Starting \cup Serving \cup Closing]
    BY <1>3
  <2>2. conn' \in [Daemons -> Clients \cup {Nobody}]
    BY <1>3
  <2>3. reply' \in [Daemons -> Replies]
    BY <1>3 DEF Replies
  <2>4. stopping' \in [Daemons -> BOOLEAN]
    BY <1>3
  <2> QED
    BY <1>3, <1>6, <2>1, <2>2, <2>3, <2>4 DEF adapterVars
<1>8. Pending(d)' = ToSet(backlog[d]) /\ ToSet(backlog[d]) \subseteq Pending(d) \ cs
  BY <1>2, <1>3, <1>4 DEF Pending, Handled, RequestInv, OneConnection
<1>9. PendingAt(d)'
  BY <1>3, <1>4, <1>6, <1>8, Connected DEF RequestInv, PendingAt
<1>10. HandlingAt(d)' /\ FreshAt(d)'
  BY <1>3, <1>4 DEF RequestInv, HandlingAt, FreshAt
<1>11. /\ adapter' <= plugs' /\ Distinct(backlog'[d]) /\ conn'[d] \notin ToSet(backlog'[d])
       /\ \A c \in Pending(d) : ClientAt(c)'
  BY <1>1, <1>3, <1>4, <1>6, <1>8, Connected DEF RequestInv, OneConnection, adapterVars
<1> QED
  BY <1>3, <1>4, <1>5, <1>6, <1>7, <1>8, <1>9, <1>10, <1>11, OneDaemonSteps

\* Closing the listener, and the end of the process, break the connections that wait.
LEMMA CloseKeepsRequests ==
  ASSUME RequestInv, NEW d \in Daemons, CloseListener(d) \/ ProcessEnds(d)
  PROVE  RequestInv'
<1> USE DEF CloseListener, ProcessEnds, Goto
<1>1. Nobody \notin Clients /\ 0 \in 0 .. MaxPlug
  BY NobodyAssumption, PlugAssumption
<1>2. conn'[d] = Nobody /\ \A e \in Daemons \ {d} : conn'[e] = conn[e]
  BY DEF RequestInv, TypeOK, PendingAt
<1>3. Break(Pending(d))
  <2>1. CASE CloseListener(d)
    <3>1. conn[d] = Nobody
      BY <2>1 DEF RequestInv, PendingAt
    <3>2. Pending(d) = ToSet(backlog[d])
      BY <3>1 DEF Pending, Handled
    <3> QED
      BY <2>1, <3>2
  <2>2. CASE ProcessEnds(d)
    BY <2>2 DEF Pending, Handled
  <2> QED
    BY <2>1, <2>2
<1>4. /\ backlog' = [backlog EXCEPT ![d] = <<>>]
      /\ \E l \in {"unlink", "none"} : proc' = [proc EXCEPT ![d] = l]
      /\ UNCHANGED <<path, adapterVars, written, warned>>
      /\ lock' = lock \/ lock' = Nobody
      /\ reply' = reply \/ reply' = [reply EXCEPT ![d] = "done"]
      /\ conn' = conn \/ conn' = [conn EXCEPT ![d] = Nobody]
      /\ stopping' = stopping \/ stopping' = [stopping EXCEPT ![d] = FALSE]
      /\ port' = port \/ port' = [port EXCEPT ![d] = 0]
      /\ identity' = identity \/ identity' = [identity EXCEPT ![d] = 0]
      /\ fresh' = fresh \/ (fresh' = [fresh EXCEPT ![d] = FALSE] /\ port' = [port EXCEPT ![d] = 0])
  OBVIOUS
<1> HIDE DEF CloseListener, ProcessEnds
<1>5. /\ \A e \in Daemons \ {d} : /\ proc'[e] = proc[e] /\ backlog'[e] = backlog[e] /\ reply'[e] = reply[e]
                                  /\ port'[e] = port[e] /\ fresh'[e] = fresh[e]
      /\ backlog'[d] = <<>> /\ proc'[d] \notin Handling
  BY <1>4 DEF RequestInv, TypeOK
<1>6. /\ client' \in [Clients -> {"idle", "connect", "spawn", "retry", "waiting", "unlinking", "gone"}]
      /\ op' \in [Clients -> AllOps]
      /\ answer' \in [Clients -> Replies \cup {"none", "lost", "not_running", "not_started"}]
      /\ \A c \in Clients \ Pending(d) : client'[c] = client[c] /\ op'[c] = op[c] /\ answer'[c] = answer[c]
      /\ \A c \in Clients : ClientAt(c)'
  BY <1>3, <1>4, Connected, BrokenConnections
<1>7. TypeOK'
  <2> USE DEF RequestInv, TypeOK
  <2>1. proc' \in [Daemons -> {"none"} \cup Starting \cup Serving \cup Closing]
    BY <1>4
  <2>2. backlog' \in [Daemons -> Seq(Clients)]
    BY <1>4, EmptyBacklog
  <2>3. conn' \in [Daemons -> Clients \cup {Nobody}] /\ lock' \in Daemons \cup {Nobody}
    BY <1>4
  <2>4. reply' \in [Daemons -> Replies]
    BY <1>4 DEF Replies
  <2>5. stopping' \in [Daemons -> BOOLEAN] /\ fresh' \in [Daemons -> BOOLEAN]
    BY <1>4
  <2>6. port' \in [Daemons -> 0 .. MaxPlug] /\ identity' \in [Daemons -> 0 .. MaxPlug]
    <3>1. \A f \in [Daemons -> 0 .. MaxPlug] : [f EXCEPT ![d] = 0] \in [Daemons -> 0 .. MaxPlug]
      BY <1>1
    <3>2. port \in [Daemons -> 0 .. MaxPlug] /\ identity \in [Daemons -> 0 .. MaxPlug]
      OBVIOUS
    <3>3. /\ port' = port \/ port' = [port EXCEPT ![d] = 0]
          /\ identity' = identity \/ identity' = [identity EXCEPT ![d] = 0]
      BY <1>4
    <3> HIDE DEF RequestInv, TypeOK
    <3> QED
      BY <3>1, <3>2, <3>3
  <2> QED
    BY <1>4, <1>6, <2>1, <2>2, <2>3, <2>4, <2>5, <2>6 DEF adapterVars
<1>8. Pending(d)' = {}
  BY <1>2, <1>5, EmptyBacklog DEF Pending, Handled
<1>9. PendingAt(d)'
  BY <1>2, <1>5, <1>8, EmptyBacklog DEF PendingAt
<1>10. HandlingAt(d)' /\ FreshAt(d)'
  <2>1. port'[d] = 0 \/ (port'[d] = port[d] /\ fresh'[d] = fresh[d])
    BY <1>4 DEF RequestInv, TypeOK
  <2> QED
    BY <1>4, <1>5, <2>1 DEF RequestInv, HandlingAt, FreshAt
<1>11. /\ adapter' <= plugs' /\ Distinct(backlog'[d]) /\ conn'[d] \notin ToSet(backlog'[d])
       /\ \A c \in Pending(d) : ClientAt(c)'
  BY <1>4, <1>5, <1>6, EmptyBacklog, Connected DEF RequestInv, adapterVars
<1> QED
  BY <1>2, <1>4, <1>5, <1>6, <1>7, <1>8, <1>9, <1>10, <1>11, OneDaemonSteps

\* The payload is written once, and the reply says so.
LEMMA TransmitKeepsRequests ==
  ASSUME RequestInv, NEW d \in Daemons, Transmit(d)
  PROVE  RequestInv'
<1> USE DEF Transmit, Goto, Answer, Fail
<1>1. /\ proc[d] = "sending" /\ proc' = [proc EXCEPT ![d] = "reply"]
      /\ UNCHANGED <<lock, path, conn, port, identity, backlog, clientVars, adapterVars>>
      /\ \E a \in {"ok", "error"} : reply' = [reply EXCEPT ![d] = a]
      /\ \E sent \in {0, 1} : written' = [written EXCEPT ![conn[d]] = @ + sent]
      /\ stopping' = stopping \/ stopping' = [stopping EXCEPT ![d] = TRUE]
      /\ fresh' = fresh \/ fresh' = [fresh EXCEPT ![d] = FALSE]
  OBVIOUS
<1>2. /\ conn[d] \in Clients /\ conn[d] \in Pending(d) /\ conn[d] \notin ToSet(backlog[d])
      /\ written[conn[d]] = 0 /\ op[conn[d]] \in {"send", "noreset"}
      /\ client[conn[d]] \in {"waiting", "gone"}
      /\ answer[conn[d]] \in {"none", "lost"}
  <2>1. conn[d] # Nobody
    BY <1>1 DEF RequestInv, PendingAt
  <2>2. /\ conn[d] \in Clients /\ conn[d] \in Pending(d) /\ conn[d] \notin ToSet(backlog[d])
        /\ client[conn[d]] \in {"waiting", "gone"}
    BY <2>1, Connected DEF RequestInv, OneConnection
  <2> QED
    BY <1>1, <2>2 DEF RequestInv, HandlingAt, ClientAt
<1>3. reply'[d] = "ok" => written'[conn[d]] = 1
  BY <1>2 DEF RequestInv, TypeOK
<1>4. \/ fresh'[d] = FALSE /\ warned' = (warned \/ op[conn[d]] = "send")
      \/ fresh' = fresh /\ warned' = warned
  BY DEF RequestInv, TypeOK
<1> HIDE DEF Transmit, Fail
<1>5. /\ \A e \in Daemons \ {d} : proc'[e] = proc[e] /\ reply'[e] = reply[e] /\ fresh'[e] = fresh[e]
      /\ proc'[d] = "reply" /\ reply'[d] \in {"ok", "error"}
  BY <1>1 DEF RequestInv, TypeOK
<1>6. /\ written' \in [Clients -> 0 .. 1]
      /\ \A c \in Clients \ {conn[d]} : written'[c] = written[c]
  BY <1>1, <1>2 DEF RequestInv, TypeOK
<1>7. TypeOK'
  <2> USE DEF RequestInv, TypeOK
  <2>1. proc' \in [Daemons -> {"none"} \cup Starting \cup Serving \cup Closing]
    BY <1>1
  <2>2. reply' \in [Daemons -> Replies]
    BY <1>1 DEF Replies
  <2>3. stopping' \in [Daemons -> BOOLEAN] /\ fresh' \in [Daemons -> BOOLEAN] /\ warned' \in BOOLEAN
    BY <1>1, <1>4
  <2> QED
    BY <1>1, <1>6, <2>1, <2>2, <2>3 DEF clientVars, adapterVars
<1>8. Pending(d)' = Pending(d)
  BY <1>1 DEF Pending, Handled
<1>9. PendingAt(d)'
  BY <1>1, <1>2, <1>5, <1>6, <1>8, Connected DEF RequestInv, PendingAt, clientVars
<1>10. HandlingAt(d)'
  BY <1>1, <1>3, <1>5 DEF HandlingAt
<1>11. FreshAt(d)' /\ (warned' # warned => warned')
  <2>1. warned \in BOOLEAN /\ fresh[d] \in BOOLEAN /\ FreshAt(d) /\ port'[d] = port[d] /\ proc'[d] # "sending"
    BY <1>1, <1>5 DEF RequestInv, TypeOK
  <2>2. CASE fresh' = fresh /\ warned' = warned
    BY <2>1, <2>2 DEF FreshAt
  <2>3. CASE fresh'[d] = FALSE /\ warned' = (warned \/ op[conn[d]] = "send")
    <3>1. CASE warned
      BY <2>1, <2>3, <3>1 DEF FreshAt
    <3>2. CASE ~ warned
      BY <1>1, <2>1, <2>3, <3>2 DEF FreshAt
    <3> QED
      BY <3>1, <3>2
  <2> QED
    BY <1>4, <2>2, <2>3
<1>12. \A c \in Pending(d) : ClientAt(c)'
  BY <1>1, <1>2, <1>6, Connected DEF RequestInv, ClientAt, clientVars
<1>13. /\ adapter' <= plugs' /\ Distinct(backlog'[d]) /\ conn'[d] \notin ToSet(backlog'[d])
  BY <1>1 DEF RequestInv, OneConnection, adapterVars
<1> QED
  BY <1>1, <1>2, <1>4, <1>5, <1>6, <1>7, <1>8, <1>9, <1>10, <1>11, <1>12, <1>13, OneDaemonSteps
     DEF clientVars

\* The client is told what became of its request.
LEMMA ReplyKeepsRequests ==
  ASSUME RequestInv, NEW d \in Daemons, Reply(d)
  PROVE  RequestInv'
<1> DEFINE c == conn[d]
<1>1. /\ proc[d] = "reply" /\ proc' = [proc EXCEPT ![d] = "loop"]
      /\ conn' = [conn EXCEPT ![d] = Nobody] /\ reply' = [reply EXCEPT ![d] = "done"]
      /\ UNCHANGED <<lock, path, stopping, port, identity, fresh, backlog, adapterVars, written, warned>>
      /\ \/ client[c] = "gone" /\ Break({c})
         \/ client[c] = "waiting" /\ op[c] # "stop" /\ Finish(c, reply[d])
         \/ /\ client[c] = "waiting" /\ op[c] = "stop"
            /\ client' = [client EXCEPT ![c] = "unlinking"]
            /\ UNCHANGED <<op, answer>>
  BY DEF Reply, Goto
<1>2. c \in Clients /\ c \in Pending(d) /\ c \notin ToSet(backlog[d])
  BY <1>1, Connected DEF RequestInv, PendingAt, OneConnection
<1>3. /\ \A e \in Daemons \ {d} : proc'[e] = proc[e] /\ conn'[e] = conn[e] /\ reply'[e] = reply[e]
      /\ conn'[d] = Nobody /\ proc'[d] = "loop"
  BY <1>1 DEF RequestInv, TypeOK
<1>4. /\ client' \in [Clients -> {"idle", "connect", "spawn", "retry", "waiting", "unlinking", "gone"}]
      /\ op' \in [Clients -> AllOps]
      /\ answer' \in [Clients -> Replies \cup {"none", "lost", "not_running", "not_started"}]
      /\ \A b \in Clients \ {c} : client'[b] = client[b] /\ op'[b] = op[b] /\ answer'[b] = answer[b]
      /\ \A b \in Clients : ClientAt(b)'
  <2>1. CASE Break({c})
    BY <1>1, <1>2, <2>1, BrokenConnections
  <2>2. CASE Finish(c, reply[d])
    <3>1. /\ reply[d] \in Replies
          /\ reply[d] = "ok" => written[c] = 1
          /\ reply[d] \in {"reopened", "disconnected", "done"} => written[c] = 0
      BY <1>1 DEF RequestInv, TypeOK, HandlingAt
    <3> HIDE DEF c
    <3>2. /\ client' \in [Clients -> {"idle", "connect", "spawn", "retry", "waiting", "unlinking", "gone"}]
          /\ op' \in [Clients -> AllOps]
          /\ answer' \in [Clients -> Replies \cup {"none", "lost", "not_running", "not_started"}]
      BY <1>2, <2>2, <3>1 DEF Finish, RequestInv, TypeOK, AllOps
    <3>3. /\ \A b \in Clients \ {c} : client'[b] = client[b] /\ op'[b] = op[b] /\ answer'[b] = answer[b]
          /\ client'[c] = "idle" /\ op'[c] = "send" /\ answer'[c] = reply[d]
      BY <1>2, <2>2 DEF Finish, RequestInv, TypeOK
    <3>4. ASSUME NEW b \in Clients
          PROVE  ClientAt(b)'
      <4>1. CASE b = c
        BY <1>1, <3>1, <3>3, <4>1 DEF ClientAt, Replies
      <4>2. CASE b # c
        BY <1>1, <3>3, <4>2 DEF ClientAt, RequestInv
      <4> QED
        BY <4>1, <4>2
    <3> QED
      BY <3>2, <3>3, <3>4
  <2>3. CASE op[c] = "stop" /\ client[c] = "waiting" /\ client' = [client EXCEPT ![c] = "unlinking"] /\ UNCHANGED <<op, answer>>
    BY <1>1, <1>2, <2>3 DEF RequestInv, TypeOK, ClientAt
  <2> QED
    BY <1>1, <2>1, <2>2, <2>3
<1> HIDE DEF c
<1>5. TypeOK'
  BY <1>1, <1>4 DEF RequestInv, TypeOK, Replies, adapterVars
<1>6. Pending(d)' = ToSet(backlog[d]) /\ ToSet(backlog[d]) \subseteq Pending(d) \ {c}
  BY <1>1, <1>2, <1>3 DEF Pending, Handled
<1>7. PendingAt(d)'
  BY <1>1, <1>3, <1>4, <1>6, Connected DEF RequestInv, PendingAt
<1>8. HandlingAt(d)' /\ FreshAt(d)'
  BY <1>1, <1>3 DEF RequestInv, HandlingAt, FreshAt
<1>9. /\ adapter' <= plugs' /\ Distinct(backlog'[d]) /\ conn'[d] \notin ToSet(backlog'[d])
      /\ \A b \in Pending(d) : ClientAt(b)'
  BY <1>1, <1>3, <1>4, <1>6, Connected, NobodyAssumption DEF RequestInv, OneConnection, adapterVars
<1> QED
  BY <1>1, <1>2, <1>3, <1>4, <1>5, <1>6, <1>7, <1>8, <1>9, OneDaemonSteps

\* A client connects, or is interrupted while it waits.
LEMMA ConnectKeepsRequests ==
  ASSUME RequestInv, NEW c \in Clients, Connect(c)
  PROVE  RequestInv'
<1> USE DEF Connect
<1>0. PICK d \in Daemons : d = path
  BY DEF Reachable, RequestInv, TypeOK
<1>1. /\ client[c] \in {"connect", "retry"}
      /\ backlog' = [backlog EXCEPT ![d] = Append(backlog[d], c)]
      /\ client' = [client EXCEPT ![c] = "waiting"]
      /\ UNCHANGED <<daemonVars, adapterVars, op, answer, written, warned>>
  BY <1>0
<1> HIDE DEF Connect
<1>2. \A e \in Daemons : c \notin Pending(e)
  BY <1>1, Connected
<1>3. /\ backlog[d] \in Seq(Clients) /\ c \notin ToSet(backlog[d]) /\ Distinct(backlog[d])
  BY <1>1, <1>2 DEF RequestInv, TypeOK, OneConnection, Pending
<1>4. /\ Append(backlog[d], c) \in Seq(Clients)
      /\ ToSet(Append(backlog[d], c)) = ToSet(backlog[d]) \cup {c}
      /\ Distinct(Append(backlog[d], c))
  BY <1>3, AppendToSet
<1>5. /\ \A e \in Daemons \ {d} : backlog'[e] = backlog[e]
      /\ backlog'[d] = Append(backlog[d], c)
      /\ client'[c] = "waiting" /\ \A b \in Clients \ {c} : client'[b] = client[b]
      /\ conn' = conn
  BY <1>1 DEF RequestInv, TypeOK, daemonVars
<1>6. Pending(d)' = Pending(d) \cup {c} /\ \A e \in Daemons \ {d} : Pending(e)' = Pending(e)
  BY <1>4, <1>5 DEF Pending, Handled
<1>7. TypeOK'
  BY <1>1, <1>4 DEF RequestInv, TypeOK, daemonVars, adapterVars
<1>8. OneConnection'
  <2>1. ASSUME NEW e \in Daemons, NEW f \in Daemons, Pending(e)' \cap Pending(f)' # {}
        PROVE  e = f
    BY <1>2, <1>6, <2>1 DEF RequestInv, OneConnection
  <2>2. ASSUME NEW e \in Daemons
        PROVE  conn'[e] \notin ToSet(backlog'[e]) /\ Distinct(backlog'[e])
    <3>1. CASE e = d
      <4>1. c # Nobody /\ conn[d] # c
        BY <1>1, <1>2, NobodyAssumption DEF Pending, Handled
      <4> QED
        BY <1>1, <1>4, <1>5, <3>1, <4>1 DEF RequestInv, OneConnection
    <3>2. CASE e # d
      BY <1>5, <3>2 DEF RequestInv, OneConnection
    <3> QED
      BY <3>1, <3>2
  <2> QED
    BY <2>1, <2>2 DEF OneConnection
<1>9. \A b \in Clients : ClientAt(b)'
  BY <1>1, <1>5 DEF RequestInv, ClientAt
<1>10. ASSUME NEW e \in Daemons
       PROVE  PendingAt(e)'
  <2>1. written[c] = 0
    BY <1>1 DEF RequestInv, ClientAt
  <2>2. CASE e = d
    BY <1>1, <1>4, <1>5, <1>6, <2>1, <2>2, Connected DEF RequestInv, PendingAt, daemonVars
  <2>3. CASE e # d
    BY <1>1, <1>2, <1>5, <1>6, <2>3, Connected DEF RequestInv, PendingAt, daemonVars
  <2> QED
    BY <2>2, <2>3
<1>11. \A e \in Daemons : HandlingAt(e)' /\ FreshAt(e)'
  BY <1>1 DEF RequestInv, HandlingAt, FreshAt, daemonVars
<1> QED
  BY <1>1, <1>7, <1>8, <1>9, <1>10, <1>11 DEF RequestInv, adapterVars

LEMMA InterruptKeepsRequests ==
  ASSUME RequestInv, NEW c \in Clients, InterruptClient(c)
  PROVE  RequestInv'
<1>1. /\ client[c] = "waiting"
      /\ client' = [client EXCEPT ![c] = "gone"] /\ answer' = [answer EXCEPT ![c] = "lost"]
      /\ UNCHANGED <<daemonVars, backlog, op, adapterVars, written, warned>>
  BY DEF InterruptClient
<1>2. \A d \in Daemons : Pending(d)' = Pending(d)
  BY <1>1 DEF Pending, Handled, daemonVars
<1>3. TypeOK'
  BY <1>1 DEF RequestInv, TypeOK, daemonVars, adapterVars
<1>4. OneConnection'
  BY <1>1, <1>2 DEF RequestInv, OneConnection, daemonVars
<1>5. \A b \in Clients : ClientAt(b)'
  BY <1>1 DEF RequestInv, TypeOK, ClientAt
<1>6. \A d \in Daemons : PendingAt(d)'
  BY <1>1, <1>2, Connected DEF RequestInv, TypeOK, PendingAt, daemonVars
<1>7. \A d \in Daemons : HandlingAt(d)' /\ FreshAt(d)'
  BY <1>1 DEF RequestInv, HandlingAt, FreshAt, daemonVars
<1> QED
  BY <1>1, <1>3, <1>4, <1>5, <1>6, <1>7 DEF RequestInv, adapterVars

\* The adapter comes and goes.
LEMMA AdapterKeepsRequests ==
  ASSUME RequestInv, Unplug \/ Plug \/ UNCHANGED vars
  PROVE  RequestInv'
<1>1. UNCHANGED <<daemonVars, backlog, clientVars, written, warned>>
  BY DEF Unplug, Plug, vars
<1>2. adapter' \in 0 .. MaxPlug /\ plugs' \in 0 .. MaxPlug /\ adapter' <= plugs'
  BY PlugAssumption DEF Unplug, Plug, vars, adapterVars, RequestInv, TypeOK
<1>3. TypeOK'
  BY <1>1, <1>2 DEF RequestInv, TypeOK, daemonVars, clientVars
<1>4. \A d \in Daemons : Pending(d)' = Pending(d)
  BY <1>1 DEF Pending, Handled, daemonVars
<1>5. OneConnection' /\ \A c \in Clients : ClientAt(c)'
  BY <1>1, <1>4 DEF RequestInv, OneConnection, ClientAt, daemonVars, clientVars
<1>6. \A d \in Daemons : PendingAt(d)' /\ HandlingAt(d)' /\ FreshAt(d)'
  BY <1>1, <1>4 DEF RequestInv, PendingAt, HandlingAt, FreshAt, daemonVars, clientVars
<1> QED
  BY <1>2, <1>3, <1>5, <1>6 DEF RequestInv

LEMMA NextKeepsRequests == RequestInv /\ DaemonInv /\ [Next]_vars => RequestInv'
<1> SUFFICES ASSUME RequestInv, DaemonInv, [Next]_vars PROVE RequestInv'
  OBVIOUS
<1>1. ASSUME NEW c \in Clients, Run(c) \/ InterruptClient(c) \/ ClientStep(c)
      PROVE  RequestInv'
  BY <1>1, ClientKeepsRequests, ConnectKeepsRequests, InterruptKeepsRequests DEF ClientStep
<1>2. ASSUME NEW d \in Daemons, DaemonStep(d) \/ Kill(d) \/ Terminate(d)
      PROVE  RequestInv'
  BY <1>2, LoopKeepsRequests, HandleKeepsRequests, AcceptKeepsRequests, DropKeepsRequests,
     CloseKeepsRequests, TransmitKeepsRequests, ReplyKeepsRequests DEF DaemonStep, Kill, Exit
<1> QED
  BY <1>1, <1>2, AdapterKeepsRequests DEF Next

\* What each client, its connection and the daemon that serves it know of one another
\* agrees in every reachable state.
THEOREM RequestInvariant == Spec => []RequestInv
BY RequestInvInit, NextKeepsRequests, DaemonInvariant, PTL DEF Spec

\* Every variable keeps its type: nothing is written twice, and no connection is
\* left with a client that is not there.
THEOREM DaemonTypes == Spec => []TypeOK
<1>1. RequestInv => TypeOK
  BY DEF RequestInv
<1> QED
  BY <1>1, RequestInvariant, PTL

\* What a command reports is what happened to its payload, whoever was interrupted,
\* killed or unplugged meanwhile.
THEOREM ReportsAreTrue == Spec => []AnswersAreTrue
<1>1. RequestInv => AnswersAreTrue
  BY DEF RequestInv, ClientAt, AnswersAreTrue
<1> QED
  BY <1>1, RequestInvariant, PTL

\* No --noreset payload goes to a board that opening the port has just reset.
THEOREM NoResetIsHonoured == Spec => NoSurpriseReset
<1>1. RequestInv /\ [Next]_vars =>
        [\A c \in Clients : written'[c] > written[c] /\ op[c] = "noreset" => warned]_vars
  <2> SUFFICES ASSUME RequestInv, Next, NEW c \in Clients, written'[c] > written[c], op[c] = "noreset"
               PROVE  warned
    OBVIOUS
  <2>0. written[c] \in 0 .. 1 /\ written'[c] # written[c] /\ warned \in BOOLEAN
    BY DEF RequestInv, TypeOK
  <2>1. PICK d \in Daemons : Transmit(d)
    <3>1. ASSUME NEW b \in Clients, Run(b) \/ InterruptClient(b) \/ ClientStep(b)
          PROVE  FALSE
      <4>1. written' = written \/ written' = [written EXCEPT ![b] = 0]
        BY <3>1 DEF Run, InterruptClient, ClientStep, Connect, ConnectRefused, GiveUp, StopSeen, SpawnDaemon
      <4> QED
        BY <2>0, <4>1 DEF RequestInv, TypeOK
    <3>2. ASSUME NEW d \in Daemons, DaemonStep(d) \/ Kill(d) \/ Terminate(d), ~ Transmit(d)
          PROVE  FALSE
      BY <2>0, <3>2 DEF DaemonStep, Kill, Terminate, Exit, ProcessEnds, TakeLock, UnlinkStale, Bind, Listen,
         Poll, SelectTimeout, Accept, BadRequest, HandleOther, FindDevice, OpenPort, HoldPort, CheckFresh,
         Reply, ClosePort, CloseListener, Unlink
    <3>3. ~ Unplug /\ ~ Plug
      BY <2>0 DEF Unplug, Plug
    <3> QED
      BY <3>1, <3>2, <3>3 DEF Next
  <2>2. proc[d] = "sending" /\ c = conn[d]
    BY <2>0, <2>1 DEF Transmit, RequestInv, TypeOK
  <2>3. port[d] # 0 /\ ~ fresh[d]
    BY <2>2 DEF RequestInv, HandlingAt, FreshAt
  <2> QED
    BY <2>3 DEF RequestInv, FreshAt
<1> QED
  BY <1>1, RequestInvariant, PTL DEF Spec, NoSurpriseReset

=============================================================================
