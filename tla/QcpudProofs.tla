---------------------------- MODULE QcpudProofs -----------------------------
(***************************************************************************)
(* The safety properties of Qcpud, for any number of daemons and clients   *)
(* and any backlog.  The types and the sharing of connections hold however *)
(* daemons overlap; what is said of the socket path needs daemons that run *)
(* one after the other.                                                    *)
(***************************************************************************)
EXTENDS Qcpud, TLAPS

USE SMTT(30), ZenonT(30)

-----------------------------------------------------------------------------
(* Types.                                                                  *)

\* Closing a server socket keeps the types of what it changes.
LEMMA CloseListenerType ==
    ASSUME TypeOK, NEW d \in Daemons, CloseListener(d)
    PROVE  /\ listener' \in [Daemons -> {"none", "bound", "listening", "closed"}]
           /\ queue' \in [Daemons -> Seq(Clients)]
           /\ \A e \in Daemons : Len(queue'[e]) <= Backlog
           /\ connection' \in [Clients -> {"idle", "open", "answered", "dropped", "left"}]
<1>1. /\ listener' \in [Daemons -> {"none", "bound", "listening", "closed"}]
      /\ queue' \in [Daemons -> Seq(Clients)]
  BY DEF TypeOK, CloseListener
<1>2. \A e \in Daemons : Len(queue'[e]) <= Backlog
  BY DaemonAssumption DEF TypeOK, CloseListener
<1>3. connection' \in [Clients -> {"idle", "open", "answered", "dropped", "left"}]
  BY DEF TypeOK, CloseListener
<1> QED BY <1>1, <1>2, <1>3

\* So does closing the connection being served.
LEMMA CloseClientType ==
    ASSUME TypeOK, NEW d \in Daemons, CloseClient(d)
    PROVE  /\ client_fd' \in [Daemons -> Clients \cup {Nobody}]
           /\ connection' \in [Clients -> {"idle", "open", "answered", "dropped", "left"}]
  BY ZenonT(60) DEF TypeOK, CloseClient

\* So does the end of a process.
LEMMA DieType ==
    ASSUME TypeOK, NEW d \in Daemons, Die(d)
    PROVE  TypeOK'
<1>1. /\ at' \in [Daemons -> Labels]
      /\ listener' \in [Daemons -> {"none", "bound", "listening", "closed"}]
      /\ queue' \in [Daemons -> Seq(Clients)]
      /\ client_fd' \in [Daemons -> Clients \cup {Nobody}]
  BY DEF TypeOK, Die, Goto, Labels
<1>2. \A e \in Daemons : Len(queue'[e]) <= Backlog
  BY DaemonAssumption DEF TypeOK, Die
<1>3. connection' \in [Clients -> {"idle", "open", "answered", "dropped", "left"}]
  BY DEF TypeOK, Die
<1> QED BY <1>1, <1>2, <1>3 DEF TypeOK, Die, signalVars

\* A step of main() keeps the types.
LEMMA DaemonStepType ==
    ASSUME TypeOK, NEW d \in Daemons, DaemonStep(d) \/ AcceptFails(d)
    PROVE  TypeOK'
<1> USE DEF Goto, signalVars, socketVars
<1>1. at' \in [Daemons -> Labels]
  <2>1. \A l \in Labels : Goto(d, l) => at' \in [Daemons -> Labels]
    BY DEF TypeOK
  <2> QED
    BY <2>1 DEF DaemonStep, AcceptFails, install_signal_handlers, Lstat, UnlinkStale,
       StartFails, Bind, Chmod, Listen, SetupFails, Ready, accept, AcceptStopped,
       ReadRequest, ReadFails, WriteResponse, AfterServed, AfterFailed, OnceFailed,
       CloseServer, CloseFails, Unlink, Labels
<1>2. CASE \/ install_signal_handlers(d) \/ Lstat(d) \/ UnlinkStale(d) \/ StartFails(d)
           \/ Bind(d) \/ Chmod(d) \/ Listen(d) \/ SetupFails(d) \/ Ready(d)
  BY ZenonT(60), <1>1, <1>2
     DEF TypeOK, install_signal_handlers, Lstat, UnlinkStale, StartFails, Bind, Chmod,
         Listen, SetupFails, Ready
<1>3. CASE accept(d)
  <2>1. Tail(queue[d]) \in Seq(Clients) /\ Head(queue[d]) \in Clients
        /\ Len(Tail(queue[d])) <= Len(queue[d])
    BY <1>3 DEF TypeOK, accept
  <2>2. client_fd' \in [Daemons -> Clients \cup {Nobody}]
        /\ queue' \in [Daemons -> Seq(Clients)]
    BY <1>3, <2>1 DEF TypeOK, accept
  <2>3. \A e \in Daemons : Len(queue'[e]) <= Backlog
    BY <1>3, <2>1, DaemonAssumption DEF TypeOK, accept
  <2> QED BY <1>1, <1>3, <2>2, <2>3 DEF TypeOK, accept
<1>4. CASE AcceptStopped(d) \/ ReadRequest(d) \/ ReadFails(d) \/ WriteResponse(d) \/ Unlink(d)
  BY ZenonT(60), <1>1, <1>4
     DEF TypeOK, AcceptStopped, ReadRequest, ReadFails, WriteResponse, Unlink
<1>5. CASE AfterServed(d) \/ AfterFailed(d)
  BY <1>1, <1>5, CloseClientType DEF TypeOK, AfterServed, AfterFailed
<1>6. CASE OnceFailed(d) \/ CloseServer(d) \/ CloseFails(d) \/ AcceptFails(d)
  BY ZenonT(60), <1>1, <1>6, CloseListenerType
     DEF TypeOK, OnceFailed, CloseServer, CloseFails, AcceptFails
<1> QED BY <1>2, <1>3, <1>4, <1>5, <1>6 DEF DaemonStep

\* A step of a client keeps the types.
LEMMA ClientStepType ==
    ASSUME TypeOK, NEW c \in Clients, Connect(c) \/ Send(c) \/ Leave(c)
    PROVE  TypeOK'
<1> USE DEF signalVars, socketVars
<1>1. CASE Send(c) \/ Leave(c)
  BY ZenonT(60), <1>1 DEF TypeOK, Send, Leave
<1>2. CASE Connect(c)
  <2>1. CASE UNCHANGED queue
    BY ZenonT(60), <1>2, <2>1 DEF TypeOK, Connect
  <2>2. CASE /\ path # Nobody /\ Len(queue[path]) < Backlog
             /\ queue' = [queue EXCEPT ![path] = Append(queue[path], c)]
    <3>1. path \in Daemons
      BY <2>2 DEF TypeOK
    <3>2. Append(queue[path], c) \in Seq(Clients)
          /\ Len(Append(queue[path], c)) = Len(queue[path]) + 1
      BY <3>1 DEF TypeOK
    <3>3. Len(queue[path]) \in Nat
      BY <3>1 DEF TypeOK
    <3>4. queue' \in [Daemons -> Seq(Clients)]
      BY <2>2, <3>2 DEF TypeOK
    <3>5. \A e \in Daemons : Len(queue'[e]) <= Backlog
      BY <2>2, <3>1, <3>2, <3>3, DaemonAssumption DEF TypeOK
    <3> QED BY ZenonT(60), <1>2, <3>4, <3>5 DEF TypeOK, Connect
  <2> QED BY <1>2, <2>1, <2>2 DEF Connect
<1> QED BY <1>1, <1>2

\* Every step keeps the types.
LEMMA NextType == TypeOK /\ [Next]_vars => TypeOK'
<1> SUFFICES ASSUME TypeOK, [Next]_vars PROVE TypeOK'
  OBVIOUS
<1>1. ASSUME NEW d \in Daemons, Start(d) PROVE TypeOK'
  BY <1>1 DEF TypeOK, Start, Goto, Labels, signalVars, socketVars
<1>2. ASSUME NEW d \in Daemons, DaemonStep(d) \/ AcceptFails(d) PROVE TypeOK'
  BY <1>2, DaemonStepType
<1>3. ASSUME NEW d \in Daemons, handle_stop_signal(d) PROVE TypeOK'
  <2>1. CASE Die(d)
    BY <2>1, DieType
  <2>2. CASE at[d] # "handlers"
    BY ZenonT(60), <1>3, <2>2, CloseListenerType DEF TypeOK, handle_stop_signal
  <2> QED BY <1>3, <2>1, <2>2 DEF handle_stop_signal
<1>4. ASSUME NEW d \in Daemons, Crash(d) PROVE TypeOK'
  BY <1>4, DieType DEF Crash
<1>5. ASSUME NEW c \in Clients, Connect(c) \/ Send(c) \/ Leave(c) PROVE TypeOK'
  BY <1>5, ClientStepType
<1>6. CASE UNCHANGED vars
  BY <1>6 DEF TypeOK, vars, signalVars, socketVars
<1> QED BY <1>1, <1>2, <1>3, <1>4, <1>5, <1>6 DEF Next

\* main(), its handler and its clients keep every variable in its type, with at
\* most listen()'s backlog of connections waiting.
THEOREM DaemonTypeCorrect == Spec => []TypeOK
<1>1. Init => TypeOK
  BY DaemonAssumption DEF Init, TypeOK, Labels
<1> QED BY <1>1, NextType, PTL DEF Spec

-----------------------------------------------------------------------------
(* The socket path, when daemons run one after the other.                  *)

\* A step of main() keeps the path in its daemon's hands.
LEMMA DaemonStepPath ==
    ASSUME TypeOK, PathInv, NEW d \in Daemons, DaemonStep(d) \/ AcceptFails(d)
    PROVE  PathInv'
<1> USE DaemonAssumption DEF Goto, Alive, Ended, HasPath, signalVars, socketVars, CloseListener
<1>1. Alive(d)
  BY DEF DaemonStep, AcceptFails, install_signal_handlers, Lstat, UnlinkStale,
     StartFails, Bind, Chmod, Listen, SetupFails, Ready, accept, AcceptStopped,
     ReadRequest, ReadFails, WriteResponse, AfterServed, AfterFailed, OnceFailed,
     CloseServer, CloseFails, Unlink
<1>2. \A e \in Daemons \ {d} : at'[e] = at[e] /\ ~Alive(e)
  BY <1>1 DEF TypeOK, PathInv, DaemonStep, AcceptFails, install_signal_handlers, Lstat,
     UnlinkStale, StartFails, Bind, Chmod, Listen, SetupFails, Ready, accept, AcceptStopped,
     ReadRequest, ReadFails, WriteResponse, AfterServed, AfterFailed, OnceFailed,
     CloseServer, CloseFails, Unlink
<1>3. /\ at'[d] = "bind" => path' = Nobody
      /\ at'[d] \in HasPath => path' = d
      /\ at'[d] \notin HasPath \cup {"killed"} => path' # d
  <2>1. CASE \/ install_signal_handlers(d) \/ Lstat(d) \/ UnlinkStale(d) \/ StartFails(d)
             \/ Bind(d) \/ Chmod(d) \/ Listen(d) \/ SetupFails(d) \/ Ready(d)
    BY <2>1 DEF TypeOK, PathInv, install_signal_handlers, Lstat, UnlinkStale, StartFails,
       Bind, Chmod, Listen, SetupFails, Ready
  <2>2. CASE \/ accept(d) \/ AcceptStopped(d) \/ ReadRequest(d) \/ ReadFails(d)
             \/ WriteResponse(d) \/ AfterServed(d) \/ AfterFailed(d)
    BY <2>2 DEF TypeOK, PathInv, accept, AcceptStopped, ReadRequest, ReadFails,
       WriteResponse, AfterServed, AfterFailed
  <2>3. CASE \/ OnceFailed(d) \/ CloseServer(d) \/ CloseFails(d) \/ Unlink(d)
             \/ AcceptFails(d)
    BY <2>3 DEF TypeOK, PathInv, OnceFailed, CloseServer, CloseFails, Unlink, AcceptFails
  <2> QED BY <2>1, <2>2, <2>3 DEF DaemonStep
<1>4. path' \in {path, Nobody, d}
  BY DEF DaemonStep, AcceptFails, install_signal_handlers, Lstat, UnlinkStale,
     StartFails, Bind, Chmod, Listen, SetupFails, Ready, accept, AcceptStopped,
     ReadRequest, ReadFails, WriteResponse, AfterServed, AfterFailed, OnceFailed,
     CloseServer, CloseFails, Unlink
<1>5. \A e \in Daemons \ {d} : at'[e] \notin HasPath \cup {"killed"} => path' # e
  BY <1>2, <1>4 DEF PathInv
<1> QED BY <1>2, <1>3, <1>5 DEF PathInv

\* A daemon that starts when no other one runs finds the path as it needs it.
LEMMA StartPath ==
    ASSUME TypeOK, PathInv, NEW d \in Daemons, Start(d), \A e \in Daemons : ~Alive(e)
    PROVE  PathInv'
  BY DEF TypeOK, PathInv, Start, Goto, Alive, Ended, HasPath

\* A signal or a crash leaves the name of the socket behind.
LEMMA KilledPath ==
    ASSUME TypeOK, PathInv, NEW d \in Daemons, handle_stop_signal(d) \/ Crash(d)
    PROVE  PathInv'
<1> USE DEF Alive, Ended, HasPath
<1>1. CASE Alive(d) /\ Die(d)
  BY <1>1 DEF TypeOK, PathInv, Die, Goto
<1>2. CASE UNCHANGED <<at, path>>
  BY <1>2 DEF PathInv
<1> QED BY <1>1, <1>2 DEF handle_stop_signal, Crash

\* Every step keeps it, if a daemon starts only when no other one runs.
LEMMA NextPath ==
    ASSUME Exclusive, TypeOK, PathInv, [Next]_vars
    PROVE  PathInv'
<1>1. ASSUME NEW d \in Daemons, Start(d) PROVE PathInv'
  BY <1>1, StartPath DEF Start
<1>2. ASSUME NEW d \in Daemons, DaemonStep(d) \/ AcceptFails(d) PROVE PathInv'
  BY <1>2, DaemonStepPath
<1>3. ASSUME NEW d \in Daemons, handle_stop_signal(d) \/ Crash(d) PROVE PathInv'
  BY <1>3, KilledPath
<1>4. CASE UNCHANGED <<at, path>>
  BY <1>4 DEF PathInv, Alive, Ended
<1> QED BY <1>1, <1>2, <1>3, <1>4 DEF Next, Connect, Send, Leave, vars

\* Daemons that are started one after the other, as the lifecycle script does
\* it, hand the path over without a gap in either direction.
THEOREM PathInvariance ==
    ASSUME Exclusive
    PROVE  Spec => []PathInv
<1>1. Init => PathInv
  BY DaemonAssumption DEF Init, PathInv, Alive, HasPath
<1>2. TypeOK /\ PathInv /\ [Next]_vars => PathInv'
  BY Exclusive, NextPath
<1> QED BY <1>1, <1>2, DaemonTypeCorrect, PTL DEF Spec

\* A daemon that has announced READY is reachable at the path until it ends.
THEOREM ReachableWhileReadyHolds ==
    ASSUME Exclusive
    PROVE  Spec => []ReachableWhileReady
<1>1. PathInv => ReachableWhileReady
  BY DEF PathInv, ReachableWhileReady, HasPath
<1>2. Spec => []PathInv
  BY Exclusive, PathInvariance
<1> QED BY <1>1, <1>2, PTL

\* bind() never meets the socket that a crashed predecessor left.
THEOREM StaleSocketReplacedHolds ==
    ASSUME Exclusive
    PROVE  Spec => []StaleSocketReplaced
<1>1. PathInv => StaleSocketReplaced
  BY DEF PathInv, StaleSocketReplaced
<1>2. Spec => []PathInv
  BY Exclusive, PathInvariance
<1> QED BY <1>1, <1>2, PTL

\* Every exit of main() has removed the daemon's own socket.
THEOREM ExitUnlinksHolds ==
    ASSUME Exclusive
    PROVE  Spec => []ExitUnlinks
<1>1. PathInv => ExitUnlinks
  BY DEF PathInv, ExitUnlinks, HasPath
<1>2. Spec => []PathInv
  BY Exclusive, PathInvariance
<1> QED BY <1>1, <1>2, PTL

-----------------------------------------------------------------------------
(* Connections and the daemons that hold them.                             *)

Distinct(q) == \A i, j \in DOMAIN q : q[i] = q[j] => i = j
Elements(q) == {q[i] : i \in DOMAIN q}

\* accept() takes a connection out of a queue without repetitions.
LEMMA TailElements ==
    ASSUME NEW q \in Seq(Clients), q # <<>>, Distinct(q)
    PROVE  /\ Distinct(Tail(q))
           /\ Head(q) \in Clients
           /\ Elements(Tail(q)) = Elements(q) \ {Head(q)}
           /\ Head(q) \in Elements(q)
<1>1. /\ Len(q) \in Nat \ {0} /\ DOMAIN q = 1..Len(q)
      /\ \A i \in 1..Len(q) : q[i] \in Clients
      /\ Head(q) = q[1]
  OBVIOUS
<1>2. /\ DOMAIN Tail(q) = 1..(Len(q) - 1)
      /\ \A i \in 1..(Len(q) - 1) : Tail(q)[i] = q[i + 1]
  OBVIOUS
<1>3. Distinct(Tail(q))
  BY <1>1, <1>2 DEF Distinct
<1>4. ASSUME NEW x \in Elements(q), x # Head(q) PROVE x \in Elements(Tail(q))
  <2>1. PICK i \in 1..Len(q) : x = q[i]
    BY <1>1 DEF Elements
  <2>2. i - 1 \in 1..(Len(q) - 1) /\ Tail(q)[i - 1] = q[i]
    BY <1>1, <1>2, <1>4, <2>1
  <2> QED BY ZenonT(60), <1>2, <2>1, <2>2 DEF Elements
<1>5. ASSUME NEW x \in Elements(Tail(q)) PROVE x \in Elements(q) /\ x # Head(q)
  <2>1. PICK i \in 1..(Len(q) - 1) : x = q[i + 1]
    BY <1>2 DEF Elements
  <2>2. i + 1 \in DOMAIN q /\ 1 \in DOMAIN q /\ i + 1 # 1
    BY <1>1, <2>1
  <2> QED BY <1>1, <2>1, <2>2 DEF Elements, Distinct
<1>6. Elements(Tail(q)) = Elements(q) \ {Head(q)}
  BY <1>4, <1>5
<1>7. Head(q) \in Elements(q)
  BY <1>1 DEF Elements
<1> QED BY <1>1, <1>3, <1>6, <1>7

\* A connection joins a queue it is not in.
LEMMA AppendElements ==
    ASSUME NEW q \in Seq(Clients), NEW c \in Clients, Distinct(q), c \notin Elements(q)
    PROVE  /\ Distinct(Append(q, c))
           /\ Elements(Append(q, c)) = Elements(q) \cup {c}
<1>1. /\ Len(q) \in Nat /\ DOMAIN q = 1..Len(q)
      /\ DOMAIN Append(q, c) = 1..(Len(q) + 1)
      /\ Append(q, c)[Len(q) + 1] = c
      /\ \A i \in 1..Len(q) : Append(q, c)[i] = q[i]
  OBVIOUS
<1>2. Distinct(Append(q, c))
  BY <1>1 DEF Distinct, Elements
<1>3. ASSUME NEW x \in Elements(q) \cup {c} PROVE x \in Elements(Append(q, c))
  BY <1>1 DEF Elements
<1>4. ASSUME NEW x \in Elements(Append(q, c)) PROVE x \in Elements(q) \cup {c}
  BY <1>1 DEF Elements
<1> QED BY <1>2, <1>3, <1>4

\* OneServer in terms of the two, for given queues, servers and connections.
Shared(q, f, conn) ==
    /\ \A d \in Daemons : Distinct(q[d])
    /\ \A d, e \in Daemons :
         d # e => /\ Elements(q[d]) \cap Elements(q[e]) = {}
                  /\ f[d] = f[e] => f[d] = Nobody
    /\ \A d, e \in Daemons : f[d] \notin Elements(q[e])
    /\ \A c \in Clients :
         conn[c] = "open" => \E d \in Daemons : c \in Elements(q[d]) \/ c = f[d]

LEMMA OneServerShared ==
    /\ OneServer <=> Shared(queue, client_fd, connection)
    /\ OneServer' <=> Shared(queue', client_fd', connection')
  BY ZenonT(60) DEF OneServer, Shared, Distinct, Elements, Waiting, Unused

\* A queue of clients holds no Nobody, and the empty one holds nothing.
LEMMA ElementsAreClients ==
    /\ \A q \in Seq(Clients) : Nobody \notin Elements(q)
    /\ Distinct(<<>>) /\ Elements(<<>>) = {}
<1>1. ASSUME NEW q \in Seq(Clients) PROVE Nobody \notin Elements(q)
  BY DaemonAssumption DEF Elements
<1>2. Distinct(<<>>) /\ Elements(<<>>) = {}
  BY DEF Distinct, Elements
<1> QED BY <1>1, <1>2

\* Nothing moves, and no connection opens.
LEMMA SameServer ==
    ASSUME ServerInv, UNCHANGED <<queue, client_fd>>,
           \A c \in Clients : connection'[c] = "open" => connection[c] = "open"
    PROVE  OneServer'
  BY OneServerShared DEF ServerInv, Shared

\* A daemon closes the connection it serves.
LEMMA CloseClientServer ==
    ASSUME TypeOK, ServerInv, NEW d \in Daemons, client_fd[d] # Nobody, CloseClient(d),
           UNCHANGED queue
    PROVE  OneServer'
<1>1. Shared(queue, client_fd, connection)
  BY OneServerShared DEF ServerInv
<1>2. \A e \in Daemons : Nobody \notin Elements(queue[e])
  BY ElementsAreClients DEF TypeOK
<1>3. client_fd' = [client_fd EXCEPT ![d] = Nobody]
  BY DEF CloseClient
<1>4. /\ connection'[client_fd[d]] # "open"
      /\ \A c \in Clients : c # client_fd[d] => connection'[c] = connection[c]
  BY DEF TypeOK, CloseClient
<1>5. Shared(queue', client_fd', connection')
  <2>1. /\ \A e \in Daemons : e # d => client_fd'[e] = client_fd[e]
        /\ client_fd'[d] = Nobody
    BY <1>3 DEF TypeOK
  <2>2. \A c \in Clients :
          connection'[c] = "open" =>
            \E e \in Daemons : c \in Elements(queue'[e]) \/ c = client_fd'[e]
    BY <1>1, <1>4, <2>1 DEF Shared
  <2>3. \A e, g \in Daemons : client_fd'[e] \notin Elements(queue'[g])
    BY <1>1, <1>2, <2>1 DEF Shared
  <2> QED BY <1>1, <2>1, <2>2, <2>3 DEF Shared
<1> QED BY <1>5, OneServerShared

\* A server socket is closed: the connections that wait are reset.
LEMMA CloseListenerServer ==
    ASSUME TypeOK, ServerInv, NEW d \in Daemons, CloseListener(d), UNCHANGED client_fd
    PROVE  OneServer'
<1>1. Shared(queue, client_fd, connection)
  BY OneServerShared DEF ServerInv
<1>2. queue' = [queue EXCEPT ![d] = <<>>]
  BY DEF CloseListener
<1>3. \A c \in Clients :
        connection'[c] = "open" => connection[c] = "open" /\ c \notin Elements(queue[d])
  BY DEF CloseListener, Waiting, Elements
<1>4. Shared(queue', client_fd', connection')
  BY ZenonT(60), <1>1, <1>2, <1>3, ElementsAreClients DEF Shared, TypeOK
<1> QED BY <1>4, OneServerShared

\* A process ends: all its connections are closed.
LEMMA DieServer ==
    ASSUME TypeOK, ServerInv, NEW d \in Daemons, Die(d)
    PROVE  ServerInv'
<1>1. Shared(queue, client_fd, connection)
  BY OneServerShared DEF ServerInv
<1>2. /\ queue' = [queue EXCEPT ![d] = <<>>]
      /\ client_fd' = [client_fd EXCEPT ![d] = Nobody]
      /\ at' = [at EXCEPT ![d] = "killed"]
  BY DEF Die, Goto
<1>3. \A c \in Clients :
        connection'[c] = "open" =>
          connection[c] = "open" /\ c \notin Elements(queue[d]) /\ c # client_fd[d]
  BY DEF Die, Waiting, Elements
<1>4. \A e \in Daemons : Nobody \notin Elements(queue[e])
  BY ElementsAreClients DEF TypeOK
<1>5. Shared(queue', client_fd', connection')
  <2>1. /\ \A e \in Daemons : e # d => client_fd'[e] = client_fd[e] /\ queue'[e] = queue[e]
        /\ client_fd'[d] = Nobody /\ queue'[d] = <<>>
    BY <1>2 DEF TypeOK
  <2>2. \A c \in Clients :
          connection'[c] = "open" =>
            \E e \in Daemons : c \in Elements(queue'[e]) \/ c = client_fd'[e]
    BY <1>1, <1>3, <2>1 DEF Shared
  <2>3. \A e \in Daemons : Distinct(queue'[e])
    BY <1>1, <2>1, ElementsAreClients DEF Shared
  <2>4. \A e, g \in Daemons :
          e # g => /\ Elements(queue'[e]) \cap Elements(queue'[g]) = {}
                   /\ client_fd'[e] = client_fd'[g] => client_fd'[e] = Nobody
    BY <1>1, <2>1, ElementsAreClients DEF Shared
  <2>5. \A e, g \in Daemons : client_fd'[e] \notin Elements(queue'[g])
    BY <1>1, <1>4, <2>1, ElementsAreClients DEF Shared
  <2> QED BY <2>2, <2>3, <2>4, <2>5 DEF Shared
<1>6. \A e \in Daemons :
        client_fd'[e] # Nobody <=> at'[e] \in {"read", "write", "served", "failed"}
  BY <1>2 DEF TypeOK, ServerInv
<1> QED BY <1>5, <1>6, OneServerShared DEF ServerInv

\* accept() moves a connection from the queue to its server.
LEMMA AcceptServer ==
    ASSUME TypeOK, ServerInv, NEW d \in Daemons, accept(d)
    PROVE  OneServer'
<1>1. Shared(queue, client_fd, connection)
  BY OneServerShared DEF ServerInv
<1>2. /\ client_fd' = [client_fd EXCEPT ![d] = Head(queue[d])]
      /\ queue' = [queue EXCEPT ![d] = Tail(queue[d])]
      /\ connection' = connection
      /\ client_fd[d] = Nobody
  BY DEF accept, ServerInv
<1>3. queue[d] \in Seq(Clients) /\ queue[d] # <<>> /\ Distinct(queue[d])
  BY <1>1 DEF accept, TypeOK, Shared
<1>4. /\ Distinct(Tail(queue[d]))
      /\ Head(queue[d]) \in Clients
      /\ Elements(Tail(queue[d])) = Elements(queue[d]) \ {Head(queue[d])}
      /\ Head(queue[d]) \in Elements(queue[d])
  BY <1>3, TailElements
<1> HIDE DEF Distinct, Elements
<1>5. Shared(queue', client_fd', connection')
  <2> DEFINE h == Head(queue[d])
             t == Tail(queue[d])
  <2>1. /\ \A e \in Daemons : e # d => client_fd'[e] = client_fd[e] /\ queue'[e] = queue[e]
        /\ client_fd'[d] = h /\ queue'[d] = t
    BY <1>2 DEF TypeOK
  <2> HIDE DEF h, t
  <2>2. /\ Distinct(t) /\ h \in Clients /\ h \in Elements(queue[d])
        /\ Elements(t) = Elements(queue[d]) \ {h}
    BY <1>4 DEF h, t
  <2>3. \A e \in Daemons : Distinct(queue'[e])
    BY <1>1, <2>1, <2>2 DEF Shared
  <2>4. \A e, g \in Daemons :
          e # g => /\ Elements(queue'[e]) \cap Elements(queue'[g]) = {}
                   /\ client_fd'[e] = client_fd'[g] => client_fd'[e] = Nobody
    BY <1>1, <2>1, <2>2 DEF Shared
  <2>5. \A e, g \in Daemons : client_fd'[e] \notin Elements(queue'[g])
    BY <1>1, <2>1, <2>2 DEF Shared
  <2>6. \A c \in Clients :
          connection'[c] = "open" =>
            \E e \in Daemons : c \in Elements(queue'[e]) \/ c = client_fd'[e]
    <3> SUFFICES ASSUME NEW c \in Clients, connection[c] = "open"
                 PROVE  \E e \in Daemons : c \in Elements(queue'[e]) \/ c = client_fd'[e]
      BY <1>2
    <3>1. PICK e \in Daemons : c \in Elements(queue[e]) \/ c = client_fd[e]
      BY <1>1 DEF Shared
    <3>2. CASE c = h
      BY <2>1, <3>2
    <3>3. CASE c # h /\ e = d
      BY ZenonT(60), <1>2, <2>1, <2>2, <3>1, <3>3, DaemonAssumption
    <3>4. CASE e # d
      BY <2>1, <3>1, <3>4
    <3> QED BY <3>2, <3>3, <3>4
  <2> QED BY <2>3, <2>4, <2>5, <2>6 DEF Shared
<1> QED BY <1>5, OneServerShared

\* A client joins the queue of the daemon at the path.
LEMMA ConnectServer ==
    ASSUME TypeOK, ServerInv, NEW c \in Clients, Connect(c)
    PROVE  OneServer'
<1>1. Shared(queue, client_fd, connection)
  BY OneServerShared DEF ServerInv
<1>2. \A d \in Daemons : c \notin Elements(queue[d]) /\ c # client_fd[d]
  BY DEF Connect, Unused, Waiting, Elements
<1>3. client_fd' = client_fd
  BY DEF Connect
<1>4. CASE UNCHANGED queue /\ connection' = [connection EXCEPT ![c] = "idle"]
  BY <1>3, <1>4, SameServer DEF TypeOK
<1>5. CASE /\ path # Nobody
           /\ connection' = [connection EXCEPT ![c] = "open"]
           /\ queue' = [queue EXCEPT ![path] = Append(queue[path], c)]
  <2>1. path \in Daemons /\ queue[path] \in Seq(Clients) /\ Distinct(queue[path])
    BY <1>1, <1>5 DEF TypeOK, Shared
  <2> DEFINE q == Append(queue[path], c)
  <2>2. /\ \A d \in Daemons : d # path => queue'[d] = queue[d]
        /\ queue'[path] = q
        /\ \A b \in Clients : b # c => connection'[b] = connection[b]
    BY <1>5, <2>1 DEF TypeOK
  <2>3. Distinct(q) /\ Elements(q) = Elements(queue[path]) \cup {c}
    BY <1>2, <2>1, AppendElements
  <2> HIDE DEF q
  <2>4. \A d \in Daemons : Distinct(queue'[d])
    BY <1>1, <2>2, <2>3 DEF Shared
  <2>5. \A d, e \in Daemons :
          d # e => /\ Elements(queue'[d]) \cap Elements(queue'[e]) = {}
                   /\ client_fd'[d] = client_fd'[e] => client_fd'[d] = Nobody
    BY <1>1, <1>2, <1>3, <2>2, <2>3 DEF Shared
  <2>6. \A d, e \in Daemons : client_fd'[d] \notin Elements(queue'[e])
    BY <1>1, <1>2, <1>3, <2>2, <2>3 DEF Shared
  <2>7. ASSUME NEW b \in Clients, connection'[b] = "open"
        PROVE  \E d \in Daemons : b \in Elements(queue'[d]) \/ b = client_fd'[d]
    <3>1. CASE b = c
      BY <2>1, <2>2, <2>3, <3>1
    <3>2. CASE b # c
      <4>1. PICK d \in Daemons : b \in Elements(queue[d]) \/ b = client_fd[d]
        BY <1>1, <2>2, <2>7, <3>2 DEF Shared
      <4>2. b \in Elements(queue'[d]) \/ b = client_fd'[d]
        BY <1>3, <2>2, <2>3, <4>1
      <4> QED BY <4>2
    <3> QED BY <3>1, <3>2
  <2>8. Shared(queue', client_fd', connection')
    BY <2>4, <2>5, <2>6, <2>7 DEF Shared
  <2> QED BY <2>8, OneServerShared
<1> QED BY <1>4, <1>5 DEF Connect

\* A step of main() keeps the connections shared out.
LEMMA DaemonStepServer ==
    ASSUME TypeOK, ServerInv, NEW d \in Daemons, DaemonStep(d) \/ AcceptFails(d)
    PROVE  ServerInv'
<1> USE DEF Goto, signalVars, socketVars
<1>1. \A e \in Daemons :
        client_fd'[e] # Nobody <=> at'[e] \in {"read", "write", "served", "failed"}
  <2>1. CASE accept(d)
    <3>1. Head(queue[d]) \in Clients
      BY <2>1 DEF TypeOK, accept
    <3> QED BY <2>1, <3>1, DaemonAssumption DEF TypeOK, ServerInv, accept
  <2>2. CASE AfterServed(d) \/ AfterFailed(d)
    BY ZenonT(60), <2>2 DEF TypeOK, ServerInv, AfterServed, AfterFailed, CloseClient
  <2>3. CASE AcceptStopped(d) \/ ReadRequest(d) \/ ReadFails(d) \/ WriteResponse(d)
    BY ZenonT(60), <2>3
       DEF TypeOK, ServerInv, AcceptStopped, ReadRequest, ReadFails, WriteResponse
  <2>5. CASE OnceFailed(d) \/ CloseServer(d) \/ CloseFails(d) \/ Unlink(d) \/ AcceptFails(d)
    BY ZenonT(60), <2>5
       DEF TypeOK, ServerInv, OnceFailed, CloseServer, CloseFails, Unlink, AcceptFails
  <2>4. CASE \/ install_signal_handlers(d) \/ Lstat(d) \/ UnlinkStale(d) \/ StartFails(d)
             \/ Bind(d) \/ Chmod(d) \/ Listen(d) \/ SetupFails(d) \/ Ready(d)
    BY ZenonT(60), <2>4
       DEF TypeOK, ServerInv, install_signal_handlers, Lstat, UnlinkStale, StartFails,
       Bind, Chmod, Listen, SetupFails, Ready
  <2> QED BY <2>1, <2>2, <2>3, <2>4, <2>5 DEF DaemonStep
<1>2. OneServer'
  <2>1. CASE accept(d)
    BY <2>1, AcceptServer
  <2>2. CASE AfterServed(d) \/ AfterFailed(d)
    <3>1. client_fd[d] # Nobody
      BY <2>2 DEF ServerInv, AfterServed, AfterFailed
    <3> QED BY <2>2, <3>1, CloseClientServer DEF AfterServed, AfterFailed
  <2>3. CASE OnceFailed(d) \/ CloseServer(d) \/ CloseFails(d)
    BY <2>3, CloseListenerServer DEF OnceFailed, CloseServer, CloseFails
  <2>4. CASE AcceptFails(d)
    BY <2>4, CloseListenerServer, SameServer DEF AcceptFails
  <2>5. CASE WriteResponse(d)
    BY <2>5, SameServer DEF TypeOK, WriteResponse
  <2>6. CASE \/ AcceptStopped(d) \/ ReadRequest(d) \/ ReadFails(d) \/ Unlink(d)
             \/ install_signal_handlers(d) \/ Lstat(d) \/ UnlinkStale(d) \/ StartFails(d)
             \/ Bind(d) \/ Chmod(d) \/ Listen(d) \/ SetupFails(d) \/ Ready(d)
    BY <2>6, SameServer DEF AcceptStopped, ReadRequest, ReadFails, Unlink,
       install_signal_handlers, Lstat, UnlinkStale, StartFails, Bind, Chmod, Listen,
       SetupFails, Ready
  <2> QED BY <2>1, <2>2, <2>3, <2>4, <2>5, <2>6 DEF DaemonStep
<1> QED BY <1>1, <1>2 DEF ServerInv

\* Every step does.
LEMMA NextServer == TypeOK /\ ServerInv /\ [Next]_vars => ServerInv'
<1> SUFFICES ASSUME TypeOK, ServerInv, [Next]_vars PROVE ServerInv'
  OBVIOUS
<1> USE DEF signalVars, socketVars
<1>1. ASSUME NEW d \in Daemons, Start(d) PROVE ServerInv'
  <2>1. OneServer'
    BY <1>1, SameServer DEF Start
  <2> QED BY <1>1, <2>1 DEF TypeOK, ServerInv, Start, Goto
<1>2. ASSUME NEW d \in Daemons, DaemonStep(d) \/ AcceptFails(d) PROVE ServerInv'
  BY <1>2, DaemonStepServer
<1>3. ASSUME NEW d \in Daemons, handle_stop_signal(d) PROVE ServerInv'
  <2>1. CASE Die(d)
    BY <2>1, DieServer
  <2>2. CASE at[d] # "handlers"
    <3>1. OneServer'
      BY <1>3, <2>2, CloseListenerServer, SameServer DEF handle_stop_signal
    <3> QED BY <1>3, <2>2, <3>1 DEF ServerInv, handle_stop_signal
  <2> QED BY <1>3, <2>1, <2>2 DEF handle_stop_signal
<1>4. ASSUME NEW d \in Daemons, Crash(d) PROVE ServerInv'
  BY <1>4, DieServer DEF Crash
<1>5. ASSUME NEW c \in Clients, Connect(c) \/ Send(c) \/ Leave(c) PROVE ServerInv'
  <2>1. OneServer'
    BY <1>5, ConnectServer, SameServer DEF TypeOK, Send, Leave
  <2> QED BY <1>5, <2>1 DEF ServerInv, Connect, Send, Leave
<1>6. CASE UNCHANGED vars
  <2>1. OneServer'
    BY <1>6, SameServer DEF vars
  <2> QED BY <1>6, <2>1 DEF ServerInv, vars
<1> QED BY <1>1, <1>2, <1>3, <1>4, <1>5, <1>6 DEF Next

\* A daemon holds a connection exactly from accept() to close(), and a connection
\* has one daemon.
THEOREM ServerInvariance == Spec => []ServerInv
<1>1. Init => ServerInv
  BY DEF Init, ServerInv, OneServer, Waiting, Unused
<1> QED BY <1>1, NextServer, DaemonTypeCorrect, PTL DEF Spec

\* A connection is in one queue or has one server, at most once, until it was
\* answered or closed: however daemons overlap, stop and crash, none is lost
\* and none is closed or answered twice.
THEOREM OneServerHolds == Spec => []OneServer
<1>1. ServerInv => OneServer
  BY DEF ServerInv
<1> QED BY <1>1, ServerInvariance, PTL
=============================================================================
