------------------------- MODULE Connections_proofs -------------------------
(***************************************************************************)
(* First the invariants of the pool and its rows (module BridgePorts) for  *)
(* every set of bridges, container ports, deployments and port ranges, and *)
(* any number of restarts.  Then Connections: it implements BridgePorts,   *)
(* so the pool keeps its invariants whatever the connections do; and the   *)
(* two invariants of its own, for every set of bridges, connections and    *)
(* images.                                                                 *)
(***************************************************************************)
EXTENDS Connections, TLAPS

(***************************************************************************)
(* The pool and its rows.                                                  *)
(***************************************************************************)

\* What DistinctUntilTorn needs to be inductive: until then the port of a request
\* in flight is reserved too, and no row has it.
RequestReserved ==
  ~torn /\ req # None =>
    /\ req.port \in assigned
    /\ \A r \in Rows : pool_port[r] # req.port

IInv ==
  /\ TypeOK
  /\ Partition
  /\ NoLeak
  /\ DistinctUntilTorn
  /\ RequestReserved

-----------------------------------------------------------------------------

\* Releasing any set of ports keeps free and assignments within the pool and
\* disjoint, whoever the ports belonged to.
LEMMA ReleaseKeepsPartition ==
  ASSUME NEW ports, free \in SUBSET pool, assigned \in SUBSET pool, Partition,
         Release(ports), pool' = pool
  PROVE  /\ free' \in SUBSET pool' /\ assigned' \in SUBSET pool'
         /\ Partition'
  BY DEF Partition, Release

\* The initial state: every port is free and no row exists.
LEMMA InitInv == Init => IInv
<1> SUFFICES ASSUME Init PROVE IInv
  OBVIOUS
<1>1. TypeOK
  <2>1. restarts \in 0..MaxRestarts
    BY PoolAssumption DEF Init
  <2>4. torn \in BOOLEAN
    BY DEF Init
  <2>2. pool_port \in [Rows -> AllPorts \cup {None}]
    BY DEF Init
  <2>3. /\ starting \in [Deployments -> SUBSET AllPorts]
        /\ tracked \in [Deployments -> SUBSET AllPorts]
    BY DEF Init
  <2> QED
    BY <2>1, <2>2, <2>3, <2>4 DEF Init, TypeOK
<1>2. Partition /\ NoLeak
  BY DEF Init, Partition, NoLeak
<1>3. DistinctUntilTorn /\ RequestReserved
  BY DEF Init, DistinctUntilTorn, RequestReserved
<1> QED
  BY <1>1, <1>2, <1>3 DEF IInv

\* The ports of a bridge are ports.
LEMMA PortsOfType ==
  ASSUME TypeOK, NEW b \in Bridges
  PROVE  /\ PortsOf(b) \in SUBSET AllPorts
         /\ \A s \in Slots : pool_port[<<b, s>>] # None
                               => pool_port[<<b, s>>] \in PortsOf(b)
  BY DEF TypeOK, PortsOf, Rows

\* Types, one step per action.
LEMMA TypeStep == IInv /\ [Next]_vars => TypeOK'
<1> SUFFICES ASSUME IInv, [Next]_vars PROVE TypeOK'
  OBVIOUS
<1> USE DEF IInv
<1>1. ASSUME NEW b \in Bridges, CreateBridge(b) PROVE TypeOK'
  BY <1>1 DEF TypeOK, CreateBridge
<1>2. ASSUME NEW b \in Bridges, DeleteBridge(b) PROVE TypeOK'
  BY <1>2, ReleaseKeepsPartition DEF TypeOK, DeleteBridge
<1>3. ASSUME NEW b \in Bridges, NEW s \in Slots, ReservePort(b, s) PROVE TypeOK'
  <2>1. PICK p \in free : /\ Reserve(p)
                          /\ req' = [bridge |-> b, slot |-> s, port |-> p]
    BY <1>3 DEF ReservePort
  <2>2. p \in AllPorts
    BY DEF TypeOK, AllPorts
  <2> QED
    BY <1>3, <2>1, <2>2 DEF TypeOK, ReservePort, Reserve, Requests
<1>4. ASSUME NEW b \in Bridges, NEW s \in Slots, DeletePort(b, s) PROVE TypeOK'
  BY <1>4, ReleaseKeepsPartition DEF TypeOK, DeletePort
<1>5. ASSUME NEW b \in Bridges, NEW d \in Deployments, DeployStart(d, b)
      PROVE  TypeOK'
  BY <1>5, PortsOfType DEF TypeOK, DeployStart
<1>6. ASSUME InsertPort PROVE TypeOK'
  <2>1. req \in Requests
    BY <1>6 DEF InsertPort, TypeOK
  <2>2. CASE InsertOk(req) /\ UNCHANGED <<free, assigned>>
    BY <1>6, <2>1, <2>2 DEF TypeOK, InsertPort, FinishInsert, Requests
  <2>3. CASE Release({req.port}) /\ UNCHANGED pool_port
    BY <1>6, <2>1, <2>3, ReleaseKeepsPartition DEF TypeOK, InsertPort
  <2> QED
    BY <1>6, <2>2, <2>3 DEF InsertPort, FinishInsert
<1>7. ASSUME NEW d \in Deployments, NEW k \in Deployments,
             DeployTracked(d, k) \/ DeployFailed(d)
      PROVE  TypeOK'
  BY <1>7 DEF TypeOK, DeployTracked, DeployFailed
<1>8. ASSUME NEW d \in Deployments, Teardown(d) PROVE TypeOK'
  BY <1>8, ReleaseKeepsPartition DEF TypeOK, Teardown
<1>11. ASSUME NEW d \in Deployments, StopRelease(d) PROVE TypeOK'
  BY <1>11, ReleaseKeepsPartition DEF TypeOK, StopRelease
<1>12. ASSUME NEW d \in Deployments, StopForget(d) PROVE TypeOK'
  BY <1>12 DEF TypeOK, StopForget
<1>9. ASSUME Restart PROVE TypeOK'
  BY <1>9, PoolAssumption DEF TypeOK, Restart
<1>10. ASSUME UNCHANGED vars PROVE TypeOK'
  BY <1>10 DEF TypeOK, vars
<1> QED
  BY <1>1, <1>2, <1>3, <1>4, <1>5, <1>6, <1>7, <1>8, <1>9, <1>10,
     <1>11, <1>12 DEF Next

\* The partition, one step per kind of action.
LEMMA PartitionStep == IInv /\ [Next]_vars => Partition'
<1> SUFFICES ASSUME IInv, [Next]_vars PROVE Partition'
  OBVIOUS
<1> USE DEF IInv
<1>1. CASE UNCHANGED <<pool, free, assigned>>
  BY <1>1 DEF Partition
<1>2. ASSUME NEW ports, Release(ports), pool' = pool PROVE Partition'
  BY <1>2, ReleaseKeepsPartition DEF TypeOK
<1>3. ASSUME NEW b \in Bridges, NEW s \in Slots, ReservePort(b, s)
      PROVE  Partition'
  BY <1>3 DEF ReservePort, Reserve, Partition
<1>4. CASE Restart
  BY <1>4 DEF Restart, Partition
<1> QED
  BY <1>1, <1>2, <1>3, <1>4 DEF Next, vars, CreateBridge, DeleteBridge,
     DeletePort, DeployStart, InsertPort, FinishInsert, DeployTracked,
     DeployFailed, Teardown, StopRelease, StopForget

\* Reservations: rows only go together with their ports.
LEMMA NoLeakStep == IInv /\ [Next]_vars => NoLeak'
<1> SUFFICES ASSUME IInv, [Next]_vars PROVE NoLeak'
  OBVIOUS
<1> USE DEF IInv
<1>1. ASSUME assigned' \subseteq assigned, UNCHANGED <<pool_port, req>>
      PROVE  NoLeak'
  BY <1>1 DEF NoLeak
<1>2. ASSUME NEW b \in Bridges, DeleteBridge(b) PROVE NoLeak'
  <2> SUFFICES ASSUME NEW p \in assigned'
               PROVE  \E r \in Rows : pool_port'[r] = p
    BY DEF NoLeak
  <2>1. p \in assigned /\ p \notin PortsOf(b) /\ req = None
    BY <1>2 DEF DeleteBridge, Release
  <2>2. PICK r \in Rows : pool_port[r] = p
    BY <2>1 DEF NoLeak
  <2>3. p # None
    BY <2>1, PoolAssumption DEF TypeOK, AllPorts
  <2>4. r[1] # b
    BY <2>1, <2>2, <2>3, PortsOfType DEF Rows
  <2> QED
    BY <1>2, <2>2, <2>4 DEF DeleteBridge
<1>3. ASSUME NEW b \in Bridges, NEW s \in Slots, ReservePort(b, s) PROVE NoLeak'
  <2>1. PICK p \in free : /\ Reserve(p)
                          /\ req' = [bridge |-> b, slot |-> s, port |-> p]
    BY <1>3 DEF ReservePort
  <2>2. req' # None /\ req'.port = p
    BY <2>1, PoolAssumption DEF TypeOK, AllPorts, Requests
  <2>3. req = None /\ UNCHANGED pool_port
    BY <1>3 DEF ReservePort
  <2> QED
    BY <2>1, <2>2, <2>3 DEF Reserve, NoLeak
<1>4. ASSUME NEW b \in Bridges, NEW s \in Slots, DeletePort(b, s) PROVE NoLeak'
  BY <1>4 DEF DeletePort, Release, NoLeak, TypeOK
<1>5. CASE InsertPort
  <2>1. req \in Requests
    BY <1>5 DEF InsertPort, TypeOK
  <2>2. CASE InsertOk(req) /\ UNCHANGED <<free, assigned>>
             /\ pool_port' = [pool_port EXCEPT ![<<req.bridge, req.slot>>] = req.port]
    <3> SUFFICES ASSUME NEW p \in assigned'
                 PROVE  \E r \in Rows : pool_port'[r] = p
      BY DEF NoLeak
    <3>1. CASE p = req.port
      BY <2>1, <2>2, <3>1 DEF TypeOK, Requests, Rows
    <3>2. CASE p # req.port
      <4>1. PICK r \in Rows : pool_port[r] = p
        BY <2>2, <3>2 DEF NoLeak
      <4>2. p # None
        BY <2>2, PoolAssumption DEF TypeOK, AllPorts
      <4>3. r # <<req.bridge, req.slot>>
        BY <2>2, <4>1, <4>2 DEF InsertOk
      <4> QED
        BY <2>2, <4>1, <4>3 DEF TypeOK
    <3> QED
      BY <3>1, <3>2
  <2>3. CASE Release({req.port}) /\ UNCHANGED pool_port
    BY <1>5, <2>3 DEF InsertPort, Release, NoLeak
  <2> QED
    BY <1>5, <2>2, <2>3 DEF InsertPort, FinishInsert
<1>6. ASSUME NEW d \in Deployments, Teardown(d) \/ StopRelease(d) PROVE NoLeak'
  BY <1>6, <1>1 DEF Teardown, StopRelease, Release
<1>7. CASE Restart
  BY <1>7 DEF Restart, NoLeak
<1> QED
  BY <1>1, <1>2, <1>3, <1>4, <1>5, <1>6, <1>7 DEF Next, vars, CreateBridge,
     DeployStart, DeployTracked, DeployFailed, StopForget

\* Until a deployment ends, a row and a request never share a port.
LEMMA DistinctStep == IInv /\ [Next]_vars => DistinctUntilTorn' /\ RequestReserved'
<1> SUFFICES ASSUME IInv, [Next]_vars
             PROVE  DistinctUntilTorn' /\ RequestReserved'
  OBVIOUS
<1> USE DEF IInv
<1>1. ASSUME UNCHANGED <<pool_port, req, assigned, torn>>
      PROVE  DistinctUntilTorn' /\ RequestReserved'
  BY <1>1 DEF DistinctUntilTorn, RequestReserved
<1>2. ASSUME torn' PROVE DistinctUntilTorn' /\ RequestReserved'
  BY <1>2 DEF DistinctUntilTorn, RequestReserved
<1>3. ASSUME NEW b \in Bridges, DeleteBridge(b)
      PROVE  DistinctUntilTorn' /\ RequestReserved'
  <2>1. /\ req' = None
        /\ torn' = torn
        /\ assigned' = assigned \ PortsOf(b)
    BY <1>3 DEF DeleteBridge, Release
  <2>2. \A r \in Rows : pool_port'[r] # None
                          => r[1] # b /\ pool_port'[r] = pool_port[r]
    BY <1>3 DEF DeleteBridge, Rows
  <2>3. ASSUME ~torn, NEW r \in Rows, pool_port[r] # None, r[1] # b
        PROVE  pool_port[r] \notin PortsOf(b)
    <3> SUFFICES ASSUME NEW s \in Slots, pool_port[<<b, s>>] = pool_port[r]
                 PROVE  FALSE
      BY DEF PortsOf
    <3>1. r = <<b, s>>
      BY <2>3 DEF DistinctUntilTorn, Rows
    <3> QED
      BY <2>3, <3>1
  <2> QED
    BY <2>1, <2>2, <2>3 DEF DistinctUntilTorn, RequestReserved, Rows
<1>4. ASSUME NEW b \in Bridges, NEW s \in Slots, ReservePort(b, s)
      PROVE  DistinctUntilTorn' /\ RequestReserved'
  <2>1. PICK p \in free : /\ Reserve(p)
                          /\ req' = [bridge |-> b, slot |-> s, port |-> p]
    BY <1>4 DEF ReservePort
  <2>2. p \notin assigned /\ p # None
    BY PoolAssumption DEF Partition, TypeOK, AllPorts
  <2>3. UNCHANGED <<pool_port, torn>> /\ req'.port = p
    BY <1>4, <2>1 DEF ReservePort
  <2> QED
    BY <2>1, <2>2, <2>3 DEF DistinctUntilTorn, RequestReserved, Reserve, Rows
<1>5. ASSUME NEW b \in Bridges, NEW s \in Slots, DeletePort(b, s)
      PROVE  DistinctUntilTorn' /\ RequestReserved'
  <2> DEFINE row == <<b, s>>
  <2>1. /\ req' = None
        /\ torn' = torn
        /\ row \in Rows
        /\ assigned' = assigned \ {pool_port[row]}
        /\ pool_port' = [pool_port EXCEPT ![row] = None]
    BY <1>5 DEF DeletePort, Release, Rows
  <2> HIDE DEF row
  <2> QED
    BY <2>1 DEF DistinctUntilTorn, RequestReserved, Rows, TypeOK
<1>6. ASSUME InsertPort PROVE DistinctUntilTorn' /\ RequestReserved'
  <2> DEFINE row == <<req.bridge, req.slot>>
  <2>1. req # None /\ req \in Requests /\ req' = None /\ torn' = torn
    BY <1>6 DEF InsertPort, TypeOK
  <2>2. row \in Rows
    BY <2>1 DEF Requests, Rows
  <2>3. ASSUME pool_port[row] = None, UNCHANGED <<free, assigned>>,
               pool_port' = [pool_port EXCEPT ![row] = req.port]
        PROVE  DistinctUntilTorn' /\ RequestReserved'
    <3> HIDE DEF row
    <3> QED
      BY <2>1, <2>2, <2>3 DEF DistinctUntilTorn, RequestReserved, Rows, TypeOK
  <2>4. CASE Release({req.port}) /\ UNCHANGED pool_port
    BY <2>1, <2>4 DEF DistinctUntilTorn, RequestReserved, Release, Rows
  <2> QED
    BY <1>6, <2>3, <2>4 DEF InsertPort, FinishInsert, InsertOk
<1>7. ASSUME NEW d \in Deployments, Teardown(d) \/ StopRelease(d)
      PROVE  DistinctUntilTorn' /\ RequestReserved'
  BY <1>2, <1>7 DEF Teardown, StopRelease
<1>8. CASE Restart
  BY <1>2, <1>8 DEF Restart
<1> QED
  BY <1>1, <1>3, <1>4, <1>5, <1>6, <1>7, <1>8 DEF Next, vars, CreateBridge,
     DeployStart, DeployTracked, DeployFailed, StopForget

-----------------------------------------------------------------------------

\* The inductive invariant of the port pool and its rows.
THEOREM Invariance == Spec => []IInv
<1>1. Init => IInv
  BY InitInv
<1>2. IInv /\ [Next]_vars => IInv'
  BY TypeStep, PartitionStep, NoLeakStep, DistinctStep DEF IInv
<1> QED
  BY <1>1, <1>2, PTL DEF Spec

\* Every variable keeps its type: in particular free and assignments never hold a
\* port that PortPool::new has not bound.
THEOREM TypeCorrect == Spec => []TypeOK
<1>1. IInv => TypeOK
  BY DEF IInv
<1> QED
  BY <1>1, Invariance, PTL

\* free and assignments partition the bound ports under every interleaving of
\* requests, deployments that end, and restarts with another range.
THEOREM PoolPartitioned == Spec => []Partition
<1>1. IInv => Partition
  BY DEF IInv
<1> QED
  BY <1>1, Invariance, PTL

\* reserve_one never loses a port: it belongs to a row or to the request that is
\* about to store it or give it back.
THEOREM NoPortLeaks == Spec => []NoLeak
<1>1. IInv => NoLeak
  BY DEF IInv
<1> QED
  BY <1>1, Invariance, PTL

\* Rows have distinct, reserved ports until the first deployment ends or kdcts
\* restarts: those two are the only ways to the sharing that the code allows.
THEOREM DistinctPorts == Spec => []DistinctUntilTorn
<1>1. IInv => DistinctUntilTorn
  BY DEF IInv
<1> QED
  BY <1>1, Invariance, PTL

-----------------------------------------------------------------------------
(***************************************************************************)
(* The connections.                                                        *)
(***************************************************************************)

\* What NoCrossTalk needs to be inductive: what is served still has its row.
ServedHasRow ==
  ~torn /\ ~freed =>
    /\ \A r \in Rows : routes[r] # None => pool_port[r] = routes[r]
    /\ \A c \in Deployments : \A x \in plan[c] : pool_port[x[1]] = x[2]

\* Between removing its routes and removing its record, a stop that nothing has
\* overtaken leaves no route to a port of the record.
StopClean ==
  api # None /\ api.pc = "forget" /\ ~api.raced
    => \A r \in Rows : routes[r] # None => routes[r] \notin tracked[conn[api.conn].name]

CInv ==
  /\ IInv
  /\ CTypeOK
  /\ RoutesTracked
  /\ StopClean
  /\ ServedHasRow

Api == [pc : {"stop", "forget", "update"}, conn : Deployments,
        then : {"patch", "delete"}, raced : BOOLEAN]

-----------------------------------------------------------------------------

\* Every step of Connections is a step of the pool and its rows, or leaves them
\* alone.
LEMMA StepImplements == CTypeOK /\ [CNext]_cvars => [Next]_vars
<1> SUFFICES ASSUME CTypeOK, [CNext]_cvars PROVE [Next]_vars
  OBVIOUS
<1>1. ASSUME NEW b \in Bridges, AddBridge(b) \/ RemoveBridge(b) PROVE Next
  BY <1>1 DEF AddBridge, RemoveBridge, Next
<1>2. ASSUME NEW b \in Bridges, NEW s \in Slots, AddPort(b, s) \/ RemovePort(b, s)
      PROVE  Next
  BY <1>2 DEF AddPort, RemovePort, Next
<1>3. ASSUME AddedPort PROVE Next
  BY <1>3 DEF AddedPort, Next
<1>4. ASSUME NEW i \in Images, LoadHub(i) \/ CloneStart(i) \/ CloneEnd(i)
      PROVE  UNCHANGED vars
  BY <1>4 DEF LoadHub, CloneStart, CloneEnd
<1>5. ASSUME NEW c \in Deployments, NEW then \in {"patch", "delete"},
             CreateConnection(c) \/ PatchConnection(c) \/ DeleteConnection(c)
               \/ StopStart(c, then)
      PROVE  UNCHANGED vars
  BY <1>5 DEF CreateConnection, PatchConnection, DeleteConnection, StopStart
<1>6. ASSUME NEW c \in Deployments, DeployConnection(c) PROVE Next
  <2>1. conn[c].bridge \in Bridges
    BY <1>6 DEF DeployConnection, CTypeOK, Connection
  <2> QED
    BY <1>6, <2>1 DEF DeployConnection, Next
<1>7. ASSUME NEW c \in Deployments, DeployRecord(c) PROVE Next
  <2>1. conn[c].name \in Deployments
    BY DEF CTypeOK, Connection
  <2> QED
    BY <1>7, <2>1 DEF DeployRecord, Next
<1>8. ASSUME NEW c \in Deployments, DeployFail(c) \/ RemoveByNode(c) PROVE Next
  BY <1>8 DEF DeployFail, RemoveByNode, Next
<1>9. ASSUME NEW c \in Deployments, DeployWire(c) PROVE UNCHANGED vars
  BY <1>9 DEF DeployWire
<1>10. ASSUME api # None PROVE conn[api.conn].name \in Deployments
  BY <1>10 DEF CTypeOK, Connection
<1>11. ASSUME StopRoutes PROVE Next \/ UNCHANGED vars
  <2>1. conn[api.conn].name \in Deployments
    BY <1>10, <1>11 DEF StopRoutes
  <2> QED
    BY <1>11, <2>1 DEF StopRoutes, EndRoutes, Next
<1>12. ASSUME StopTracker PROVE Next
  <2>1. conn[api.conn].name \in Deployments
    BY <1>10, <1>12 DEF StopTracker
  <2> QED
    BY <1>12, <2>1 DEF StopTracker, Next
<1>13. ASSUME StopUpdate \/ Connected \/ Disconnected PROVE UNCHANGED vars
  BY <1>13 DEF StopUpdate, Connected, Disconnected
<1>14. ASSUME CRestart PROVE Next
  BY <1>14 DEF CRestart, Next
<1>15. ASSUME UNCHANGED cvars PROVE UNCHANGED vars
  BY <1>15 DEF cvars
<1> QED
  BY <1>1, <1>2, <1>3, <1>4, <1>5, <1>6, <1>7, <1>8, <1>9, <1>11, <1>12, <1>13,
     <1>14, <1>15 DEF CNext

-----------------------------------------------------------------------------

\* update_connection leaves a row.
LEMMA UpdateType ==
  ASSUME NEW c \in Deployments, NEW row \in Connection, NEW w \in BOOLEAN,
         bridges \subseteq Bridges, images \subseteq Images,
         conn \in [Deployments -> Connection], Update(c, row, w)
  PROVE  conn' \in [Deployments -> Connection]
<1>1. row.node \in BOOLEAN /\ row.bridge \in Bridges \cup {None}
        /\ row.image \in Images \cup {None}
  BY DEF Connection
<1>2. PICK b \in {row.bridge, None} \cup bridges, i \in {row.image, None} \cup images,
           n \in IF w THEN BOOLEAN ELSE {row.node} :
        conn' = [conn EXCEPT ![c] = [row EXCEPT !.bridge = b, !.image = i, !.node = n]]
  BY Zenon DEF Update
<1>4. b \in Bridges \cup {None} /\ i \in Images \cup {None}
  BY <1>1
<1>5. n \in BOOLEAN
  BY <1>1, Zenon
<1>3. [row EXCEPT !.bridge = b, !.image = i, !.node = n] \in Connection
  BY <1>4, <1>5 DEF Connection
<1> QED
  BY <1>2, <1>3

\* What a deploy and a stop write.
LEMMA NodeStatusType ==
  ASSUME NEW row \in Connection, NEW n \in BOOLEAN, NEW st \in {"pending", "deployed"}
  PROVE  [row EXCEPT !.node = n, !.status = st] \in Connection
  BY DEF Connection

\* The rows of connections.
LEMMA ConnStep == CInv /\ [CNext]_cvars => conn' \in [Deployments -> Connection]
<1> SUFFICES ASSUME CInv, [CNext]_cvars PROVE conn' \in [Deployments -> Connection]
  OBVIOUS
<1>1. /\ conn \in [Deployments -> Connection]
      /\ bridges \subseteq Bridges /\ images \subseteq Images
  BY DEF CInv, CTypeOK, TypeOK
<1>2. ASSUME NEW c \in Deployments, NEW row \in Connection,
             conn' = [conn EXCEPT ![c] = row]
      PROVE  conn' \in [Deployments -> Connection]
  BY <1>1, <1>2
<1>3. ASSUME NEW c \in Deployments
      PROVE  /\ conn[c] \in Connection
             /\ NoRow(c) \in Connection
             /\ Deleted(c) \in Connection
  BY <1>1 DEF NoRow, Deleted, Connection
<1>4. ASSUME NEW b \in Bridges, RemoveBridge(b)
      PROVE  conn' \in [Deployments -> Connection]
  BY <1>1, <1>4 DEF RemoveBridge, Connection
<1>5. ASSUME NEW i \in Images, InsertImage(i)
      PROVE  conn' \in [Deployments -> Connection]
  BY <1>1, <1>5 DEF InsertImage, Connection
<1>6. ASSUME NEW c \in Deployments, CreateConnection(c)
      PROVE  conn' \in [Deployments -> Connection]
  <2>1. PICK k \in Deployments :
          Update(c, [NoRow(c) EXCEPT !.name = k, !.status = "pending"], TRUE)
    BY <1>6 DEF CreateConnection
  <2>2. [NoRow(c) EXCEPT !.name = k, !.status = "pending"] \in Connection
    BY DEF NoRow, Connection
  <2> QED
    BY <1>1, <2>1, <2>2, UpdateType
<1>7. ASSUME NEW c \in Deployments, PatchConnection(c)
      PROVE  conn' \in [Deployments -> Connection]
  BY <1>1, <1>3, <1>7, UpdateType DEF PatchConnection
<1>8. ASSUME NEW c \in Deployments, DeleteConnection(c)
      PROVE  conn' \in [Deployments -> Connection]
  BY <1>2, <1>3, <1>8 DEF DeleteConnection
<1>9. ASSUME StopUpdate PROVE conn' \in [Deployments -> Connection]
  <2>1. PICK c \in Deployments : c = api.conn
    BY <1>9 DEF StopUpdate, CInv, CTypeOK
  <2>2. [conn[c] EXCEPT !.node = FALSE, !.status = "pending"] \in Connection
    BY <1>3, NodeStatusType
  <2>3. CASE Update(c, [conn[c] EXCEPT !.node = FALSE, !.status = "pending"], TRUE)
    BY <1>1, <2>2, <2>3, UpdateType
  <2>4. CASE conn' = [conn EXCEPT ![c] = Deleted(c)]
    BY <1>2, <1>3, <2>4
  <2> QED
    BY <1>9, <2>1, <2>3, <2>4 DEF StopUpdate
<1>10. ASSUME NEW c \in Deployments, DeployWire(c)
       PROVE  conn' \in [Deployments -> Connection]
  <2>1. \/ conn' = conn
        \/ conn' = [conn EXCEPT ![c] = [conn[c] EXCEPT !.node = TRUE,
                                                      !.status = "deployed"]]
    BY <1>1, <1>10 DEF DeployWire
  <2>2. [conn[c] EXCEPT !.node = TRUE, !.status = "deployed"] \in Connection
    BY <1>3, NodeStatusType
  <2> QED
    BY <1>1, <1>2, <2>1, <2>2
<1>11. ASSUME Disconnected PROVE conn' \in [Deployments -> Connection]
  BY <1>1, <1>11 DEF Disconnected, Connection
<1>12. CASE UNCHANGED conn
  BY <1>1, <1>12
<1> QED
  BY <1>4, <1>5, <1>6, <1>7, <1>8, <1>9, <1>10, <1>11, <1>12
  DEF CNext, cvars, AddBridge, AddPort, AddedPort, RemovePort, LoadHub, CloneStart,
      CloneEnd, StopStart, StopRoutes, StopTracker, DeployConnection, DeployRecord,
      DeployFail, RemoveByNode, Connected, CRestart

\* A deploy plans to lead the rows of its bridge to their own ports.
LEMMA PlanType ==
  ASSUME CTypeOK, NEW c \in Deployments, DeployConnection(c)
  PROVE  /\ plan' \in [Deployments -> SUBSET (Rows \X AllPorts)]
         /\ \A x \in plan'[c] : x[1] \in Rows /\ pool_port[x[1]] = x[2]
<1>1. PICK b \in Bridges : b = conn[c].bridge
  BY DEF DeployConnection, CTypeOK, Connection
<1>2. ASSUME NEW r \in RowsOf(b) PROVE r \in Rows /\ pool_port[r] \in AllPorts
  BY DEF RowsOf, Rows, CTypeOK, TypeOK
<1>3. /\ plan \in [Deployments -> SUBSET (Rows \X AllPorts)]
      /\ plan' = [plan EXCEPT ![c] = {<<r, pool_port[r]>> : r \in RowsOf(b)}]
  BY <1>1 DEF DeployConnection, CTypeOK
<1>4. {<<r, pool_port[r]>> : r \in RowsOf(b)} \in SUBSET (Rows \X AllPorts)
  BY <1>2
<1>5. plan'[c] = {<<r, pool_port[r]>> : r \in RowsOf(b)}
  BY <1>3
<1> HIDE DEF RowsOf
<1> QED
  BY <1>2, <1>3, <1>4, <1>5

\* What DeployWire does to the table: a route is one of the plan, or an old one.
LEMMA WireRoutes ==
  ASSUME CTypeOK, NEW c \in Deployments, DeployWire(c), NEW r \in Rows
  PROVE  \/ routes'[r] = routes[r]
         \/ \E x \in Settable(c) : x[1] = r /\ routes'[r] = x[2]
<1>1. routes'[r] = IF \E x \in Settable(c) : x[1] = r
                     THEN (CHOOSE x \in Settable(c) : x[1] = r)[2] ELSE routes[r]
  BY DEF DeployWire
<1> QED
  BY <1>1

\* The table.
LEMMA RoutesStep ==
  CInv /\ [CNext]_cvars => /\ routes' \in [Rows -> AllPorts \cup {None}]
                           /\ stray' \in SUBSET Rows
<1> SUFFICES ASSUME CInv, [CNext]_cvars
             PROVE  /\ routes' \in [Rows -> AllPorts \cup {None}]
                    /\ stray' \in SUBSET Rows
  OBVIOUS
<1>1. /\ CTypeOK
      /\ routes \in [Rows -> AllPorts \cup {None}]
      /\ stray \in SUBSET Rows
      /\ plan \in [Deployments -> SUBSET (Rows \X AllPorts)]
  BY DEF CInv, CTypeOK
<1>2. ASSUME NEW ports, RemoveByPort(ports)
      PROVE  /\ routes' \in [Rows -> AllPorts \cup {None}]
             /\ stray' \in SUBSET Rows
  BY <1>1, <1>2 DEF RemoveByPort
<1>3. \A k : OnlyIn(k) \in SUBSET Rows
  BY DEF OnlyIn
<1>4. ASSUME NEW c \in Deployments, DeployRecord(c)
      PROVE  UNCHANGED routes /\ stray' \in SUBSET Rows
  BY <1>1, <1>3, <1>4 DEF DeployRecord
<1>5. ASSUME StopTracker PROVE UNCHANGED routes /\ stray' \in SUBSET Rows
  BY <1>1, <1>3, <1>5 DEF StopTracker
<1>6. ASSUME NEW c \in Deployments, DeployWire(c)
      PROVE  /\ routes' \in [Rows -> AllPorts \cup {None}]
             /\ stray' \in SUBSET Rows
  <2>1. \A x \in Settable(c) : x[1] \in Rows /\ x[2] \in AllPorts
    BY <1>1 DEF Settable
  <2>2. \A r \in Rows : routes'[r] \in AllPorts \cup {None}
    BY <1>1, <1>6, <2>1, WireRoutes
  <2>3. routes' = [r \in Rows |-> routes'[r]]
    BY <1>6 DEF DeployWire
  <2>4. stray' \in SUBSET Rows
    BY <1>1, <1>6, <2>1 DEF DeployWire
  <2> QED
    BY <2>2, <2>3, <2>4
<1>7. CASE CRestart
  BY <1>7 DEF CRestart
<1>8. CASE UNCHANGED <<routes, stray>>
  BY <1>1, <1>8
<1>9. CASE StopRoutes
  BY <1>2, <1>8, <1>9 DEF StopRoutes, EndRoutes
<1> QED
  BY <1>1, <1>2, <1>4, <1>5, <1>6, <1>7, <1>8, <1>9
  DEF CNext, cvars, AddBridge, RemoveBridge, AddPort, RemovePort, AddedPort, LoadHub,
      CloneStart, CloneEnd, CreateConnection, PatchConnection, DeleteConnection,
      StopStart, StopUpdate, DeployConnection, DeployFail, RemoveByNode, Connected,
      Disconnected

\* The bound on edits.
LEMMA EditBound ==
  ASSUME edits \in 0..MaxEdits, UNCHANGED edits \/ Edit
  PROVE  edits' \in 0..MaxEdits
  BY SlotsAssumption DEF Edit

\* The request in the API thread.
LEMMA ApiType ==
  ASSUME api \in Api \cup {None},
         \/ UNCHANGED api
         \/ api' = None
         \/ \E c \in Deployments, then \in {"patch", "delete"} :
               api' = [pc |-> "stop", conn |-> c, then |-> then, raced |-> FALSE]
         \/ api # None /\ \E pc \in {"forget", "update"} :
               api' = [api EXCEPT !.pc = pc]
         \/ api # None /\ api' = [api EXCEPT !.raced = TRUE]
  PROVE  api' \in Api \cup {None}
<1>1. ASSUME NEW c \in Deployments, NEW then \in {"patch", "delete"},
             api' = [pc |-> "stop", conn |-> c, then |-> then, raced |-> FALSE]
      PROVE  api' \in Api
  BY <1>1 DEF Api
<1>2. ASSUME api # None, NEW pc \in {"forget", "update"}, api' = [api EXCEPT !.pc = pc]
      PROVE  api' \in Api
  BY <1>2 DEF Api
<1>3. ASSUME api # None, api' = [api EXCEPT !.raced = TRUE] PROVE api' \in Api
  BY <1>3 DEF Api
<1> QED
  BY <1>1, <1>2, <1>3

\* The rest of the state.
LEMMA OtherStep ==
  CInv /\ [CNext]_cvars =>
    /\ images' \in SUBSET Images /\ built' \in SUBSET Images
    /\ cloning' \in SUBSET Images
    /\ online' \in BOOLEAN /\ leaving' \in BOOLEAN /\ freed' \in BOOLEAN
    /\ edits' \in 0..MaxEdits
    /\ api' \in Api \cup {None}
    /\ plan' \in [Deployments -> SUBSET (Rows \X AllPorts)]
<1> SUFFICES ASSUME CInv, [CNext]_cvars
             PROVE  /\ images' \in SUBSET Images /\ built' \in SUBSET Images
                    /\ cloning' \in SUBSET Images
                    /\ online' \in BOOLEAN /\ leaving' \in BOOLEAN
                    /\ freed' \in BOOLEAN
                    /\ edits' \in 0..MaxEdits
                    /\ api' \in Api \cup {None}
                    /\ plan' \in [Deployments -> SUBSET (Rows \X AllPorts)]
  OBVIOUS
<1>0. CTypeOK
  BY DEF CInv
<1>1. /\ images \in SUBSET Images /\ built \in SUBSET Images
      /\ cloning \in SUBSET Images
      /\ online \in BOOLEAN /\ leaving \in BOOLEAN /\ freed \in BOOLEAN
      /\ edits \in 0..MaxEdits
      /\ api \in Api \cup {None}
      /\ plan \in [Deployments -> SUBSET (Rows \X AllPorts)]
  BY <1>0 DEF CTypeOK, Api
<1> USE DEF CNext, cvars, catalogVars, nodeVars, AddBridge, RemoveBridge, AddPort,
        RemovePort, AddedPort, LoadHub, CloneStart, CloneEnd, CreateConnection,
        PatchConnection, DeleteConnection, StopStart, StopRoutes, StopTracker,
        StopUpdate, DeployConnection, DeployRecord, DeployFail, DeployWire, Connected,
        Disconnected, RemoveByNode, CRestart
<1>2. images' \in SUBSET Images /\ built' \in SUBSET Images /\ cloning' \in SUBSET Images
  BY <1>1 DEF InsertImage
<1>3. online' \in BOOLEAN /\ leaving' \in BOOLEAN
  BY <1>1, Zenon
<1>4. freed' \in BOOLEAN
  BY <1>1, Zenon
<1>5. edits' \in 0..MaxEdits
  <2>1. UNCHANGED edits \/ Edit
    OBVIOUS
  <2> QED
    BY <1>1, <2>1, EditBound
<1>6. api' \in Api \cup {None}
  <2>1. \/ UNCHANGED api
        \/ api' = None
        \/ \E c \in Deployments, then \in {"patch", "delete"} :
              api' = [pc |-> "stop", conn |-> c, then |-> then, raced |-> FALSE]
        \/ api # None /\ \E pc \in {"forget", "update"} :
              api' = [api EXCEPT !.pc = pc]
        \/ api # None /\ api' = [api EXCEPT !.raced = TRUE]
    BY Zenon DEF RacedIf, Forgetting
  <2> QED
    BY <1>1, <2>1, ApiType
<1>7. plan' \in [Deployments -> SUBSET (Rows \X AllPorts)]
  <2>1. ASSUME NEW c \in Deployments, DeployConnection(c)
        PROVE  plan' \in [Deployments -> SUBSET (Rows \X AllPorts)]
    BY <1>0, <2>1, PlanType
  <2>2. CASE UNCHANGED plan
    BY <1>1, <2>2
  <2>3. ASSUME NEW c \in Deployments, plan' = [plan EXCEPT ![c] = {}]
        PROVE  plan' \in [Deployments -> SUBSET (Rows \X AllPorts)]
    BY <1>1, <2>3
  <2>4. CASE plan' = [c \in Deployments |-> {}]
    BY <2>4
  <2> QED
    BY <2>1, <2>2, <2>3, <2>4
<1> QED
  BY <1>2, <1>3, <1>4, <1>5, <1>6, <1>7

\* RoutesTracked, one step per action that touches the table or the tracker.
LEMMA TrackedStep == CInv /\ [CNext]_cvars => RoutesTracked'
<1> SUFFICES ASSUME CInv, [CNext]_cvars, NEW r \in Rows, routes'[r] # None
             PROVE  r \in stray' \/ \E k \in Deployments : routes'[r] \in tracked'[k]
  BY DEF RoutesTracked
<1>1. /\ CTypeOK
      /\ routes \in [Rows -> AllPorts \cup {None}]
      /\ tracked \in [Deployments -> SUBSET AllPorts]
      /\ routes[r] # None => r \in stray \/ \E k \in Deployments : routes[r] \in tracked[k]
  BY DEF CInv, CTypeOK, TypeOK, RoutesTracked
<1>2. CASE UNCHANGED <<routes, stray, tracked>>
  BY <1>1, <1>2
<1>3. ASSUME StopRoutes
      PROVE  r \in stray' \/ \E k \in Deployments : routes'[r] \in tracked'[k]
  BY <1>1, <1>2, <1>3 DEF StopRoutes, EndRoutes, StopRelease, RemoveByPort, vars
<1>4. ASSUME NEW k \in Deployments, UNCHANGED routes,
             \A l \in Deployments \ {k} : tracked'[l] = tracked[l],
             \A t \in OnlyIn(k) : t \in stray' \/ routes[t] \in tracked'[k],
             stray \subseteq stray'
      PROVE  r \in stray' \/ \E l \in Deployments : routes'[r] \in tracked'[l]
  BY <1>1, <1>4 DEF OnlyIn
<1>5. ASSUME StopTracker
      PROVE  r \in stray' \/ \E k \in Deployments : routes'[r] \in tracked'[k]
  <2>1. PICK k \in Deployments : k = conn[api.conn].name
    BY <1>1, <1>5 DEF StopTracker, CTypeOK, Connection
  <2>2. UNCHANGED routes /\ \A l \in Deployments \ {k} : tracked'[l] = tracked[l]
    BY <1>1, <1>5, <2>1 DEF StopTracker, StopForget
  <2>3. CASE api.raced
    BY <1>1, <1>4, <1>5, <2>1, <2>2, <2>3 DEF StopTracker
  <2>4. CASE ~api.raced
    <3>1. OnlyIn(k) = {}
      BY <1>1, <1>5, <2>1, <2>4, PoolAssumption
      DEF CInv, StopClean, StopTracker, OnlyIn
    <3>2. stray' = stray
      BY <1>5, <2>4 DEF StopTracker
    <3> QED
      BY <1>1, <1>4, <2>2, <3>1, <3>2
  <2> QED
    BY <2>3, <2>4
<1>6. ASSUME NEW c \in Deployments, DeployRecord(c)
      PROVE  r \in stray' \/ \E k \in Deployments : routes'[r] \in tracked'[k]
  <2>1. PICK k \in Deployments : k = conn[c].name
    BY <1>1 DEF CTypeOK, Connection
  <2> QED
    BY <1>1, <1>4, <1>6, <2>1 DEF DeployRecord, DeployTracked
<1>7. ASSUME NEW c \in Deployments, DeployWire(c)
      PROVE  r \in stray' \/ \E k \in Deployments : routes'[r] \in tracked'[k]
  <2>1. UNCHANGED tracked /\ stray \subseteq stray'
    BY <1>7 DEF DeployWire, vars
  <2>2. CASE routes'[r] = routes[r]
    BY <1>1, <2>1, <2>2
  <2>3. ASSUME NEW x \in Settable(c), x[1] = r, routes'[r] = x[2]
        PROVE  r \in stray' \/ \E k \in Deployments : routes'[r] \in tracked'[k]
    BY <1>7, <2>1, <2>3 DEF DeployWire
  <2> QED
    BY <1>1, <1>7, <2>2, <2>3, WireRoutes
<1>8. ASSUME NEW k \in Deployments, RemoveByNode(k)
      PROVE  r \in stray' \/ \E l \in Deployments : routes'[r] \in tracked'[l]
  BY <1>1, <1>8 DEF RemoveByNode, Teardown, RemoveByPort
<1>9. CASE CRestart
  BY <1>9 DEF CRestart
<1> QED
  BY <1>2, <1>3, <1>5, <1>6, <1>7, <1>8, <1>9
  DEF CNext, cvars, vars, AddBridge, CreateBridge, RemoveBridge, DeleteBridge, AddPort,
      ReservePort, RemovePort, DeletePort, AddedPort, InsertPort, LoadHub, CloneStart,
      CloneEnd, CreateConnection, PatchConnection, DeleteConnection, StopStart,
      StopUpdate, DeployConnection, DeployStart, DeployFail, DeployFailed, Connected,
      Disconnected

\* A connection keeps its name while a request is stopping it.
LEMMA NameKept ==
  ASSUME CTypeOK, [CNext]_cvars, api # None
  PROVE  conn'[api.conn].name = conn[api.conn].name
<1>1. conn \in [Deployments -> Connection] /\ api.conn \in Deployments
  BY DEF CTypeOK
<1>2. ASSUME NEW b \in Bridges, RemoveBridge(b) PROVE FALSE
  BY <1>2 DEF RemoveBridge
<1>3. ASSUME NEW i \in Images, InsertImage(i)
      PROVE  conn'[api.conn].name = conn[api.conn].name
  BY <1>1, <1>3 DEF InsertImage, Connection
<1>4. ASSUME NEW c \in Deployments,
             CreateConnection(c) \/ PatchConnection(c) \/ DeleteConnection(c)
      PROVE  FALSE
  BY <1>4 DEF CreateConnection, PatchConnection, DeleteConnection
<1>5. ASSUME StopUpdate PROVE conn'[api.conn].name = conn[api.conn].name
  <2>1. PICK c \in Deployments : c = api.conn
    BY <1>1
  <2>2. conn[c] \in Connection
    BY <1>1
  <2> DEFINE stopped == [conn[c] EXCEPT !.node = FALSE, !.status = "pending"]
  <2>3. stopped \in Connection /\ stopped.name = conn[c].name
    BY <2>2 DEF Connection
  <2>4. CASE conn' = [conn EXCEPT ![c] = Deleted(c)]
    BY <1>1, <2>1, <2>4 DEF Deleted, NoRow
  <2>5. CASE Update(c, stopped, TRUE)
    <3> HIDE DEF stopped
    <3>1. PICK b \in {stopped.bridge, None} \cup bridges,
               i \in {stopped.image, None} \cup images,
               n \in IF TRUE THEN BOOLEAN ELSE {stopped.node} :
            conn' = [conn EXCEPT ![c] = [stopped EXCEPT !.bridge = b, !.image = i,
                                                        !.node = n]]
      BY <2>5, Zenon DEF Update
    <3>2. conn'[c].name = stopped.name
      BY <1>1, <2>3, <3>1 DEF Connection
    <3> QED
      BY <2>1, <2>3, <3>2
  <2> QED
    BY <1>5, <2>1, <2>4, <2>5 DEF StopUpdate
<1>6. ASSUME NEW c \in Deployments, DeployWire(c)
      PROVE  conn'[api.conn].name = conn[api.conn].name
  BY <1>1, <1>6 DEF DeployWire, Connection
<1>7. ASSUME Disconnected PROVE conn'[api.conn].name = conn[api.conn].name
  BY <1>1, <1>7 DEF Disconnected, Connection
<1>8. CASE UNCHANGED conn
  BY <1>8
<1> QED
  BY <1>2, <1>3, <1>4, <1>5, <1>6, <1>7, <1>8
  DEF CNext, cvars, AddBridge, AddPort, AddedPort, RemovePort, LoadHub, CloneStart,
      CloneEnd, StopStart, StopRoutes, StopTracker, DeployConnection, DeployRecord,
      DeployFail, RemoveByNode, Connected, CRestart

\* StopClean, one step per action that touches the table, the tracker or the stop.
LEMMA CleanStep == CInv /\ [CNext]_cvars => StopClean'
<1> SUFFICES ASSUME CInv, [CNext]_cvars,
                    api' # None, api'.pc = "forget", ~api'.raced,
                    NEW r \in Rows, routes'[r] # None
             PROVE  routes'[r] \notin tracked'[conn'[api'.conn].name]
  BY DEF StopClean
<1>1. /\ CTypeOK
      /\ conn \in [Deployments -> Connection]
      /\ routes \in [Rows -> AllPorts \cup {None}]
      /\ tracked \in [Deployments -> SUBSET AllPorts]
      /\ api # None => api.conn \in Deployments /\ conn[api.conn].name \in Deployments
  BY DEF CInv, CTypeOK, TypeOK, Connection
<1> DEFINE Same == /\ api # None /\ api'.conn = api.conn /\ api.pc = "forget"
                   /\ ~api.raced
           k == conn[api.conn].name
<1>2. Same => k \in Deployments /\ conn'[api'.conn].name = k
  BY <1>1, NameKept
\* The table and the record only lose.
<1>3. ASSUME Same, tracked'[k] \subseteq tracked[k],
             routes'[r] = routes[r]
      PROVE  routes'[r] \notin tracked'[conn'[api'.conn].name]
  BY <1>2, <1>3 DEF CInv, StopClean
<1>4. ASSUME UNCHANGED api PROVE Same
  BY <1>4
<1>5. CASE UNCHANGED <<api, routes, tracked>>
  BY <1>3, <1>4, <1>5
<1>6. ASSUME StopRoutes PROVE routes'[r] \notin tracked'[conn'[api'.conn].name]
  <2>1. /\ api # None /\ UNCHANGED conn
        /\ api' = [api EXCEPT !.pc = "forget"] \/ api' = [api EXCEPT !.pc = "update"]
    BY <1>6 DEF StopRoutes
  <2>2. api \in Api
    BY <1>1, <2>1 DEF CTypeOK, Api
  <2>3. api' = [api EXCEPT !.pc = "forget"] /\ api'.conn = api.conn
    BY <2>1, <2>2 DEF Api
  <2>4. StopRelease(k) /\ RemoveByPort(tracked[k])
    BY <1>6, <2>2, <2>3 DEF StopRoutes, EndRoutes, Api
  <2> QED
    BY <1>1, <2>1, <2>3, <2>4 DEF StopRelease, RemoveByPort
<1>7. ASSUME StopTracker PROVE FALSE
  <2>1. api \in Api /\ api' = [api EXCEPT !.pc = "update"]
    BY <1>1, <1>7 DEF StopTracker, CTypeOK, Api
  <2> QED
    BY <2>1 DEF Api
<1>8. ASSUME NEW c \in Deployments, NEW then \in {"patch", "delete"},
             StopStart(c, then)
      PROVE  FALSE
  BY <1>8 DEF StopStart
<1>9. ASSUME NEW race \in BOOLEAN, RacedIf(race), race => Forgetting(k)
      PROVE  Same /\ ~race
  <2>1. CASE race
    <3>1. api \in Api /\ api' = [api EXCEPT !.raced = TRUE]
      BY <1>1, <1>9, <2>1 DEF RacedIf, Forgetting, CTypeOK, Api
    <3> QED
      BY <3>1 DEF Api
  <2> QED
    BY <1>9, <2>1 DEF RacedIf
<1>10. ASSUME NEW c \in Deployments, DeployRecord(c)
       PROVE  routes'[r] \notin tracked'[conn'[api'.conn].name]
  <2>1. RacedIf(Forgetting(conn[c].name)) /\ UNCHANGED routes
    BY <1>10 DEF DeployRecord
  <2>2. Same /\ ~Forgetting(conn[c].name)
    BY <1>9, <2>1 DEF Forgetting
  <2>3. conn[c].name # k
    BY <2>2 DEF Forgetting
  <2>4. tracked'[k] = tracked[k]
    BY <1>1, <1>10, <2>2, <2>3 DEF DeployRecord, DeployTracked
  <2> QED
    BY <1>3, <2>1, <2>2, <2>4
<1>11. ASSUME NEW c \in Deployments, DeployWire(c)
       PROVE  routes'[r] \notin tracked'[conn'[api'.conn].name]
  <2> DEFINE race == \E l \in Deployments, x \in Settable(c) :
                       Forgetting(l) /\ x[2] \in tracked[l]
  <2>1. RacedIf(race) /\ UNCHANGED tracked
    BY <1>11 DEF DeployWire, vars
  <2>2. race => Forgetting(k)
    BY DEF Forgetting
  <2>3. Same /\ ~race
    <3> HIDE DEF race
    <3>1. race \in BOOLEAN
      BY DEF race
    <3> QED
      BY <1>9, <2>1, <2>2, <3>1
  <2>4. Forgetting(k)
    BY <2>3 DEF Forgetting
  <2>5. ASSUME NEW x \in Settable(c), routes'[r] = x[2]
        PROVE  routes'[r] \notin tracked'[conn'[api'.conn].name]
    BY <1>2, <2>1, <2>3, <2>4, <2>5
  <2> QED
    BY <1>1, <1>3, <1>11, <2>1, <2>3, <2>5, WireRoutes
<1>12. ASSUME NEW l \in Deployments, RemoveByNode(l)
       PROVE  routes'[r] \notin tracked'[conn'[api'.conn].name]
  <2>1. /\ UNCHANGED api /\ routes'[r] = routes[r]
        /\ tracked'[k] \subseteq tracked[k]
    BY <1>1, <1>4, <1>12 DEF RemoveByNode, Teardown, RemoveByPort
  <2> QED
    BY <1>3, <1>4, <2>1
<1>13. ASSUME StopUpdate \/ CRestart PROVE FALSE
  BY <1>13 DEF StopUpdate, CRestart
<1> QED
  BY <1>5, <1>6, <1>7, <1>8, <1>10, <1>11, <1>12, <1>13
  DEF CNext, cvars, vars, AddBridge, CreateBridge, RemoveBridge, DeleteBridge, AddPort,
      ReservePort, RemovePort, DeletePort, AddedPort, InsertPort, LoadHub, CloneStart,
      CloneEnd, CreateConnection, PatchConnection, DeleteConnection,
      DeployConnection, DeployStart, DeployFail, DeployFailed, Connected, Disconnected

\* ServedHasRow, one step per action that touches the rows, the plans or the table.
LEMMA ServedStep == CInv /\ [CNext]_cvars => ServedHasRow'
<1> SUFFICES ASSUME CInv, [CNext]_cvars, ~torn', ~freed' PROVE ServedHasRow'
  BY DEF ServedHasRow
<1>1. /\ CTypeOK
      /\ routes \in [Rows -> AllPorts \cup {None}]
      /\ plan \in [Deployments -> SUBSET (Rows \X AllPorts)]
      /\ pool_port \in [Rows -> AllPorts \cup {None}]
      /\ None \notin AllPorts
      /\ ServedHasRow
  BY PoolAssumption DEF CInv, CTypeOK, TypeOK
\* The plans and the table only lose.
<1>2. ASSUME ~torn, ~freed, UNCHANGED pool_port,
             \A r \in Rows : routes'[r] # None => routes'[r] = routes[r],
             \A c \in Deployments : plan'[c] \subseteq plan[c]
      PROVE  ServedHasRow'
  BY <1>1, <1>2 DEF ServedHasRow
\* The rows lose ports that nobody uses.
<1>3. ASSUME ~torn, ~freed, UNCHANGED <<routes, plan>>,
             \A r \in Rows : pool_port'[r] = pool_port[r] \/ pool_port[r] \notin InUse
      PROVE  ServedHasRow'
  <2>1. \A r \in Rows : routes[r] \in InUse
    BY DEF InUse
  <2>2. \A c \in Deployments : \A x \in plan[c] : x[2] \in InUse /\ x[1] \in Rows
    <3> SUFFICES ASSUME NEW c \in Deployments, NEW x \in plan[c]
                 PROVE  x[2] \in InUse /\ x[1] \in Rows
      OBVIOUS
    <3>1. x[2] \in {y[2] : y \in plan[c]}
      OBVIOUS
    <3>2. x[2] \in UNION {{y[2] : y \in plan[d]} : d \in Deployments}
      BY <3>1, Zenon
    <3>3. x[2] \in InUse
      BY <3>2, Zenon DEF InUse
    <3>4. x[1] \in Rows
      BY <1>1
    <3> QED
      BY <3>3, <3>4
  <2> QED
    BY <1>1, <1>3, <2>1, <2>2 DEF ServedHasRow
<1>4. ASSUME NEW b \in Bridges, RemoveBridge(b) PROVE ServedHasRow'
  <2>1. /\ ~torn /\ ~freed /\ UNCHANGED <<routes, plan>>
        /\ PortsOf(b) \cap InUse = {}
        /\ pool_port' = [r \in Rows |-> IF r[1] = b THEN None ELSE pool_port[r]]
    BY <1>4 DEF RemoveBridge, DeleteBridge
  <2>2. ASSUME NEW r \in Rows, r[1] = b, pool_port[r] # None
        PROVE  pool_port[r] \in PortsOf(b)
    BY <1>1, <2>2 DEF PortsOf, Rows
  <2> QED
    BY <1>3, <2>1, <2>2
<1>5. ASSUME NEW b \in Bridges, NEW s \in Slots, RemovePort(b, s) PROVE ServedHasRow'
  <2>1. /\ ~torn /\ ~freed /\ UNCHANGED <<routes, plan>>
        /\ pool_port[<<b, s>>] \notin InUse
        /\ pool_port' = [pool_port EXCEPT ![<<b, s>>] = None]
    BY <1>5 DEF RemovePort, DeletePort
  <2> QED
    BY <1>1, <1>3, <2>1
<1>6. ASSUME AddedPort PROVE ServedHasRow'
  <2>1. ~torn /\ ~freed /\ UNCHANGED <<routes, plan>>
    BY <1>6 DEF AddedPort, InsertPort
  <2>2. CASE UNCHANGED pool_port
    BY <1>1, <2>1, <2>2 DEF ServedHasRow
  <2>3. ASSUME NEW row, pool_port[row] = None,
               pool_port' = [pool_port EXCEPT ![row] = req.port]
        PROVE  ServedHasRow'
    <3>1. \A r \in Rows : pool_port[r] # None => pool_port'[r] = pool_port[r]
      BY <1>1, <2>3
    <3>2. \A c \in Deployments : \A x \in plan[c] : x[1] \in Rows /\ x[2] # None
      BY <1>1
    <3> QED
      BY <1>1, <2>1, <3>1, <3>2 DEF ServedHasRow
  <2> QED
    BY <1>6, <2>2, <2>3 DEF AddedPort, InsertPort, FinishInsert, InsertOk
<1>7. ASSUME NEW c \in Deployments, DeployConnection(c) PROVE ServedHasRow'
  <2>1. ~torn /\ ~freed /\ UNCHANGED <<routes, pool_port>>
    BY <1>7 DEF DeployConnection, DeployStart
  <2>2. \A d \in Deployments \ {c} : plan'[d] = plan[d]
    BY <1>1, <1>7 DEF DeployConnection
  <2>3. \A x \in plan'[c] : pool_port[x[1]] = x[2]
    BY <1>1, <1>7, PlanType
  <2> QED
    BY <1>1, <2>1, <2>2, <2>3 DEF ServedHasRow
<1>8. ASSUME NEW c \in Deployments, DeployWire(c) PROVE ServedHasRow'
  <2>1. /\ ~torn /\ ~freed /\ UNCHANGED pool_port
        /\ plan' = [plan EXCEPT ![c] = {}]
    BY <1>8 DEF DeployWire, vars
  <2>2. \A r \in Rows : routes'[r] # None => pool_port[r] = routes'[r]
    <3>1. \A x \in Settable(c) : pool_port[x[1]] = x[2]
      BY <1>1, <2>1 DEF Settable, ServedHasRow
    <3> QED
      BY <1>1, <1>8, <2>1, <3>1, WireRoutes DEF ServedHasRow
  <2> QED
    BY <1>1, <2>1, <2>2 DEF ServedHasRow
<1>9. ASSUME NEW c \in Deployments, DeployRecord(c) \/ DeployFail(c)
      PROVE  ServedHasRow'
  BY <1>1, <1>2, <1>9
  DEF DeployRecord, DeployTracked, DeployFail, DeployFailed
<1>10. ASSUME NEW k \in Deployments, RemoveByNode(k) PROVE FALSE
  BY <1>10 DEF RemoveByNode, Teardown
<1>11. ASSUME CRestart PROVE FALSE
  BY <1>11 DEF CRestart, Restart
<1>12. CASE UNCHANGED <<routes, plan, pool_port, torn, freed>>
  BY <1>1, <1>2, <1>12
<1>13. ASSUME StopRoutes PROVE ServedHasRow'
  BY <1>12, <1>13 DEF StopRoutes, EndRoutes, StopRelease, vars
<1> QED
  BY <1>4, <1>5, <1>6, <1>7, <1>8, <1>9, <1>10, <1>11, <1>12, <1>13
  DEF CNext, cvars, vars, AddBridge, CreateBridge, AddPort, ReservePort, LoadHub,
      CloneStart, CloneEnd, CreateConnection, PatchConnection, DeleteConnection,
      StopStart, StopTracker, StopForget, StopUpdate, Connected, Disconnected

-----------------------------------------------------------------------------

\* The initial state: nothing is deployed.
LEMMA CInitInv == CInit => CInv
<1> SUFFICES ASSUME CInit PROVE CInv
  OBVIOUS
<1>1. IInv
  BY InitInv DEF CInit
<1>2. \A c \in Deployments : NoRow(c) \in Connection
  BY DEF NoRow, Connection
<1>3. CTypeOK
  <2>1. conn \in [Deployments -> Connection]
    BY <1>2 DEF CInit
  <2>2. edits \in 0..MaxEdits
    BY SlotsAssumption DEF CInit
  <2>3. TypeOK
    BY <1>1 DEF IInv
  <2>4. /\ plan \in [Deployments -> SUBSET (Rows \X AllPorts)]
        /\ routes \in [Rows -> AllPorts \cup {None}]
    BY DEF CInit
  <2> QED
    BY <2>1, <2>2, <2>3, <2>4 DEF CInit, CTypeOK
<1>4. RoutesTracked /\ StopClean /\ ServedHasRow
  BY DEF CInit, RoutesTracked, StopClean, ServedHasRow
<1> QED
  BY <1>1, <1>3, <1>4 DEF CInv

\* The pool's own invariant goes on to hold, since every step is one of its steps.
LEMMA PoolStep == CInv /\ [CNext]_cvars => IInv'
<1>1. CInv /\ [CNext]_cvars => IInv /\ [Next]_vars
  BY StepImplements DEF CInv
<1>2. IInv /\ [Next]_vars => IInv'
  BY TypeStep, PartitionStep, NoLeakStep, DistinctStep DEF IInv
<1> QED
  BY <1>1, <1>2

\* Types.
LEMMA CTypeStep == CInv /\ [CNext]_cvars => CTypeOK'
<1>1. CInv /\ [CNext]_cvars => TypeOK'
  BY PoolStep DEF IInv
<1> QED
  BY <1>1, ConnStep, RoutesStep, OtherStep DEF CTypeOK, Api

\* The inductive invariant of connections and the pool together.
THEOREM CInvariance == CSpec => []CInv
<1>1. CInv /\ [CNext]_cvars => CInv'
  BY PoolStep, CTypeStep, TrackedStep, CleanStep, ServedStep DEF CInv
<1> QED
  BY <1>1, CInitInv, PTL DEF CSpec

\* Whatever operators, deployments and the node do, the pool and the rows of
\* bridge_ports behave as BridgePorts says.
THEOREM Implements == CSpec => Spec
<1>1. CInit => Init
  BY DEF CInit
<1>2. CInv => CTypeOK
  BY DEF CInv
<1> QED
  BY <1>1, <1>2, StepImplements, CInvariance, PTL DEF CSpec, Spec

\* So the pool's invariants hold of the whole; first the partition of the ports.
THEOREM CatalogPartitioned == CSpec => []Partition
  BY Implements, PoolPartitioned, PTL

\* No reservation is lost.
THEOREM CatalogNoLeak == CSpec => []NoLeak
  BY Implements, NoPortLeaks, PTL

\* Rows have distinct ports until a deployment ends or kdcts restarts.
THEOREM CatalogDistinct == CSpec => []DistinctUntilTorn
  BY Implements, DistinctPorts, PTL

\* Every route has a record that will remove it, but for the three races.
THEOREM AllRoutesTracked == CSpec => []RoutesTracked
<1>1. CInv => RoutesTracked
  BY DEF CInv
<1> QED
  BY <1>1, CInvariance, PTL

\* What is served has its row, and rows have ports of their own.
LEMMA ServedDistinct == CInv => NoCrossTalk
<1> SUFFICES ASSUME CInv, ~torn, ~freed, NEW x \in Served, NEW y \in Served, x[2] = y[2]
             PROVE  x[1] = y[1]
  BY DEF NoCrossTalk
<1>1. ASSUME NEW z \in Served
      PROVE  z[1] \in Rows /\ pool_port[z[1]] = z[2] /\ z[2] # None
  <2>1. CASE \E r \in Rows : routes[r] # None /\ z = <<r, routes[r]>>
    BY <2>1 DEF CInv, ServedHasRow
  <2>2. CASE \E c \in Deployments : z \in plan[c]
    BY <2>2, PoolAssumption DEF CInv, CTypeOK, ServedHasRow
  <2> QED
    BY <2>1, <2>2 DEF Served
<1>2. DistinctUntilTorn
  BY DEF CInv, IInv
<1>3. x[1] \in Rows /\ pool_port[x[1]] = x[2] /\ x[2] # None
      /\ y[1] \in Rows /\ pool_port[y[1]] = y[2]
  BY <1>1
<1> QED
  BY <1>2, <1>3 DEF DistinctUntilTorn

\* No two paths lead to one port until a deployment has ended, kdcts has restarted,
\* or a port was deleted that was in use.
THEOREM PathsDoNotCross == CSpec => []NoCrossTalk
  BY ServedDistinct, CInvariance, PTL
=============================================================================
