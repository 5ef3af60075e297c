---------------------------- MODULE BridgePorts ----------------------------
(***************************************************************************)
(* The server port pool (tunnel/src/port_pool.rs) together with the rows   *)
(* of bridge_ports that remember which pool port a bridge was given, and   *)
(* the deployments whose end returns ports to the pool.                    *)
(*                                                                         *)
(* The pool lives in memory and the rows in SQLite.  Requests are served   *)
(* one at a time by the API thread; deployments end at any time, in the    *)
(* node-update task or in the API thread.                                  *)
(***************************************************************************)
EXTENDS Naturals

CONSTANTS
  Bridges,      \* bridge ids
  Slots,        \* container ports; (bridge, container port) is unique
  Deployments,  \* connections, and the keys of the deployment tracker
  PoolRanges,   \* port ranges kdcts may be configured with
  MaxRestarts,  \* bound: restarts of kdcts
  None

AllPorts == UNION PoolRanges
Rows == Bridges \X Slots  \* the keys of bridge_ports
Requests == [bridge : Bridges, slot : Slots, port : AllPorts]

ASSUME PoolAssumption ==
  /\ PoolRanges \subseteq SUBSET Nat
  /\ MaxRestarts \in Nat
  /\ None \notin AllPorts \cup Requests

VARIABLES
  pool,         \* the pre-bound ports: keys of listeners
  free,         \* PortPool.free
  assigned,     \* keys of PortPool.assignments
  bridges,      \* rows of bridges
  pool_port,    \* bridge_ports.pool_port (None: no such row)
  req,          \* the POST .../port request between reserve_one and its insert
  starting,     \* deploy_connection's server_ports before it is tracked
  tracked,      \* server_ports of each tracked deployment
  torn,         \* history: some tracked deployment ended, or kdcts restarted
  restarts      \* bound

vars == <<pool, free, assigned, bridges, pool_port, req, starting, tracked,
          torn, restarts>>

TypeOK ==
  /\ pool \in PoolRanges
  /\ free \in SUBSET pool
  /\ assigned \in SUBSET pool
  /\ bridges \in SUBSET Bridges
  /\ pool_port \in [Rows -> AllPorts \cup {None}]
  /\ req \in Requests \cup {None}
  /\ starting \in [Deployments -> SUBSET AllPorts]
  /\ tracked \in [Deployments -> SUBSET AllPorts]
  /\ torn \in BOOLEAN
  /\ restarts \in 0..MaxRestarts

\* PortPool::new binds every port of the range; the database may be new.
Init ==
  /\ pool \in PoolRanges
  /\ free = pool
  /\ assigned = {}
  /\ bridges = {}
  /\ pool_port = [r \in Rows |-> None]
  /\ req = None
  /\ starting = [d \in Deployments |-> {}]
  /\ tracked = [d \in Deployments |-> {}]
  /\ torn = FALSE
  /\ restarts = 0

\* get_bridge_pool_ports
PortsOf(b) == {pool_port[<<b, s>>] : s \in Slots} \ {None}

-----------------------------------------------------------------------------
(***************************************************************************)
(* The pool.                                                               *)
(***************************************************************************)

\* Bug: a port is put back without having been assigned.
ReleaseUnchecked(ports) ==
  /\ assigned' = assigned \ ports
  /\ free' = free \cup ports

\* release_by_port for each of ports: one that is not assigned is left alone.
Release(ports) ==
  /\ assigned' = assigned \ ports
  /\ free' = free \cup (assigned \cap ports)

\* Bug: the port is handed out but stays free.
ReservePeek(p) ==
  /\ assigned' = assigned \cup {p}
  /\ UNCHANGED free

\* reserve_one: pop_first of an ordered set.
Reserve(p) ==
  /\ free' = free \ {p}
  /\ assigned' = assigned \cup {p}

-----------------------------------------------------------------------------
(***************************************************************************)
(* The API thread; a handler starts when the previous one has returned.    *)
(***************************************************************************)

CreateBridge(b) ==
  /\ req = None
  /\ b \notin bridges
  /\ bridges' = bridges \cup {b}
  /\ UNCHANGED <<pool, free, assigned, pool_port, req, starting, tracked, torn,
                 restarts>>

\* POST /api/bridges/:id/port, up to the reservation.  With no port free the
\* request is refused and nothing changes.
ReservePort(b, s) ==
  /\ req = None
  /\ \E p \in free :
       /\ \A q \in free : p <= q
       /\ Reserve(p)
       /\ req' = [bridge |-> b, slot |-> s, port |-> p]
  /\ UNCHANGED <<pool, bridges, pool_port, starting, tracked, torn, restarts>>

\* insert_bridge_port fails on a missing bridge (foreign key) or a second row for
\* the container port (unique).
InsertOk(r) == r.bridge \in bridges /\ pool_port[<<r.bridge, r.slot>>] = None

\* Bug: the reservation is kept when the insert fails.
FinishInsertLeaky ==
  \/ /\ InsertOk(req)
     /\ pool_port' = [pool_port EXCEPT ![<<req.bridge, req.slot>>] = req.port]
     /\ UNCHANGED <<free, assigned>>
  \/ /\ ~InsertOk(req)
     /\ UNCHANGED <<free, assigned, pool_port>>

\* The insert, or the rollback of the reservation.
FinishInsert ==
  \/ /\ InsertOk(req)
     /\ pool_port' = [pool_port EXCEPT ![<<req.bridge, req.slot>>] = req.port]
     /\ UNCHANGED <<free, assigned>>
  \/ /\ ~InsertOk(req)
     /\ Release({req.port})
     /\ UNCHANGED pool_port

InsertPort ==
  /\ req # None
  /\ FinishInsert
  /\ req' = None
  /\ UNCHANGED <<pool, bridges, starting, tracked, torn, restarts>>

\* DELETE /api/bridges/:id/port/:container_port
DeletePort(b, s) ==
  /\ req = None
  /\ pool_port[<<b, s>>] # None
  /\ Release({pool_port[<<b, s>>]})
  /\ pool_port' = [pool_port EXCEPT ![<<b, s>>] = None]
  /\ UNCHANGED <<pool, bridges, req, starting, tracked, torn, restarts>>

\* DELETE /api/bridges/:id; the rows go with the bridge (ON DELETE CASCADE).
DeleteBridge(b) ==
  /\ req = None
  /\ b \in bridges
  /\ Release(PortsOf(b))
  /\ bridges' = bridges \ {b}
  /\ pool_port' = [r \in Rows |->
                     IF r[1] = b THEN None ELSE pool_port[r]]
  /\ UNCHANGED <<pool, req, starting, tracked, torn, restarts>>

-----------------------------------------------------------------------------
(***************************************************************************)
(* Deployments, as far as the pool is concerned.                           *)
(***************************************************************************)

\* deploy_connection copies the pool ports of the rows, and waits for the
\* container; a bridge without ports is refused.
DeployStart(d, b) ==
  /\ starting[d] = {}
  /\ PortsOf(b) # {}
  /\ starting' = [starting EXCEPT ![d] = PortsOf(b)]
  /\ UNCHANGED <<pool, free, assigned, bridges, pool_port, req, tracked, torn,
                 restarts>>

\* record_deployment, under the name of the connection, which another one may have
\* too.
DeployTracked(d, k) ==
  /\ starting[d] # {}
  /\ starting' = [starting EXCEPT ![d] = {}]
  /\ tracked' = [tracked EXCEPT ![k] = starting[d]]
  /\ UNCHANGED <<pool, free, assigned, bridges, pool_port, req, torn, restarts>>

\* The container did not start.
DeployFailed(d) ==
  /\ starting[d] # {}
  /\ starting' = [starting EXCEPT ![d] = {}]
  /\ UNCHANGED <<pool, free, assigned, bridges, pool_port, req, tracked, torn,
                 restarts>>

\* remove_by_node when the node disconnects: the ports go back to the pool and the
\* rows of bridge_ports stay.
Teardown(d) ==
  /\ tracked[d] # {}
  /\ Release(tracked[d])
  /\ tracked' = [tracked EXCEPT ![d] = {}]
  /\ torn' = TRUE
  /\ UNCHANGED <<pool, bridges, pool_port, req, starting, restarts>>

\* stop_connection returns the ports first, and removes the record later, which
\* may be another one by then.
StopRelease(d) ==
  /\ tracked[d] # {}
  /\ Release(tracked[d])
  /\ torn' = TRUE
  /\ UNCHANGED <<pool, bridges, pool_port, req, starting, tracked, restarts>>

StopForget(d) ==
  /\ tracked' = [tracked EXCEPT ![d] = {}]
  /\ UNCHANGED <<pool, free, assigned, bridges, pool_port, req, starting, torn,
                 restarts>>

\* kdcts comes back, perhaps with another range: the rows are kept and the pool
\* is new.
Restart ==
  /\ restarts < MaxRestarts
  /\ restarts' = restarts + 1
  /\ pool' \in PoolRanges
  /\ free' = pool'
  /\ assigned' = {}
  /\ req' = None
  /\ starting' = [d \in Deployments |-> {}]
  /\ tracked' = [d \in Deployments |-> {}]
  /\ torn' = TRUE
  /\ UNCHANGED <<bridges, pool_port>>

Next ==
  \/ \E b \in Bridges :
       \/ CreateBridge(b) \/ DeleteBridge(b)
       \/ \E s \in Slots : ReservePort(b, s) \/ DeletePort(b, s)
       \/ \E d \in Deployments : DeployStart(d, b)
  \/ InsertPort
  \/ \E d \in Deployments :
       \/ \E k \in Deployments : DeployTracked(d, k)
       \/ DeployFailed(d) \/ Teardown(d) \/ StopRelease(d) \/ StopForget(d)
  \/ Restart

Spec == Init /\ [][Next]_vars

-----------------------------------------------------------------------------
(***************************************************************************)
(* Properties.                                                             *)
(***************************************************************************)

\* free and assignments split the bound ports between them, even though
\* release_by_port is called with ports of another range, ports released before
\* and ports that someone else has reserved since.
Partition == free \cap assigned = {} /\ free \cup assigned = pool

\* No reservation is lost: a reserved port is the pool port of some row, or the
\* request that reserved it is about to store it or give it back.
NoLeak ==
  \A p \in assigned :
    \/ \E r \in Rows : pool_port[r] = p
    \/ req # None /\ req.port = p

\* As long as no deployment has ended and kdcts has not restarted, no two rows
\* share a pool port and the port of every row is reserved.
DistinctUntilTorn ==
  ~torn =>
    /\ \A r \in Rows : pool_port[r] # None => pool_port[r] \in assigned
    /\ \A r, t \in Rows :
         pool_port[r] # None /\ pool_port[r] = pool_port[t] => r = t
=============================================================================
