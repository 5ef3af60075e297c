----------------------------- MODULE Deployment -----------------------------
(***************************************************************************)
(* Deploying and stopping connections: the row of a connection in SQLite,  *)
(* the deployment tracker, the route table and the accept loops, which     *)
(* have to agree, and the round trip to docker on the client.              *)
(*                                                                         *)
(* The API thread serves one request at a time and waits in it for docker; *)
(* background tasks started by a request deploy concurrently; the          *)
(* node-update task tears down what a node served when it disconnects.     *)
(* Each of them is split at its locks and awaits.  A pool port belongs to  *)
(* one connection here (module BridgePorts is about how they are given     *)
(* out), so a route names the connection whose port it leads to.           *)
(*                                                                         *)
(* Not modelled: the docker_results map, which nothing reads.              *)
(***************************************************************************)
EXTENDS Naturals, Sequences, FiniteSets

CONSTANTS
  Conns,        \* connections, each with an image and a bridge of its own
  Nodes,        \* client nodes
  Paths,        \* route paths
  PathsOf,      \* the route paths of a connection's bridge, in port order
  NodeOf,       \* the node slot the connections start with
  Covers,       \* <<r, p>>: route path r is a prefix of p
  Api,          \* the API thread
  Background,   \* tasks spawned by requests (bound: how many at a time)
  UpdateCap,    \* bound: queued node updates
  MaxUps,       \* bound: control channels per node
  Changed,      \* bound: connections that requests change or delete
  MaxChanges,   \* bound: such requests, and restarts of kdcts, taken together
  DockerSlow,   \* whether docker may take longer than the timeouts
  DockerFails,  \* whether docker may fail
  None

Tasks == Background \cup {Api}

ASSUME DeploymentAssumption ==
  /\ PathsOf \in [Conns -> Seq(Paths) \ {<<>>}]
  /\ NodeOf \in [Conns -> Nodes \cup {None}]
  /\ Covers \subseteq Paths \X Paths
  /\ \A p \in Paths : <<p, p>> \in Covers
  /\ Api \notin Background
  /\ Changed \subseteq Conns
  /\ UpdateCap \in Nat \ {0}
  /\ {MaxUps, MaxChanges} \subseteq Nat
  /\ DockerFails \in BOOLEAN /\ DockerSlow \in BOOLEAN
  /\ None \notin Conns \cup Nodes \cup Tasks

VARIABLES
  conn,         \* rows of connections: node and status
  node_status,  \* client_nodes.status
  epoch,        \* the number of the node's latest control channel
  live,         \* its connection is up
  ghost,        \* the server still runs a channel whose connection is down
  reg,          \* the node is in the registry
  pending,      \* pending_docker of the latest channel: whose oneshot is stored
  jobs,         \* docker commands at work on the clients
  running,      \* containers running on a node, by connection
  task,         \* where each task stands and what it works on
  reply,        \* what a task's oneshot receiver holds
  tracker,      \* keys of the DeploymentTracker
  routes,       \* route path -> connection whose port it leads to
  forwards,     \* active_forwards: connection, node and channel of each loop
  updates,      \* the node-update channel
  cleaning,     \* the node whose Disconnected is half applied
  upset,        \* history: connections hit by one of the races listed below
  changes       \* bound

nodeVars == <<epoch, live, ghost, reg>>
clientVars == <<jobs, running>>
dbVars == <<conn, node_status>>
tableVars == <<tracker, routes, forwards>>
consumerVars == <<updates, cleaning>>
vars == <<dbVars, nodeVars, pending, clientVars, task, reply, tableVars,
          consumerVars, upset, changes>>

Idle == [pc |-> "idle", conn |-> None, node |-> None, epoch |-> 0,
         then |-> "none", target |-> None]

PCs == {"idle", "try", "wait", "wire", "finish",
        "stop_wait", "stop_routes", "stop_tracker", "stop_db", "update"}

Jobs == [kind : {"start", "stop"}, task : Tasks, conn : Conns, node : Nodes,
         epoch : 0..MaxUps]

TypeOK ==
  /\ conn \in [Conns -> [node : Nodes \cup {None},
                         status : {"pending", "deployed", "deleted"}]]
  /\ node_status \in [Nodes -> {"online", "offline"}]
  /\ epoch \in [Nodes -> 0..MaxUps]
  /\ live \in [Nodes -> BOOLEAN]
  /\ ghost \in [Nodes -> BOOLEAN]
  /\ reg \in [Nodes -> BOOLEAN]
  /\ pending \in [Nodes -> [Conns -> Tasks \cup {None}]]
  /\ jobs \in SUBSET Jobs
  /\ running \in [Nodes -> SUBSET Conns]
  /\ task \in [Tasks -> [pc : PCs, conn : Conns \cup {None},
                         node : Nodes \cup {None}, epoch : 0..MaxUps,
                         then : {"none", "patch", "delete"},
                         target : Nodes \cup {None}]]
  /\ reply \in [Tasks -> {"none", "answered", "dropped"}]
  /\ tracker \in SUBSET (Conns \X Nodes)
  /\ routes \in [Paths -> Conns \cup {None}]
  /\ forwards \in SUBSET (Conns \X Nodes \X (0..MaxUps))
  /\ updates \in Seq({"Connected", "Disconnected"} \X Nodes)
  /\ cleaning \in Nodes \cup {None}
  /\ upset \in SUBSET Conns
  /\ changes \in 0..MaxChanges

\* Nothing is deployed and nobody is connected.
Init ==
  /\ conn = [c \in Conns |-> [node |-> NodeOf[c], status |-> "pending"]]
  /\ node_status = [n \in Nodes |-> "offline"]
  /\ epoch = [n \in Nodes |-> 0]
  /\ live = [n \in Nodes |-> FALSE]
  /\ ghost = [n \in Nodes |-> FALSE]
  /\ reg = [n \in Nodes |-> FALSE]
  /\ pending = [n \in Nodes |-> [c \in Conns |-> None]]
  /\ jobs = {}
  /\ running = [n \in Nodes |-> {}]
  /\ task = [t \in Tasks |-> Idle]
  /\ reply = [t \in Tasks |-> "none"]
  /\ tracker = {}
  /\ routes = [p \in Paths |-> None]
  /\ forwards = {}
  /\ updates = <<>>
  /\ cleaning = None
  /\ upset = {}
  /\ changes = 0

Busy(c) == {t \in Tasks : task[t].conn = c}

-----------------------------------------------------------------------------
(***************************************************************************)
(* pending_docker: one oneshot sender per container and channel.           *)
(***************************************************************************)

\* The entry for c at n is taken out and x put in its place; the sender that was
\* there is used (answered) or only dropped.
Swap(n, c, x, how) ==
  /\ pending' = [pending EXCEPT ![n][c] = x]
  /\ reply' = [t \in Tasks |->
                 IF t = pending[n][c] /\ t # x /\ reply[t] = "none"
                   THEN how ELSE reply[t]]

\* insert by task t, and the send of a command over the channel.
Request(t, kind, c, n) ==
  /\ Swap(n, c, t, "dropped")
  /\ jobs' = IF live[n]
               THEN jobs \cup {[kind |-> kind, task |-> t, conn |-> c, node |-> n,
                                epoch |-> epoch[n]]}
               ELSE jobs

\* remove by a deploy that gives up: only the map of its own channel.
GiveUp(t) ==
  IF task[t].epoch = epoch[task[t].node]
    THEN LET p == pending[task[t].node][task[t].conn]
         IN  /\ pending' = [pending EXCEPT ![task[t].node][task[t].conn] = None]
             /\ reply' = [u \in Tasks |->
                            IF u = t THEN "none"
                            ELSE IF u = p THEN "dropped" ELSE reply[u]]
    ELSE /\ reply' = [reply EXCEPT ![t] = "none"]
         /\ UNCHANGED pending

-----------------------------------------------------------------------------
(***************************************************************************)
(* deploy_connection.                                                      *)
(***************************************************************************)

Goto(t, pc) == task' = [task EXCEPT ![t].pc = pc]
Return(t) == task' = [task EXCEPT ![t] = Idle]

\* Route table.resolve(path).is_some(), for any of the paths.
Conflict(c) ==
  \E i \in DOMAIN PathsOf[c], r \in Paths :
    routes[r] # None /\ <<r, PathsOf[c][i]>> \in Covers

\* try_auto_deploy's conditions, then deploy_connection's.
MayDeploy(c) ==
  /\ conn[c].status = "pending" /\ conn[c].node # None
  /\ node_status[conn[c].node] = "online"
  /\ ~Conflict(c)
  /\ reg[conn[c].node]

\* A docker stop for c has outlived the request that asked for it: a report that
\* still lists the container, or the timeout, ended its wait.
Stopping(c) == \E j \in jobs : j.kind = "stop" /\ j.conn = c

\* deploy_connection up to the send of ImageStart.
Deploy(t, c) ==
  LET n == conn[c].node
  IN  /\ MayDeploy(c)
      /\ Request(t, "start", c, n)
      /\ task' = [task EXCEPT ![t] = [Idle EXCEPT !.pc = "wait", !.conn = c,
                                        !.node = n, !.epoch = epoch[n]]]
      /\ upset' = IF Busy(c) \subseteq {t} /\ ~Stopping(c) THEN upset ELSE upset \cup {c}

\* POST /api/auto-check tries every connectable connection, one after the other,
\* and waits for each; one that may not be deployed is passed over.
AutoCheck(c) ==
  /\ task[Api].pc = "idle"
  /\ Deploy(Api, c)
  /\ UNCHANGED <<dbVars, nodeVars, running, tableVars, consumerVars, changes>>

\* The try_auto_deploy that a request has spawned.
TryDeploy(t) ==
  /\ task[t].pc = "try"
  /\ \/ Deploy(t, task[t].conn)
     \/ /\ ~MayDeploy(task[t].conn)
        /\ Return(t)
        /\ UNCHANGED <<pending, jobs, reply, upset>>
  /\ UNCHANGED <<dbVars, nodeVars, running, tableVars, consumerVars, changes>>

\* Any answer ends the wait; an error in it is not looked at.  record_deployment
\* comes next.
DeployRecord(t) ==
  /\ task[t].pc = "wait"
  /\ reply[t] = "answered"
  /\ reply' = [reply EXCEPT ![t] = "none"]
  /\ tracker' = tracker \cup {<<task[t].conn, task[t].node>>}
  /\ Goto(t, "wire")
  /\ UNCHANGED <<dbVars, nodeVars, pending, clientVars, routes, forwards,
                 consumerVars, upset, changes>>

\* The sender was dropped: another deploy of the connection took its place.
DeployDropped(t) ==
  /\ task[t].pc = "wait"
  /\ reply[t] = "dropped"
  /\ GiveUp(t)
  /\ Return(t)
  /\ UNCHANGED <<dbVars, nodeVars, clientVars, tableVars, consumerVars, upset,
                 changes>>

\* A job whose answer can still arrive.
Answerable(j) == live[j.node] /\ epoch[j.node] = j.epoch
AtWork(t) == \E j \in jobs : j.task = t /\ Answerable(j)

MayTimeOut(t) == reply[t] = "none" /\ (DockerSlow \/ ~AtWork(t))

\* 660 seconds have passed.
DeployTimeout(t) ==
  /\ task[t].pc = "wait"
  /\ MayTimeOut(t)
  /\ GiveUp(t)
  /\ Return(t)
  /\ UNCHANGED <<dbVars, nodeVars, clientVars, tableVars, consumerVars, upset,
                 changes>>

\* How many of c's routes can be set before table.set finds one taken.
Settable(c) ==
  CHOOSE k \in 0..Len(PathsOf[c]) :
    /\ \A i \in 1..k : routes[PathsOf[c][i]] = None
    /\ k < Len(PathsOf[c]) => routes[PathsOf[c][k + 1]] # None

\* Routes and accept loops, under the table's write lock.  If table.set fails the
\* task returns and leaves what it has set.
DeployWire(t) ==
  /\ task[t].pc = "wire"
  /\ LET c == task[t].conn
         k == Settable(c)
         ok == k = Len(PathsOf[c])
     IN  /\ routes' = [p \in Paths |->
                         IF \E i \in 1..k : PathsOf[c][i] = p THEN c ELSE routes[p]]
         /\ forwards' = IF k > 0
                          THEN forwards \cup {<<c, task[t].node, task[t].epoch>>}
                          ELSE forwards
         /\ upset' = IF ok THEN upset ELSE upset \cup {c}
         /\ IF ok THEN Goto(t, "finish") ELSE Return(t)
  /\ UNCHANGED <<dbVars, nodeVars, pending, clientVars, reply, tracker,
                 consumerVars, changes>>

\* Bug: a connection without a node gets a status of its own.
SetRowStopped(c, n, status) ==
  conn' = [conn EXCEPT ![c] =
             [node |-> n, status |-> IF n = None THEN "stopped" ELSE status]]

\* UPDATE connections ... WHERE id: nothing happens if the row is gone.
SetRow(c, n, status) ==
  conn' = IF conn[c].status = "deleted" THEN conn
          ELSE [conn EXCEPT ![c] = [node |-> n, status |-> status]]

DeployFinish(t) ==
  /\ task[t].pc = "finish"
  /\ SetRow(task[t].conn, task[t].node, "deployed")
  /\ upset' = IF cleaning = task[t].node THEN upset \cup {task[t].conn} ELSE upset
  /\ Return(t)
  /\ UNCHANGED <<node_status, nodeVars, pending, clientVars, reply, tableVars,
                 consumerVars, changes>>

-----------------------------------------------------------------------------
(***************************************************************************)
(* PATCH and DELETE /api/connections/:id, and stop_connection.             *)
(***************************************************************************)

\* A deployed connection is stopped first if its node slot is in the request:
\* stop_connection sends ImageStop if the node is in the registry.  A request that
\* overtakes a deploy can leave a deployed row without a node.
ChangeConnection(c, then, n) ==
  /\ task[Api].pc = "idle"
  /\ c \in Changed /\ changes < MaxChanges
  /\ conn[c].status # "deleted"
  /\ LET old == conn[c].node
         work == [pc |-> "update", conn |-> c, node |-> old, epoch |-> 0,
                  then |-> then, target |-> n]
         online == old # None /\ reg[old]
     IN  \/ /\ conn[c].status = "deployed" /\ online
            /\ Request(Api, "stop", c, old)
            /\ task' = [task EXCEPT ![Api] =
                          [work EXCEPT !.pc = "stop_wait", !.epoch = epoch[old]]]
         \/ /\ conn[c].status = "deployed" /\ ~online
            /\ task' = [task EXCEPT ![Api] = [work EXCEPT !.pc = "stop_routes"]]
            /\ UNCHANGED <<pending, jobs, reply>>
         \/ /\ conn[c].status # "deployed"
            /\ task' = [task EXCEPT ![Api] = work]
            /\ UNCHANGED <<pending, jobs, reply>>
  /\ upset' = IF Busy(c) = {} THEN upset ELSE upset \cup {c}
  /\ changes' = changes + 1
  /\ UNCHANGED <<dbVars, nodeVars, running, tableVars, consumerVars>>

\* Bug: stop_connection waits for docker without a timeout.
StopWaitForever(t) == reply[t] # "none"

\* An answer, a dropped sender, or 30 seconds.
StopWaitOver(t) == reply[t] # "none" \/ MayTimeOut(t)

\* Whatever came of it, stop_connection goes on.  It leaves its sender in the map,
\* where it has no receiver any more and so no effect.
StopWait(t) ==
  /\ task[t].pc = "stop_wait"
  /\ StopWaitOver(t)
  /\ pending' = [n \in Nodes |-> [c \in Conns |->
                   IF pending[n][c] = t THEN None ELSE pending[n][c]]]
  /\ reply' = [reply EXCEPT ![t] = "none"]
  /\ Goto(t, "stop_routes")
  /\ UNCHANGED <<dbVars, nodeVars, clientVars, tableVars, consumerVars, upset,
                 changes>>

Without(c) == [p \in Paths |-> IF routes[p] = c THEN None ELSE routes[p]]

\* get_deployment, and remove_by_port for its ports.
StopRoutes(t) ==
  /\ task[t].pc = "stop_routes"
  /\ \/ /\ <<task[t].conn, task[t].node>> \in tracker
        /\ routes' = Without(task[t].conn)
        /\ Goto(t, "stop_tracker")
     \/ /\ <<task[t].conn, task[t].node>> \notin tracker
        /\ Goto(t, "stop_db")
        /\ UNCHANGED routes
  /\ UNCHANGED <<dbVars, nodeVars, pending, clientVars, reply, tracker, forwards,
                 consumerVars, upset, changes>>

\* Bug: the deployment stays in the tracker.
UntrackNever(c, n) ==
  /\ forwards' = {f \in forwards : f[1] # c}
  /\ UNCHANGED tracker

\* The accept loops are told to stop, and remove_deployment.
Untrack(c, n) ==
  /\ forwards' = {f \in forwards : f[1] # c}
  /\ tracker' = tracker \ {<<c, n>>}

StopTracker(t) ==
  /\ task[t].pc = "stop_tracker"
  /\ Untrack(task[t].conn, task[t].node)
  /\ Goto(t, "stop_db")
  /\ UNCHANGED <<dbVars, nodeVars, pending, clientVars, reply, routes,
                 consumerVars, upset, changes>>

StopDb(t) ==
  /\ task[t].pc = "stop_db"
  /\ SetRow(task[t].conn, None, "pending")
  /\ Goto(t, "update")
  /\ UNCHANGED <<node_status, nodeVars, pending, clientVars, reply, tableVars,
                 consumerVars, upset, changes>>

\* update_connection and a background deploy, or delete_connection.
UpdateConnection(t) ==
  /\ task[t].pc = "update"
  /\ LET c == task[t].conn
     IN  \/ /\ task[t].then = "patch"
            /\ SetRow(c, task[t].target, conn[c].status)
            /\ \E b \in Background :
                 /\ task[b].pc = "idle"
                 /\ task' = [task EXCEPT ![t] = Idle,
                                         ![b] = [Idle EXCEPT !.pc = "try", !.conn = c]]
         \/ /\ task[t].then = "delete"
            /\ conn' = [conn EXCEPT ![c] = [node |-> None, status |-> "deleted"]]
            /\ Return(t)
  /\ UNCHANGED <<node_status, nodeVars, pending, clientVars, reply, tableVars,
                 consumerVars, upset, changes>>

-----------------------------------------------------------------------------
(***************************************************************************)
(* The client's docker jobs, and its control channel as the server sees it.*)
(***************************************************************************)

\* What a finished job can leave behind.  image_start removes a container of that
\* name before it runs a new one.
Outcomes(j) ==
  LET before == running[j.node]
      ok == IF j.kind = "start" THEN before \cup {j.conn} ELSE before \ {j.conn}
  IN  {ok} \cup IF DockerFails THEN {before, before \ {j.conn}} ELSE {}

\* ContainerStarted, ContainerStopped or ContainerError, if the connection the
\* command came over is still there.
JobDone(j) ==
  /\ j \in jobs
  /\ jobs' = jobs \ {j}
  /\ \E r \in Outcomes(j) : running' = [running EXCEPT ![j.node] = r]
  /\ IF Answerable(j) THEN Swap(j.node, j.conn, None, "answered")
                      ELSE UNCHANGED <<pending, reply>>
  /\ UNCHANGED <<dbVars, nodeVars, task, tableVars, consumerVars, upset,
                 changes>>

HasRoom == Len(updates) < UpdateCap

\* A new control channel and its first report; the map of pending docker replies
\* is a new one.
NodeUp(n) ==
  /\ ~live[n] /\ epoch[n] < MaxUps /\ HasRoom
  /\ live' = [live EXCEPT ![n] = TRUE]
  /\ epoch' = [epoch EXCEPT ![n] = @ + 1]
  /\ reg' = [reg EXCEPT ![n] = TRUE]
  /\ pending' = [pending EXCEPT ![n] = [c \in Conns |-> None]]
  /\ updates' = Append(updates, <<"Connected", n>>)
  /\ UNCHANGED <<dbVars, ghost, clientVars, task, reply, tableVars, cleaning,
                 upset, changes>>

\* A periodic ReportNodeStatus: the node registers again, and every pending reply
\* for a container that runs is answered.
Report(n) ==
  /\ live[n] /\ HasRoom
  /\ reg' = [reg EXCEPT ![n] = TRUE]
  /\ updates' = Append(updates, <<"Connected", n>>)
  /\ pending' = [pending EXCEPT ![n] =
                   [c \in Conns |-> IF c \in running[n] THEN None ELSE @[c]]]
  /\ reply' = [t \in Tasks |->
                 IF (\E c \in running[n] : pending[n][c] = t) /\ reply[t] = "none"
                   THEN "answered" ELSE reply[t]]
  /\ UNCHANGED <<dbVars, epoch, live, ghost, clientVars, task, tableVars,
                 cleaning, upset, changes>>

\* The connection breaks; the server's channel does not know yet.
NodeDrop(n) ==
  /\ live[n] /\ ~ghost[n]
  /\ live' = [live EXCEPT ![n] = FALSE]
  /\ ghost' = [ghost EXCEPT ![n] = TRUE]
  /\ UNCHANGED <<dbVars, epoch, reg, pending, clientVars, task, reply, tableVars,
                 consumerVars, upset, changes>>

\* The channel notices, announces Disconnected and removes the node from the
\* registry, also when a newer channel has registered since.
GhostGone(n) ==
  /\ ghost[n] /\ HasRoom
  /\ ghost' = [ghost EXCEPT ![n] = FALSE]
  /\ reg' = [reg EXCEPT ![n] = FALSE]
  /\ updates' = Append(updates, <<"Disconnected", n>>)
  /\ UNCHANGED <<dbVars, epoch, live, pending, clientVars, task, reply, tableVars,
                 cleaning, upset, changes>>

\* Bug: a reconnect does not call the clean-up off.
CacheExpiredLate(n) ==
  /\ running[n] # {}
  /\ running' = [running EXCEPT ![n] = {}]
  /\ UNCHANGED <<dbVars, nodeVars, pending, jobs, task, reply, tableVars,
                 consumerVars, upset, changes>>

\* image_cache_ttl_seconds after a disconnect the client removes its containers.
CacheExpired(n) ==
  /\ ~live[n] /\ running[n] # {}
  /\ running' = [running EXCEPT ![n] = {}]
  /\ UNCHANGED <<dbVars, nodeVars, pending, jobs, task, reply, tableVars,
                 consumerVars, upset, changes>>

-----------------------------------------------------------------------------
(***************************************************************************)
(* The node-update task, and a restart of kdcts.                           *)
(***************************************************************************)

\* upsert_node
ApplyConnected(n) ==
  /\ cleaning = None
  /\ updates # <<>> /\ Head(updates) = <<"Connected", n>>
  /\ updates' = Tail(updates)
  /\ node_status' = [node_status EXCEPT ![n] = "online"]
  /\ UNCHANGED <<conn, nodeVars, pending, clientVars, task, reply, tableVars,
                 cleaning, upset, changes>>

\* Deploys that have had their answer, and will say so in the database whatever
\* becomes of the node.
Committed(n) ==
  {task[t].conn : t \in {u \in Tasks :
     /\ task[u].node = n
     /\ \/ task[u].pc \in {"wire", "finish"}
        \/ task[u].pc = "wait" /\ reply[u] = "answered"}}

\* Bug: the rows of the node's connections are left alone.
MarkRowsNot(n) == UNCHANGED conn

\* The deployed connections of the node are pending again.
MarkRows(n) ==
  conn' = [c \in Conns |->
             IF conn[c] = [node |-> n, status |-> "deployed"]
               THEN [node |-> n, status |-> "pending"] ELSE conn[c]]

\* set_node_offline and the rows, in the database.
ApplyDisconnected(n) ==
  /\ cleaning = None
  /\ updates # <<>> /\ Head(updates) = <<"Disconnected", n>>
  /\ updates' = Tail(updates)
  /\ cleaning' = n
  /\ node_status' = [node_status EXCEPT ![n] = "offline"]
  /\ MarkRows(n)
  /\ upset' = upset \cup Committed(n)
  /\ UNCHANGED <<nodeVars, pending, clientVars, task, reply, tableVars, changes>>

\* remove_by_node, under the tracker's write lock: the routes go, the accept loops
\* stay.
RemoveByNode ==
  /\ cleaning # None
  /\ routes' = [p \in Paths |->
                  IF <<routes[p], cleaning>> \in tracker THEN None ELSE routes[p]]
  /\ tracker' = {k \in tracker : k[2] # cleaning}
  /\ upset' = upset \cup Committed(cleaning)
  /\ cleaning' = None
  /\ UNCHANGED <<dbVars, nodeVars, pending, clientVars, task, reply, forwards,
                 updates, changes>>

\* Memory is lost, the rows of connections are kept as they are and all nodes are
\* marked offline; containers keep running.  Deployed rows are out of date from
\* then on, and whatever was wrong with the others is mended.
Restart ==
  /\ changes < MaxChanges
  /\ changes' = changes + 1
  /\ node_status' = [n \in Nodes |-> "offline"]
  /\ live' = [n \in Nodes |-> FALSE]
  /\ ghost' = [n \in Nodes |-> FALSE]
  /\ reg' = [n \in Nodes |-> FALSE]
  /\ pending' = [n \in Nodes |-> [c \in Conns |-> None]]
  /\ task' = [t \in Tasks |-> Idle]
  /\ reply' = [t \in Tasks |-> "none"]
  /\ tracker' = {}
  /\ routes' = [p \in Paths |-> None]
  /\ forwards' = {}
  /\ updates' = <<>>
  /\ cleaning' = None
  /\ upset' = {c \in Conns : conn[c].status = "deployed"}
  /\ UNCHANGED <<conn, epoch, clientVars>>

DeployStep(t) ==
  \/ TryDeploy(t) \/ DeployRecord(t) \/ DeployDropped(t) \/ DeployTimeout(t)
  \/ DeployWire(t) \/ DeployFinish(t)

StopStep(t) ==
  \/ StopWait(t) \/ StopRoutes(t) \/ StopTracker(t) \/ StopDb(t)
  \/ UpdateConnection(t)

Consume ==
  \/ \E n \in Nodes : ApplyConnected(n) \/ ApplyDisconnected(n)
  \/ RemoveByNode

Next ==
  \/ \E c \in Conns :
       \/ AutoCheck(c)
       \/ ChangeConnection(c, "delete", None)
       \/ \E n \in Nodes \cup {None} : ChangeConnection(c, "patch", n)
  \/ \E t \in Tasks : DeployStep(t)
  \/ StopStep(Api)
  \/ \E j \in jobs : JobDone(j)
  \/ \E n \in Nodes :
       NodeUp(n) \/ Report(n) \/ NodeDrop(n) \/ GhostGone(n) \/ CacheExpired(n)
  \/ Consume
  \/ Restart

Spec == Init /\ [][Next]_vars

\* Every ready task runs, the waits have timeouts, docker jobs come to an end,
\* clients report and the server notices broken connections; while the panel is
\* open it posts auto-check over and over.  Nothing is assumed of the network, of
\* users or of restarts.
Fairness ==
  /\ \A t \in Tasks : WF_vars(DeployStep(t))
  /\ WF_vars(StopStep(Api))
  /\ WF_vars(Consume)
  /\ WF_vars(\E j \in jobs : Answerable(j) /\ JobDone(j))
  /\ \A n \in Nodes : WF_vars(Report(n)) /\ SF_vars(GhostGone(n))
  /\ \A c \in Conns : WF_vars(AutoCheck(c))

FairSpec == Spec /\ Fairness

-----------------------------------------------------------------------------
(***************************************************************************)
(* Properties.                                                             *)
(***************************************************************************)

RoutesOf(c) == {p \in Paths : routes[p] = c}
PathSet(c) == {PathsOf[c][i] : i \in DOMAIN PathsOf[c]}

\* SQLite, the tracker and the route table agree on every connection that nobody
\* is working on: a deployed one has all of its routes and is tracked for its
\* node, any other has none.  This is what the order of deploy_connection,
\* stop_connection and the teardown of a node is for; upset names the
\* connections where they do not achieve it.
Agreement ==
  \A c \in Conns \ upset :
    (Busy(c) = {} /\ cleaning = None) =>
      IF conn[c].status = "deployed"
        THEN /\ RoutesOf(c) = PathSet(c)
             /\ \A n \in Nodes : <<c, n>> \in tracker <=> n = conn[c].node
        ELSE /\ RoutesOf(c) = {}
             /\ \A n \in Nodes : <<c, n>> \notin tracker

\* Every request and every background deploy comes to an end, whatever happens to
\* the client: the API thread is never blocked for good.
TasksEnd == \A t \in Tasks : []<>(task[t].pc = "idle")

\* Traffic reaches the container: the row says so, the routes are set, and accept
\* loops that use the node's present control channel are running.
Served(c, n) ==
  /\ conn[c] = [node |-> n, status |-> "deployed"]
  /\ RoutesOf(c) = PathSet(c)
  /\ <<c, n, epoch[n]>> \in forwards

\* A connection whose node stays connected is in the end served by it for good,
\* however often the node went away before, unless one of the races upset it.
RedeployedUnlessUpset ==
  \A c \in Conns, n \in Nodes :
    <>[](live[n] /\ conn[c].node = n /\ c \notin upset) => <>[]Served(c, n)

\* A connection that is served has its container, once docker has come to rest:
\* jobs of dead channels, late reports and the client's cache clean-up never leave
\* routes and accept loops without it.  Where docker can fail they do, since an
\* error ends the wait like a success (deploy.rs:126), so DockerFails is
\* FALSE here; and a redeploy that overtakes its stop is among the upset ones.
\* Accept loops of a node the row no longer names may be left, and take visitors.
ServedRuns ==
  \A c \in Conns \ upset, n \in Nodes :
    Served(c, n) /\ live[n] /\ jobs = {} /\ Busy(c) = {} => c \in running[n]
=============================================================================
