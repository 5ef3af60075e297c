---------------------------- MODULE Connections ----------------------------
(***************************************************************************)
(* The rows an operator edits through the API and what becomes of them:    *)
(* connections with their bridge, image and node slots, the images that    *)
(* git and Docker Hub loads put in the catalogue, the deployment tracker   *)
(* and the route table, composed with the port pool of BridgePorts.        *)
(*                                                                         *)
(* There is one node.  A route path belongs to a row of bridge_ports, so a *)
(* route is the row's.  The tracker's key is the connection's name, which  *)
(* need not be unique: a name is the first connection that has it.         *)
(* Module Deployment splits deploy_connection and stop_connection further  *)
(* and models the answers of docker; here a deploy that has sent its       *)
(* command is answered, or not, at any time.                               *)
(***************************************************************************)
EXTENDS BridgePorts, FiniteSets

CONSTANTS
  Images,    \* image names
  MaxEdits   \* bound: loads, changes, removals, disconnects and restarts

ASSUME SlotsAssumption == Slots \subseteq Nat /\ MaxEdits \in Nat

VARIABLES
  conn,     \* rows of connections
  images,   \* names of image_nodes
  built,    \* names that have a directory /tmp/kdct-build-<name>
  cloning,  \* git loads at work
  online,   \* the node is in the registry and 'online' in client_nodes
  leaving,  \* remove_by_node holds the tracker
  api,      \* the PATCH or DELETE that stops its connection first
  plan,     \* ports and port_map of a deploy in progress: <<row, pool port>>
  routes,   \* RouteTable: row -> pool port
  stray,    \* history: routes that a race has parted from their record
  freed,    \* history: a port was deleted that a deployment was using
  edits     \* bound

catalogVars == <<images, built, cloning>>
nodeVars == <<online, leaving>>
cvars == <<vars, conn, catalogVars, nodeVars, api, plan, routes, stray, freed,
           edits>>

Connection ==
  [name : Deployments, bridge : Bridges \cup {None}, image : Images \cup {None},
   node : BOOLEAN, status : {"none", "pending", "deployed", "deleted"}]
NoRow(c) == [name |-> c, bridge |-> None, image |-> None, node |-> FALSE,
             status |-> "none"]

\* Types of the rows, the catalogue and the tables, on top of the pool's.
CTypeOK ==
  /\ TypeOK
  /\ conn \in [Deployments -> Connection]
  /\ images \in SUBSET Images
  /\ built \in SUBSET Images
  /\ cloning \in SUBSET Images
  /\ online \in BOOLEAN
  /\ leaving \in BOOLEAN
  /\ api \in [pc : {"stop", "forget", "update"}, conn : Deployments,
              then : {"patch", "delete"}, raced : BOOLEAN] \cup {None}
  /\ plan \in [Deployments -> SUBSET (Rows \X AllPorts)]
  /\ routes \in [Rows -> AllPorts \cup {None}]
  /\ stray \in SUBSET Rows
  /\ freed \in BOOLEAN
  /\ edits \in 0..MaxEdits

\* The catalogue may have been filled before.
CInit ==
  /\ Init
  /\ conn = [c \in Deployments |-> NoRow(c)]
  /\ images = Images
  /\ built = {}
  /\ cloning = {}
  /\ online = FALSE
  /\ leaving = FALSE
  /\ api = None
  /\ plan = [c \in Deployments |-> {}]
  /\ routes = [r \in Rows |-> None]
  /\ stray = {}
  /\ freed = FALSE
  /\ edits = 0

Edit == edits < MaxEdits /\ edits' = edits + 1

Exists(c) == conn[c].status \in {"pending", "deployed"}

-----------------------------------------------------------------------------
(***************************************************************************)
(* Bridges, in the API thread.                                             *)
(***************************************************************************)

InUse ==
  {routes[r] : r \in Rows}
    \cup (UNION {tracked[k] : k \in Deployments})
    \cup (UNION {{x[2] : x \in plan[c]} : c \in Deployments})

AddBridge(b) ==
  /\ api = None
  /\ CreateBridge(b)
  /\ UNCHANGED <<conn, catalogVars, nodeVars, api, plan, routes, stray, freed,
                 edits>>

AddPort(b, s) ==
  /\ api = None
  /\ ReservePort(b, s)
  /\ UNCHANGED <<conn, catalogVars, nodeVars, api, plan, routes, stray, freed,
                 edits>>

AddedPort ==
  /\ InsertPort
  /\ UNCHANGED <<conn, catalogVars, nodeVars, api, plan, routes, stray, freed,
                 edits>>

\* Nobody asks whether the port is in use.
RemovePort(b, s) ==
  /\ api = None
  /\ DeletePort(b, s)
  /\ freed' = (freed \/ pool_port[<<b, s>>] \in InUse)
  /\ Edit
  /\ UNCHANGED <<conn, catalogVars, nodeVars, api, plan, routes, stray>>

\* The bridge slot of a connection that has b becomes NULL; what runs, runs on.
RemoveBridge(b) ==
  /\ api = None
  /\ DeleteBridge(b)
  /\ conn' = [c \in Deployments |->
                IF conn[c].bridge = b THEN [conn[c] EXCEPT !.bridge = None]
                                      ELSE conn[c]]
  /\ freed' = (freed \/ PortsOf(b) \cap InUse # {})
  /\ Edit
  /\ UNCHANGED <<catalogVars, nodeVars, api, plan, routes, stray>>

-----------------------------------------------------------------------------
(***************************************************************************)
(* Images.  A load runs in a task of its own.                              *)
(***************************************************************************)

\* INSERT OR REPLACE: a row of that name is deleted first, and the slots that
\* refer to it become NULL.
InsertImage(i) ==
  /\ images' = images \cup {i}
  /\ conn' = [c \in Deployments |->
                IF conn[c].image = i THEN [conn[c] EXCEPT !.image = None]
                                     ELSE conn[c]]

\* Docker Hub: nothing is fetched.
LoadHub(i) ==
  /\ InsertImage(i)
  /\ Edit
  /\ UNCHANGED <<vars, built, cloning, nodeVars, api, plan, routes, stray, freed>>

\* git clone makes the directory; it fails at once if there is one.
CloneStart(i) ==
  /\ i \notin built
  /\ built' = built \cup {i}
  /\ cloning' = cloning \cup {i}
  /\ Edit
  /\ UNCHANGED <<vars, conn, images, nodeVars, api, plan, routes, stray, freed>>

\* A failed clone takes its directory away; a directory without a Dockerfile stays.
CloneEnd(i) ==
  /\ i \in cloning
  /\ cloning' = cloning \ {i}
  /\ \/ InsertImage(i) /\ UNCHANGED built
     \/ built' = built \ {i} /\ UNCHANGED <<images, conn>>
     \/ UNCHANGED <<built, images, conn>>
  /\ UNCHANGED <<vars, nodeVars, api, plan, routes, stray, freed, edits>>

-----------------------------------------------------------------------------
(***************************************************************************)
(* Connections, in the API thread.                                         *)
(***************************************************************************)

\* parse_slot and update_connection: each slot stays, becomes NULL or refers to a
\* row; a reference to a row that does not exist fails the whole UPDATE.
Update(c, row, withNode) ==
  \E b \in {row.bridge, None} \cup bridges, i \in {row.image, None} \cup images :
    \E n \in IF withNode THEN BOOLEAN ELSE {row.node} :
      conn' = [conn EXCEPT ![c] = [row EXCEPT !.bridge = b, !.image = i, !.node = n]]

\* POST /api/connections; the slots stay NULL if the UPDATE fails.
CreateConnection(c) ==
  /\ req = None /\ api = None
  /\ conn[c].status = "none"
  /\ \E k \in Deployments :
       Update(c, [NoRow(c) EXCEPT !.name = k, !.status = "pending"], TRUE)
  /\ UNCHANGED <<vars, catalogVars, nodeVars, api, plan, routes, stray, freed,
                 edits>>

\* PATCH without a node slot, or of a connection that is not deployed.
PatchConnection(c) ==
  /\ req = None /\ api = None
  /\ Exists(c)
  /\ Update(c, conn[c], conn[c].status # "deployed")
  /\ Edit
  /\ UNCHANGED <<vars, catalogVars, nodeVars, api, plan, routes, stray, freed>>

Deleted(c) == [NoRow(c) EXCEPT !.name = conn[c].name, !.status = "deleted"]

DeleteConnection(c) ==
  /\ req = None /\ api = None
  /\ conn[c].status = "pending"
  /\ conn' = [conn EXCEPT ![c] = Deleted(c)]
  /\ Edit
  /\ UNCHANGED <<vars, catalogVars, nodeVars, api, plan, routes, stray, freed>>

\* PATCH with a node slot, or DELETE, of a deployed connection: stop_connection,
\* up to the answer to ImageStop or its timeout.  raced is history: since the stop
\* read the record it will remove, another has come in its place or a route has been
\* set to one of its ports.
StopStart(c, then) ==
  /\ req = None /\ api = None
  /\ conn[c].status = "deployed"
  /\ api' = [pc |-> "stop", conn |-> c, then |-> then, raced |-> FALSE]
  /\ Edit
  /\ UNCHANGED <<vars, conn, catalogVars, nodeVars, plan, routes, stray, freed>>

\* remove_by_port for each of ports.
RemoveByPort(ports) ==
  /\ routes' = [r \in Rows |-> IF routes[r] \in ports THEN None ELSE routes[r]]
  /\ stray' = {r \in stray : routes[r] \notin ports}

\* Bug: a stop gives the ports back and leaves the routes in the table.
EndPorts(k) == StopRelease(k) /\ UNCHANGED <<routes, stray>>

EndRoutes(k) == StopRelease(k) /\ RemoveByPort(tracked[k])

\* get_deployment by name and node, and its routes and pool ports.
StopRoutes ==
  /\ api # None /\ api.pc = "stop"
  /\ ~leaving
  /\ LET k == conn[api.conn].name
     IN  \/ /\ EndRoutes(k)
            /\ api' = [api EXCEPT !.pc = "forget"]
         \/ /\ tracked[k] = {}
            /\ api' = [api EXCEPT !.pc = "update"]
            /\ UNCHANGED <<vars, routes, stray>>
  /\ UNCHANGED <<conn, catalogVars, nodeVars, plan, freed, edits>>

\* The routes that only the record of k stands for.
OnlyIn(k) ==
  {r \in Rows : /\ routes[r] \in tracked[k]
                /\ \A l \in Deployments \ {k} : routes[r] \notin tracked[l]}

\* The accept loops are told to stop, and remove_deployment, which takes whatever
\* record it finds.  Without a race its routes are those that StopRoutes removed.
StopTracker ==
  /\ api # None /\ api.pc = "forget"
  /\ ~leaving
  /\ LET k == conn[api.conn].name
     IN  /\ StopForget(k)
         /\ stray' = IF api.raced THEN stray \cup OnlyIn(k) ELSE stray
  /\ api' = [api EXCEPT !.pc = "update"]
  /\ UNCHANGED <<conn, catalogVars, nodeVars, plan, routes, freed, edits>>

\* The row is 'pending' without a node; then the request's own change, if the
\* UPDATE does not fail.
StopUpdate ==
  /\ api # None /\ api.pc = "update"
  /\ LET c == api.conn
         stopped == [conn[c] EXCEPT !.node = FALSE, !.status = "pending"]
     IN  \/ /\ api.then = "patch"
            /\ Update(c, stopped, TRUE)
         \/ /\ api.then = "delete"
            /\ conn' = [conn EXCEPT ![c] = Deleted(c)]
  /\ api' = None
  /\ UNCHANGED <<vars, catalogVars, nodeVars, plan, routes, stray, freed, edits>>

-----------------------------------------------------------------------------
(***************************************************************************)
(* deploy_connection, in a task that a request has spawned or in           *)
(* auto-check; one deploy of a connection at a time.                       *)
(***************************************************************************)

RowsOf(b) == {<<b, s>> : s \in {s \in Slots : pool_port[<<b, s>>] # None}}

DeployConnection(c) ==
  /\ plan[c] = {}
  /\ conn[c].status = "pending" /\ conn[c].node /\ online
  /\ conn[c].bridge # None /\ conn[c].image # None
  /\ \A r \in RowsOf(conn[c].bridge) : routes[r] = None
  /\ DeployStart(c, conn[c].bridge)
  /\ plan' = [plan EXCEPT ![c] = {<<r, pool_port[r]>> : r \in RowsOf(conn[c].bridge)}]
  /\ UNCHANGED <<conn, catalogVars, nodeVars, api, routes, stray, freed, edits>>

\* A stop stands between its routes and the record of k.
Forgetting(k) == api # None /\ api.pc = "forget" /\ conn[api.conn].name = k
RacedIf(race) == api' = IF race THEN [api EXCEPT !.raced = TRUE] ELSE api

\* record_deployment replaces the record that is there under the name.
DeployRecord(c) ==
  /\ ~leaving
  /\ DeployTracked(c, conn[c].name)
  /\ stray' = stray \cup {r \in OnlyIn(conn[c].name) : routes[r] \notin starting[c]}
  /\ RacedIf(Forgetting(conn[c].name))
  /\ UNCHANGED <<conn, catalogVars, nodeVars, plan, routes, freed, edits>>

\* No answer.
DeployFail(c) ==
  /\ DeployFailed(c)
  /\ plan' = [plan EXCEPT ![c] = {}]
  /\ UNCHANGED <<conn, catalogVars, nodeVars, api, routes, stray, freed, edits>>

\* table.set in the order of the container ports, until one is taken.
Settable(c) ==
  {x \in plan[c] : \A y \in plan[c] : y[1][2] <= x[1][2] => routes[y[1]] = None}

\* Routes and accept loops, then the row, unless it is gone.
DeployWire(c) ==
  /\ plan[c] # {} /\ starting[c] = {}
  /\ LET set == Settable(c)
     IN  /\ routes' = [r \in Rows |->
                         IF \E x \in set : x[1] = r
                           THEN (CHOOSE x \in set : x[1] = r)[2] ELSE routes[r]]
         /\ stray' = stray \cup
              {x[1] : x \in {x \in set : \A k \in Deployments : x[2] \notin tracked[k]}}
         /\ conn' = IF set = plan[c] /\ Exists(c)
                      THEN [conn EXCEPT ![c] = [conn[c] EXCEPT !.node = TRUE,
                                                               !.status = "deployed"]]
                      ELSE conn
         /\ RacedIf(\E k \in Deployments, x \in set :
                      Forgetting(k) /\ x[2] \in tracked[k])
  /\ plan' = [plan EXCEPT ![c] = {}]
  /\ UNCHANGED <<vars, catalogVars, nodeVars, freed, edits>>

-----------------------------------------------------------------------------
(***************************************************************************)
(* The node-update task, and a restart of kdcts.                           *)
(***************************************************************************)

Connected ==
  /\ ~online /\ ~leaving
  /\ online' = TRUE
  /\ UNCHANGED <<vars, conn, catalogVars, leaving, api, plan, routes, stray, freed,
                 edits>>

\* The rows first; then remove_by_node, if the tracker holds anything.
Disconnected ==
  /\ online
  /\ online' = FALSE
  /\ conn' = [c \in Deployments |->
                IF conn[c].status = "deployed" /\ conn[c].node
                  THEN [conn[c] EXCEPT !.status = "pending"] ELSE conn[c]]
  /\ leaving' = (\E k \in Deployments : tracked[k] # {})
  /\ Edit
  /\ UNCHANGED <<vars, catalogVars, api, plan, routes, stray, freed>>

\* One round of remove_by_node.
RemoveByNode(k) ==
  /\ leaving
  /\ Teardown(k)
  /\ RemoveByPort(tracked[k])
  /\ leaving' = (\E l \in Deployments \ {k} : tracked[l] # {})
  /\ UNCHANGED <<conn, catalogVars, online, api, plan, freed, edits>>

\* The rows stay as they are; mark_all_offline.
CRestart ==
  /\ Restart
  /\ online' = FALSE
  /\ leaving' = FALSE
  /\ api' = None
  /\ plan' = [c \in Deployments |-> {}]
  /\ routes' = [r \in Rows |-> None]
  /\ stray' = {}
  /\ cloning' = {}
  /\ Edit
  /\ UNCHANGED <<conn, images, built, freed>>

CNext ==
  \/ \E b \in Bridges :
       \/ AddBridge(b) \/ RemoveBridge(b)
       \/ \E s \in Slots : AddPort(b, s) \/ RemovePort(b, s)
  \/ AddedPort
  \/ \E i \in Images : LoadHub(i) \/ CloneStart(i) \/ CloneEnd(i)
  \/ \E c \in Deployments :
       \/ CreateConnection(c) \/ PatchConnection(c) \/ DeleteConnection(c)
       \/ \E then \in {"patch", "delete"} : StopStart(c, then)
       \/ DeployConnection(c) \/ DeployRecord(c) \/ DeployFail(c) \/ DeployWire(c)
       \/ RemoveByNode(c)
  \/ StopRoutes \/ StopTracker \/ StopUpdate
  \/ Connected \/ Disconnected
  \/ CRestart

CSpec == CInit /\ [][CNext]_cvars

-----------------------------------------------------------------------------
(***************************************************************************)
(* Properties.                                                             *)
(***************************************************************************)

\* Every route leads to a port of a tracked deployment, so that the end of that
\* deployment removes it, a stop included.  The exceptions are the three races in
\* which routes and record part: another deployment has put its record over the
\* route's (a namesake's, or one of the same connection on another bridge after a
\* wiring that failed halfway); the record was gone before its routes were set; and
\* a stop, between removing routes and removing the record, was overtaken by a new
\* record of that name or by a wiring that set a route to one of its ports.
RoutesTracked ==
  \A r \in Rows :
    routes[r] # None => r \in stray \/ \E k \in Deployments : routes[r] \in tracked[k]

\* What is deployed or about to be: a row's path and the pool port it leads to.
Served == {<<r, routes[r]>> : r \in {r \in Rows : routes[r] # None}}
            \cup (UNION {plan[c] : c \in Deployments})

\* The paths of two rows never lead to one port, neither in the table nor in a
\* deploy that has yet to set its routes, as long as no deployment has ended,
\* kdcts has not restarted, and no port was deleted that a deployment was using.
NoCrossTalk ==
  ~torn /\ ~freed => \A x, y \in Served : x[2] = y[2] => x[1] = y[1]
=============================================================================
