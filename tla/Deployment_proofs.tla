-------------------------- MODULE Deployment_proofs --------------------------
(***************************************************************************)
(* Deploying and stopping, for every set of connections, nodes, paths and  *)
(* background tasks, any number of reconnects, requests and restarts, slow *)
(* docker: types, Agreement, and ServedRuns where docker does not fail.    *)
(***************************************************************************)
EXTENDS Deployment, WellFoundedInduction, SequenceTheorems, TLAPS

TaskRecs == [pc : PCs, conn : Conns \cup {None}, node : Nodes \cup {None},
             epoch : 0..MaxUps, then : {"none", "patch", "delete"},
             target : Nodes \cup {None}]

\* What the steps need beyond types: a task that works has a connection, and one
\* that deploys a node.
Fits(r) ==
  /\ r.pc = "idle" => r = Idle
  /\ r.pc # "idle" => r.conn \in Conns
  /\ r.pc \in {"wait", "wire", "finish"} => r.node \in Nodes

Assigned == \A t \in Tasks : Fits(task[t])

-----------------------------------------------------------------------------
(* Agreement, with what holds while somebody works on a connection.        *)

\* Nothing of c is left in the tables, or all of it, for node n.
Clean(c) == RoutesOf(c) = {} /\ \A m \in Nodes : <<c, m>> \notin tracker
Full(c, n) == RoutesOf(c) = PathSet(c) /\ \A m \in Nodes : <<c, m>> \in tracker <=> m = n

\* What a row that is not deployed may have: nothing, or what the teardown that is
\* half applied will remove.
Left(c) == Clean(c) \/ (cleaning # None /\ Full(c, cleaning))

\* What a task that stands at pc has made of c, with n the node it works with.
Stage(c, pc, n) ==
  /\ pc \in {"try", "update"} => conn[c].status # "deployed" /\ Left(c)
  /\ pc \in {"wait", "wire", "finish"} => conn[c].status = "pending"
  /\ pc = "wait" => Clean(c)
  /\ pc = "wire" => RoutesOf(c) = {} /\ \A m \in Nodes : <<c, m>> \in tracker <=> m = n
  /\ pc = "finish" => Full(c, n)
  /\ pc \in {"stop_wait", "stop_routes"} => (n \in Nodes /\ Full(c, n)) \/ Clean(c)
  /\ pc = "stop_tracker" => RoutesOf(c) = {} /\ \A m \in Nodes : <<c, m>> \in tracker => m = n
  /\ pc = "stop_db" => Clean(c)

\* Nobody works on c.
Rest(c) ==
  IF conn[c].status = "deployed"
    THEN conn[c].node \in Nodes /\ Full(c, conn[c].node) /\ conn[c].node # cleaning
    ELSE Left(c)

\* One task at a time works on c, and c is as that task has left it.
InHand(c) ==
  /\ \A t, u \in Tasks : task[t].conn = c /\ task[u].conn = c => t = u
  /\ (\A t \in Tasks : task[t].conn # c) => Rest(c)
  /\ \A t \in Tasks : task[t].conn = c => Stage(c, task[t].pc, task[t].node)

AllInHand == \A c \in Conns \ upset : InHand(c)

DInv == TypeOK /\ Assigned /\ AllInHand
-----------------------------------------------------------------------------
(* The operators.                                                          *)

\* A nonempty set of numbers has a least one.
LEMMA LeastExists ==
  ASSUME NEW T, T \subseteq Nat, T # {}
  PROVE  \E x \in T : \A y \in T : x <= y
  <1>1. PICK R : R = OpToRel(<, Nat)  BY Zenon
  <1>2. IsWellFoundedOn(R, Nat)  BY <1>1, NatLessThanWellFounded, Zenon
  <1>3. PICK x \in T : \A y \in T : <<y, x>> \notin R
    BY <1>2, WFMin
  <1>4. ASSUME NEW y \in T, y < x PROVE FALSE
    <2>1. <<y, x>> \in OpToRel(<, Nat)  BY <1>4 DEF OpToRel
    <2>2. QED  BY <1>1, <1>3, <2>1, Zenon
  <1>5. QED  BY <1>3, <1>4

\* table.set is called for the paths in order, up to the first that is taken.
LEMMA SettableIs ==
  ASSUME NEW c \in Conns
  PROVE  /\ Settable(c) \in 0..Len(PathsOf[c])
         /\ \A i \in 1..Settable(c) : routes[PathsOf[c][i]] = None
         /\ Settable(c) < Len(PathsOf[c]) => routes[PathsOf[c][Settable(c) + 1]] # None
         /\ Len(PathsOf[c]) \in Nat \ {0}
         /\ \A i \in 1..Len(PathsOf[c]) : PathsOf[c][i] \in Paths
         /\ DOMAIN PathsOf[c] = 1..Len(PathsOf[c])
  <1> DEFINE L == Len(PathsOf[c])
             T == {i \in 1..L : routes[PathsOf[c][i]] # None}
             P(k) == /\ \A i \in 1..k : routes[PathsOf[c][i]] = None
                     /\ k < L => routes[PathsOf[c][k + 1]] # None
  <1>1. PathsOf[c] \in Seq(Paths) /\ PathsOf[c] # <<>>
    BY DeploymentAssumption
  <1>2. /\ L \in Nat \ {0} /\ \A i \in 1..L : PathsOf[c][i] \in Paths
        /\ DOMAIN PathsOf[c] = 1..L
    BY <1>1, EmptySeq, LenProperties
  <1> HIDE DEF L
  <1>3. \E k \in 0..L : P(k)
    <2>1. CASE T = {}
      <3>1. \A i \in 1..L : routes[PathsOf[c][i]] = None  BY <2>1
      <3>2. P(L)  BY <1>2, <3>1
      <3>3. QED  BY <1>2, <3>2
    <2>2. CASE T # {}
      <3>1. T \subseteq Nat  BY <1>2
      <3>2. PICK x \in T : \A y \in T : x <= y  BY <2>2, <3>1, LeastExists
      <3>3. x \in 1..L /\ routes[PathsOf[c][x]] # None  BY <3>2
      <3>4. PICK k \in 0..L : k + 1 = x  BY <1>2, <3>3
      <3>5. \A i \in 1..k : i \in 1..L /\ i \notin T  BY <1>2, <3>2, <3>3, <3>4
      <3>6. P(k)  BY <3>3, <3>4, <3>5
      <3>7. QED  BY <3>6
    <2>3. QED  BY <2>1, <2>2
  <1>4. Settable(c) = CHOOSE k \in 0..L : P(k)  BY DEF Settable, L
  <1>5. Settable(c) \in 0..L /\ P(Settable(c))  BY <1>3, <1>4
  <1>6. QED  BY <1>2, <1>5 DEF L

\* A connection that has its routes has at least one, and they are in the way of a
\* deploy of it.
LEMMA FullConflicts ==
  ASSUME NEW c \in Conns, RoutesOf(c) = PathSet(c)
  PROVE  Conflict(c)
  <1>1. PathsOf[c][1] \in PathSet(c) /\ PathsOf[c][1] \in Paths /\ 1 \in DOMAIN PathsOf[c]
    BY SettableIs DEF PathSet
  <1>2. routes[PathsOf[c][1]] = c  BY <1>1 DEF RoutesOf
  <1>3. c # None /\ <<PathsOf[c][1], PathsOf[c][1]>> \in Covers
    BY <1>1, DeploymentAssumption
  <1>4. QED  BY <1>1, <1>2, <1>3 DEF Conflict
-----------------------------------------------------------------------------
(* Types.                                                                  *)

LEMMA Distinct ==
  /\ None \notin Conns /\ None \notin Nodes /\ None \notin Tasks
  /\ Api \in Tasks /\ Background \subseteq Tasks
  /\ MaxUps \in Nat /\ MaxChanges \in Nat
  BY DeploymentAssumption DEF Tasks

LEMMA IdleType == Idle \in TaskRecs /\ Fits(Idle) /\ Idle.pc = "idle" /\ Idle.conn = None
  BY Distinct DEF Idle, TaskRecs, PCs, Fits

\* A task is given something else to do.
LEMMA TaskSet ==
  ASSUME TypeOK, Assigned, NEW t \in Tasks, NEW r \in TaskRecs, Fits(r),
         task' = [task EXCEPT ![t] = r]
  PROVE  /\ task' \in [Tasks -> TaskRecs] /\ Assigned' /\ task'[t] = r
         /\ \A u \in Tasks \ {t} : task'[u] = task[u]
  <1>1. task \in [Tasks -> TaskRecs]  BY DEF TypeOK, TaskRecs
  <1>2. task'[t] = r /\ \A u \in Tasks \ {t} : task'[u] = task[u]  BY <1>1
  <1>3. \A u \in Tasks : Fits(task'[u])  BY <1>2 DEF Assigned
  <1>4. QED  BY <1>1, <1>2, <1>3 DEF Assigned, Fits

\* It goes on with its connection.
LEMMA GotoSet ==
  ASSUME TypeOK, Assigned, NEW t \in Tasks, NEW pc \in PCs \ {"idle"}, Goto(t, pc),
         task[t].conn \in Conns,
         pc \in {"wait", "wire", "finish"} => task[t].node \in Nodes
  PROVE  /\ task' \in [Tasks -> TaskRecs] /\ Assigned'
         /\ task'[t].pc = pc /\ task'[t].conn = task[t].conn /\ task'[t].node = task[t].node
         /\ \A u \in Tasks \ {t} : task'[u] = task[u]
  <1> DEFINE r == [task[t] EXCEPT !.pc = pc]
  <1>1. task[t] \in TaskRecs /\ task \in [Tasks -> TaskRecs]
    BY DEF TypeOK, TaskRecs
  <1>2. /\ r \in TaskRecs /\ r.pc = pc /\ r.conn = task[t].conn /\ r.node = task[t].node
    BY <1>1 DEF TaskRecs
  <1>3. Fits(r)  BY <1>2 DEF Fits
  <1>4. task' = [task EXCEPT ![t] = r]  BY <1>1 DEF Goto
  <1> HIDE DEF r
  <1>5. QED  BY <1>2, <1>3, <1>4, TaskSet

\* It has nothing to do any more.
LEMMA ReturnSet ==
  ASSUME TypeOK, Assigned, NEW t \in Tasks, Return(t)
  PROVE  /\ task' \in [Tasks -> TaskRecs] /\ Assigned' /\ task'[t] = Idle
         /\ \A u \in Tasks \ {t} : task'[u] = task[u]
  BY IdleType, TaskSet DEF Return

LEMMA KeepSet ==
  ASSUME TypeOK, Assigned, task' = task
  PROVE  task' \in [Tasks -> TaskRecs] /\ Assigned'
  BY DEF TypeOK, TaskRecs, Assigned, Fits

PendingType == /\ pending \in [Nodes -> [Conns -> Tasks \cup {None}]]
               /\ reply \in [Tasks -> {"none", "answered", "dropped"}]

LEMMA SwapType ==
  ASSUME PendingType, NEW n \in Nodes, NEW c \in Conns, NEW x \in Tasks \cup {None},
         NEW how \in {"answered", "dropped"}, Swap(n, c, x, how)
  PROVE  PendingType'
  BY DEF PendingType, Swap

LEMMA GiveUpType ==
  ASSUME PendingType, NEW t \in Tasks, GiveUp(t), task[t].node \in Nodes,
         task[t].conn \in Conns
  PROVE  PendingType'
  <1>1. CASE task[t].epoch = epoch[task[t].node]
    <2>1. /\ pending' = [pending EXCEPT ![task[t].node][task[t].conn] = None]
          /\ reply' = [u \in Tasks |->
                         IF u = t THEN "none"
                         ELSE IF u = pending[task[t].node][task[t].conn] THEN "dropped"
                         ELSE reply[u]]
      BY <1>1 DEF GiveUp
    <2>2. QED  BY <2>1 DEF PendingType
  <1>2. CASE task[t].epoch # epoch[task[t].node]
    <2>1. reply' = [reply EXCEPT ![t] = "none"] /\ UNCHANGED pending
      BY <1>2 DEF GiveUp
    <2>2. QED  BY <2>1 DEF PendingType
  <1>3. QED  BY <1>1, <1>2

LEMMA RequestType ==
  ASSUME TypeOK, NEW t \in Tasks, NEW kind \in {"start", "stop"}, NEW c \in Conns,
         NEW n \in Nodes, Request(t, kind, c, n)
  PROVE  PendingType' /\ jobs' \in SUBSET Jobs
  <1>1. PendingType  BY DEF TypeOK, PendingType
  <1>2. PendingType'
    <2>1. Swap(n, c, t, "dropped")  BY DEF Request
    <2>2. QED  BY <1>1, <2>1, SwapType
  <1>3. jobs' \in SUBSET Jobs
    <2>1. [kind |-> kind, task |-> t, conn |-> c, node |-> n, epoch |-> epoch[n]] \in Jobs
      BY DEF TypeOK, Jobs
    <2>2. QED  BY <2>1 DEF Request, TypeOK
  <1>4. QED  BY <1>2, <1>3
\* The variables in groups, each with its type.
RowType == /\ conn \in [Conns -> [node : Nodes \cup {None},
                                status : {"pending", "deployed", "deleted"}]]
           /\ node_status \in [Nodes -> {"online", "offline"}]
NodeType == /\ epoch \in [Nodes -> 0..MaxUps] /\ live \in [Nodes -> BOOLEAN]
            /\ ghost \in [Nodes -> BOOLEAN] /\ reg \in [Nodes -> BOOLEAN]
ClientType == jobs \in SUBSET Jobs /\ running \in [Nodes -> SUBSET Conns]
TableType == /\ tracker \in SUBSET (Conns \X Nodes) /\ routes \in [Paths -> Conns \cup {None}]
             /\ forwards \in SUBSET (Conns \X Nodes \X (0..MaxUps))
ConsumerType == /\ updates \in Seq({"Connected", "Disconnected"} \X Nodes)
                /\ cleaning \in Nodes \cup {None}
BoundType == upset \in SUBSET Conns /\ changes \in 0..MaxChanges

LEMMA Groups ==
  ASSUME RowType', NodeType', PendingType', ClientType', TableType', ConsumerType',
         BoundType', task' \in [Tasks -> TaskRecs]
  PROVE  TypeOK'
  BY DEF TypeOK, RowType, NodeType, PendingType, ClientType, TableType, ConsumerType,
         BoundType, TaskRecs

\* A group that is left alone keeps its type.
LEMMA GroupsKeep ==
  ASSUME TypeOK
  PROVE  /\ UNCHANGED dbVars => RowType'
         /\ UNCHANGED nodeVars => NodeType'
         /\ UNCHANGED <<pending, reply>> => PendingType'
         /\ UNCHANGED clientVars => ClientType'
         /\ UNCHANGED tableVars => TableType'
         /\ UNCHANGED consumerVars => ConsumerType'
         /\ UNCHANGED <<upset, changes>> => BoundType'
  <1>1. UNCHANGED dbVars => RowType'  BY DEF TypeOK, dbVars, RowType
  <1>2. UNCHANGED nodeVars => NodeType'  BY DEF TypeOK, nodeVars, NodeType
  <1>3. UNCHANGED <<pending, reply>> => PendingType'  BY DEF TypeOK, PendingType
  <1>4. UNCHANGED clientVars => ClientType'  BY DEF TypeOK, clientVars, ClientType
  <1>5. UNCHANGED tableVars => TableType'  BY DEF TypeOK, tableVars, TableType
  <1>6. UNCHANGED consumerVars => ConsumerType'  BY DEF TypeOK, consumerVars, ConsumerType
  <1>7. UNCHANGED <<upset, changes>> => BoundType'  BY DEF TypeOK, BoundType
  <1>8. QED  BY <1>1, <1>2, <1>3, <1>4, <1>5, <1>6, <1>7

LEMMA TypeDeploy ==
  ASSUME TypeOK, Assigned, NEW t \in Tasks, NEW c \in Conns, Deploy(t, c),
         UNCHANGED <<dbVars, nodeVars, running, tableVars, consumerVars, changes>>
  PROVE  TypeOK' /\ Assigned'
  <1> DEFINE n == conn[c].node
             r == [Idle EXCEPT !.pc = "wait", !.conn = c, !.node = n, !.epoch = epoch[n]]
  <1>1. MayDeploy(c) /\ Request(t, "start", c, n) /\ task' = [task EXCEPT ![t] = r]
    BY DEF Deploy
  <1>2. n \in Nodes  BY <1>1 DEF MayDeploy, TypeOK
  <1>3. epoch[n] \in 0..MaxUps  BY <1>2 DEF TypeOK
  <1>4. r \in TaskRecs /\ Fits(r)
    BY <1>2, <1>3 DEF Idle, TaskRecs, PCs, Fits
  <1> HIDE DEF r
  <1>5. task' \in [Tasks -> TaskRecs] /\ Assigned'  BY <1>1, <1>4, TaskSet
  <1>6. PendingType' /\ jobs' \in SUBSET Jobs  BY <1>1, <1>2, RequestType
  <1>7. upset' \in SUBSET Conns
    <2>1. upset' = upset \/ upset' = upset \cup {c}  BY DEF Deploy
    <2>2. QED  BY <2>1 DEF TypeOK
  <1>8. ClientType' /\ BoundType'  BY <1>6, <1>7 DEF TypeOK, ClientType, BoundType
  <1>9. QED  BY <1>5, <1>6, <1>8, Groups, GroupsKeep

LEMMA TypeDeployStep ==
  ASSUME TypeOK, Assigned, NEW t \in Tasks, DeployStep(t)
  PROVE  TypeOK' /\ Assigned'
  <1>0. /\ task[t].pc # "idle" => task[t].conn \in Conns
        /\ task[t].pc \in {"wait", "wire", "finish"} => task[t].node \in Nodes
        /\ task[t].epoch \in 0..MaxUps
    BY DEF Assigned, Fits, TypeOK
  <1>1. CASE TryDeploy(t)
    <2>1. task[t].conn \in Conns  BY <1>0, <1>1 DEF TryDeploy
    <2>2. UNCHANGED <<dbVars, nodeVars, running, tableVars, consumerVars, changes>>
      BY <1>1 DEF TryDeploy
    <2>3. CASE Deploy(t, task[t].conn)  BY <2>1, <2>2, <2>3, TypeDeploy
    <2>4. CASE Return(t) /\ UNCHANGED <<pending, jobs, reply, upset>>
      BY <2>2, <2>4, ReturnSet, Groups, GroupsKeep DEF clientVars
    <2>5. QED  BY <1>1, <2>3, <2>4 DEF TryDeploy
  <1>2. CASE DeployRecord(t)
    <2>1. /\ Goto(t, "wire") /\ task[t].pc = "wait"
          /\ reply' = [reply EXCEPT ![t] = "none"]
          /\ tracker' = tracker \cup {<<task[t].conn, task[t].node>>}
          /\ UNCHANGED <<dbVars, nodeVars, pending, clientVars, routes, forwards,
                         consumerVars, upset, changes>>
      BY <1>2 DEF DeployRecord
    <2>2. task' \in [Tasks -> TaskRecs] /\ Assigned'
      BY <1>0, <2>1, GotoSet DEF PCs
    <2>3. PendingType'  BY <2>1 DEF TypeOK, PendingType
    <2>4. TableType'  BY <1>0, <2>1 DEF TypeOK, TableType
    <2>5. QED  BY <2>1, <2>2, <2>3, <2>4, Groups, GroupsKeep
  <1>3. CASE DeployDropped(t) \/ DeployTimeout(t)
    <2>1. /\ GiveUp(t) /\ Return(t) /\ task[t].pc = "wait"
          /\ UNCHANGED <<dbVars, nodeVars, clientVars, tableVars, consumerVars, upset,
                         changes>>
      BY <1>3 DEF DeployDropped, DeployTimeout
    <2>2. PendingType'
      BY <1>0, <2>1, GiveUpType DEF TypeOK, PendingType
    <2>3. QED  BY <2>1, <2>2, ReturnSet, Groups, GroupsKeep
  <1>4. CASE DeployWire(t)
    <2> DEFINE c == task[t].conn
    <2>1. /\ task[t].pc = "wire"
          /\ routes' = [p \in Paths |->
                          IF \E i \in 1..Settable(c) : PathsOf[c][i] = p THEN c ELSE routes[p]]
          /\ \/ forwards' = forwards \cup {<<c, task[t].node, task[t].epoch>>}
             \/ UNCHANGED forwards
          /\ upset' = upset \/ upset' = upset \cup {c}
          /\ Goto(t, "finish") \/ Return(t)
          /\ UNCHANGED <<dbVars, nodeVars, pending, clientVars, reply, tracker,
                         consumerVars, changes>>
      BY <1>4 DEF DeployWire
    <2>2. c \in Conns /\ task[t].node \in Nodes  BY <1>0, <2>1
    <2>3. task' \in [Tasks -> TaskRecs] /\ Assigned'
      BY <2>1, <2>2, GotoSet, ReturnSet DEF PCs
    <2>4. routes' \in [Paths -> Conns \cup {None}]  BY <2>1, <2>2 DEF TypeOK
    <2>5. forwards' \in SUBSET (Conns \X Nodes \X (0..MaxUps))
      BY <1>0, <2>1, <2>2 DEF TypeOK
    <2>6. TableType'  BY <2>1, <2>4, <2>5 DEF TypeOK, TableType
    <2>7. BoundType'  BY <2>1, <2>2 DEF TypeOK, BoundType
    <2>8. QED  BY <2>1, <2>3, <2>6, <2>7, Groups, GroupsKeep
  <1>5. CASE DeployFinish(t)
    <2>1. /\ SetRow(task[t].conn, task[t].node, "deployed") /\ task[t].pc = "finish"
          /\ upset' = upset \/ upset' = upset \cup {task[t].conn}
          /\ Return(t)
          /\ UNCHANGED <<node_status, nodeVars, pending, clientVars, reply, tableVars,
                         consumerVars, changes>>
      BY <1>5 DEF DeployFinish
    <2>2. task[t].conn \in Conns /\ task[t].node \in Nodes  BY <1>0, <2>1
    <2>3. RowType'  BY <2>1, <2>2 DEF SetRow, TypeOK, RowType
    <2>4. BoundType'  BY <2>1, <2>2 DEF TypeOK, BoundType
    <2>5. QED  BY <2>1, <2>3, <2>4, ReturnSet, Groups, GroupsKeep
  <1>6. QED  BY <1>1, <1>2, <1>3, <1>4, <1>5 DEF DeployStep
LEMMA TypeChange ==
  ASSUME TypeOK, Assigned, NEW c \in Conns, NEW then \in {"patch", "delete"},
         NEW n \in Nodes \cup {None}, ChangeConnection(c, then, n)
  PROVE  TypeOK' /\ Assigned'
  <1> DEFINE old == conn[c].node
             work == [pc |-> "update", conn |-> c, node |-> old, epoch |-> 0,
                      then |-> then, target |-> n]
  <1>1. old \in Nodes \cup {None} /\ Api \in Tasks  BY Distinct DEF TypeOK
  <1>2. work \in TaskRecs /\ Fits(work)
    BY <1>1, Distinct DEF TaskRecs, PCs, Fits
  <1>3. /\ [work EXCEPT !.pc = "stop_routes"] \in TaskRecs
        /\ Fits([work EXCEPT !.pc = "stop_routes"])
    BY <1>2 DEF TaskRecs, PCs, Fits
  <1>4. ASSUME old \in Nodes
        PROVE  /\ [work EXCEPT !.pc = "stop_wait", !.epoch = epoch[old]] \in TaskRecs
               /\ Fits([work EXCEPT !.pc = "stop_wait", !.epoch = epoch[old]])
    <2>1. epoch[old] \in 0..MaxUps  BY <1>4 DEF TypeOK
    <2>2. QED  BY <1>2, <2>1 DEF TaskRecs, PCs, Fits
  <1>5. /\ changes' = changes + 1 /\ changes < MaxChanges
        /\ upset' = upset \/ upset' = upset \cup {c}
        /\ UNCHANGED <<dbVars, nodeVars, running, tableVars, consumerVars>>
        /\ \/ /\ Request(Api, "stop", c, old) /\ old # None
              /\ task' = [task EXCEPT ![Api] =
                            [work EXCEPT !.pc = "stop_wait", !.epoch = epoch[old]]]
           \/ /\ task' = [task EXCEPT ![Api] = [work EXCEPT !.pc = "stop_routes"]]
              /\ UNCHANGED <<pending, jobs, reply>>
           \/ task' = [task EXCEPT ![Api] = work] /\ UNCHANGED <<pending, jobs, reply>>
    BY DEF ChangeConnection
  <1> HIDE DEF work, old
  <1>6. task' \in [Tasks -> TaskRecs] /\ Assigned'
    BY <1>1, <1>2, <1>3, <1>4, <1>5, TaskSet
  <1>7. PendingType' /\ jobs' \in SUBSET Jobs
    <2>1. CASE Request(Api, "stop", c, old) /\ old # None
      BY <1>1, <2>1, RequestType
    <2>2. CASE UNCHANGED <<pending, jobs, reply>>
      BY <2>2 DEF TypeOK, PendingType
    <2>3. QED  BY <1>5, <2>1, <2>2
  <1>8. BoundType'  BY <1>5, Distinct DEF TypeOK, BoundType
  <1>9. ClientType'  BY <1>5, <1>7 DEF TypeOK, ClientType
  <1>10. QED  BY <1>5, <1>6, <1>7, <1>8, <1>9, Groups, GroupsKeep

LEMMA TypeStopStep ==
  ASSUME TypeOK, Assigned, NEW t \in Tasks, StopStep(t)
  PROVE  TypeOK' /\ Assigned'
  <1>0. task[t].pc # "idle" => task[t].conn \in Conns
    BY DEF Assigned, Fits
  <1>1. CASE StopWait(t)
    <2>1. /\ Goto(t, "stop_routes") /\ task[t].pc = "stop_wait"
          /\ pending' = [n \in Nodes |-> [c \in Conns |->
                          IF pending[n][c] = t THEN None ELSE pending[n][c]]]
          /\ reply' = [reply EXCEPT ![t] = "none"]
          /\ UNCHANGED <<dbVars, nodeVars, clientVars, tableVars, consumerVars, upset,
                         changes>>
      BY <1>1 DEF StopWait
    <2>2. task' \in [Tasks -> TaskRecs] /\ Assigned'
      BY <1>0, <2>1, GotoSet DEF PCs
    <2>3. PendingType'  BY <2>1 DEF TypeOK, PendingType
    <2>4. QED  BY <2>1, <2>2, <2>3, Groups, GroupsKeep
  <1>2. CASE StopRoutes(t)
    <2>1. /\ task[t].pc = "stop_routes"
          /\ \/ Goto(t, "stop_tracker") /\ routes' = Without(task[t].conn)
             \/ Goto(t, "stop_db") /\ UNCHANGED routes
          /\ UNCHANGED <<dbVars, nodeVars, pending, clientVars, reply, tracker, forwards,
                         consumerVars, upset, changes>>
      BY <1>2 DEF StopRoutes
    <2>2. task' \in [Tasks -> TaskRecs] /\ Assigned'
      BY <1>0, <2>1, GotoSet DEF PCs
    <2>3. TableType'  BY <2>1 DEF TypeOK, TableType, Without
    <2>4. QED  BY <2>1, <2>2, <2>3, Groups, GroupsKeep
  <1>3. CASE StopTracker(t)
    <2>1. /\ task[t].pc = "stop_tracker" /\ Goto(t, "stop_db")
          /\ Untrack(task[t].conn, task[t].node)
          /\ UNCHANGED <<dbVars, nodeVars, pending, clientVars, reply, routes,
                         consumerVars, upset, changes>>
      BY <1>3 DEF StopTracker
    <2>2. task' \in [Tasks -> TaskRecs] /\ Assigned'
      BY <1>0, <2>1, GotoSet DEF PCs
    <2>3. TableType'  BY <2>1 DEF TypeOK, TableType, Untrack
    <2>4. QED  BY <2>1, <2>2, <2>3, Groups, GroupsKeep
  <1>4. CASE StopDb(t)
    <2>1. /\ task[t].pc = "stop_db" /\ Goto(t, "update")
          /\ SetRow(task[t].conn, None, "pending")
          /\ UNCHANGED <<node_status, nodeVars, pending, clientVars, reply, tableVars,
                         consumerVars, upset, changes>>
      BY <1>4 DEF StopDb
    <2>2. task' \in [Tasks -> TaskRecs] /\ Assigned'
      BY <1>0, <2>1, GotoSet DEF PCs
    <2>3. RowType'  BY <1>0, <2>1 DEF TypeOK, RowType, SetRow
    <2>4. QED  BY <2>1, <2>2, <2>3, Groups, GroupsKeep
  <1>5. CASE UpdateConnection(t)
    <2> DEFINE c == task[t].conn
    <2>1. /\ task[t].pc = "update"
          /\ UNCHANGED <<node_status, nodeVars, pending, clientVars, reply, tableVars,
                         consumerVars, upset, changes>>
      BY <1>5 DEF UpdateConnection
    <2>2. c \in Conns /\ task[t].target \in Nodes \cup {None}
      BY <1>0, <2>1 DEF TypeOK
    <2>3. ASSUME SetRow(c, task[t].target, conn[c].status), NEW b \in Background,
                 task[b].pc = "idle",
                 task' = [task EXCEPT ![t] = Idle,
                                      ![b] = [Idle EXCEPT !.pc = "try", !.conn = c]]
          PROVE  TypeOK' /\ Assigned'
      <3>1. /\ [Idle EXCEPT !.pc = "try", !.conn = c] \in TaskRecs
            /\ Fits([Idle EXCEPT !.pc = "try", !.conn = c])
        BY <2>2, IdleType DEF Idle, TaskRecs, PCs, Fits
      <3>2. task' \in [Tasks -> TaskRecs]
        BY <2>3, <3>1, IdleType DEF TypeOK, TaskRecs
      <3>3. \A u \in Tasks : Fits(task'[u])
        BY <2>3, <3>1, IdleType DEF TypeOK, Assigned
      <3>4. Assigned'  BY <3>3 DEF Assigned, Fits
      <3>5. RowType'
        <4>1. conn[c].status \in {"pending", "deployed", "deleted"}  BY <2>2 DEF TypeOK
        <4>2. QED  BY <2>1, <2>2, <2>3, <4>1 DEF TypeOK, RowType, SetRow
      <3>6. QED  BY <2>1, <3>2, <3>4, <3>5, Groups, GroupsKeep
    <2>4. ASSUME Return(t),
                 conn' = [conn EXCEPT ![c] = [node |-> None, status |-> "deleted"]]
          PROVE  TypeOK' /\ Assigned'
      <3>1. RowType'  BY <2>1, <2>2, <2>4 DEF TypeOK, RowType
      <3>2. QED  BY <2>1, <2>4, <3>1, ReturnSet, Groups, GroupsKeep
    <2>5. QED  BY <1>5, <2>3, <2>4 DEF UpdateConnection
  <1>6. QED  BY <1>1, <1>2, <1>3, <1>4, <1>5 DEF StopStep

LEMMA TypeClient ==
  ASSUME TypeOK, Assigned, \E j \in jobs : JobDone(j)
  PROVE  TypeOK' /\ Assigned'
  <1>1. PICK j \in jobs : JobDone(j)  OBVIOUS
  <1>2. /\ jobs' = jobs \ {j}
        /\ \E r \in Outcomes(j) : running' = [running EXCEPT ![j.node] = r]
        /\ \/ Swap(j.node, j.conn, None, "answered")
           \/ UNCHANGED <<pending, reply>>
        /\ UNCHANGED <<dbVars, nodeVars, task, tableVars, consumerVars, upset, changes>>
    BY <1>1 DEF JobDone
  <1>3. j.node \in Nodes /\ j.conn \in Conns  BY DEF TypeOK, Jobs
  <1>4. Outcomes(j) \subseteq SUBSET Conns
    <2>1. running[j.node] \in SUBSET Conns  BY <1>3 DEF TypeOK
    <2>2. QED  BY <1>3, <2>1 DEF Outcomes
  <1>5. ClientType'  BY <1>2, <1>3, <1>4 DEF TypeOK, ClientType
  <1>6. PendingType'
    <2>1. PendingType  BY DEF TypeOK, PendingType
    <2>2. CASE Swap(j.node, j.conn, None, "answered")  BY <1>3, <2>1, <2>2, SwapType
    <2>3. CASE UNCHANGED <<pending, reply>>  BY <2>3, GroupsKeep
    <2>4. QED  BY <1>2, <2>2, <2>3
  <1>7. QED  BY <1>2, <1>5, <1>6, KeepSet, Groups, GroupsKeep

LEMMA TypeUpdates ==
  ASSUME TypeOK, NEW n \in Nodes, NEW e \in {"Connected", "Disconnected"},
         updates' = Append(updates, <<e, n>>), UNCHANGED cleaning
  PROVE  ConsumerType'
  BY AppendProperties DEF TypeOK, ConsumerType

LEMMA TypeNode ==
  ASSUME TypeOK, Assigned, NEW n \in Nodes,
         NodeUp(n) \/ Report(n) \/ NodeDrop(n) \/ GhostGone(n) \/ CacheExpired(n)
  PROVE  TypeOK' /\ Assigned'
  <1>1. CASE NodeUp(n)
    <2>1. /\ live' = [live EXCEPT ![n] = TRUE] /\ epoch' = [epoch EXCEPT ![n] = @ + 1]
          /\ epoch[n] < MaxUps /\ reg' = [reg EXCEPT ![n] = TRUE]
          /\ pending' = [pending EXCEPT ![n] = [c \in Conns |-> None]]
          /\ updates' = Append(updates, <<"Connected", n>>)
          /\ UNCHANGED <<dbVars, ghost, clientVars, task, reply, tableVars, cleaning,
                         upset, changes>>
      BY <1>1 DEF NodeUp
    <2>2. epoch[n] + 1 \in 0..MaxUps  BY <2>1, Distinct DEF TypeOK
    <2>3. NodeType'  BY <2>1, <2>2 DEF TypeOK, NodeType
    <2>4. PendingType'  BY <2>1 DEF TypeOK, PendingType
    <2>5. ConsumerType'  BY <2>1, TypeUpdates
    <2>6. QED  BY <2>1, <2>3, <2>4, <2>5, KeepSet, Groups, GroupsKeep
  <1>2. CASE Report(n)
    <2>1. /\ reg' = [reg EXCEPT ![n] = TRUE]
          /\ updates' = Append(updates, <<"Connected", n>>)
          /\ pending' = [pending EXCEPT ![n] =
                           [c \in Conns |-> IF c \in running[n] THEN None ELSE @[c]]]
          /\ reply' = [t \in Tasks |->
                         IF (\E c \in running[n] : pending[n][c] = t) /\ reply[t] = "none"
                           THEN "answered" ELSE reply[t]]
          /\ UNCHANGED <<dbVars, epoch, live, ghost, clientVars, task, tableVars, cleaning,
                         upset, changes>>
      BY <1>2 DEF Report
    <2>2. NodeType'  BY <2>1 DEF TypeOK, NodeType
    <2>3. PendingType'
      <3>1. pending[n] \in [Conns -> Tasks \cup {None}]  BY DEF TypeOK
      <3>2. pending' = [pending EXCEPT ![n] =
                         [c \in Conns |-> IF c \in running[n] THEN None ELSE pending[n][c]]]
        BY <2>1 DEF TypeOK
      <3>3. pending' \in [Nodes -> [Conns -> Tasks \cup {None}]]
        BY <3>1, <3>2 DEF TypeOK
      <3>4. reply' \in [Tasks -> {"none", "answered", "dropped"}]
        BY <2>1 DEF TypeOK
      <3>5. QED  BY <3>3, <3>4 DEF PendingType
    <2>4. ConsumerType'  BY <2>1, TypeUpdates
    <2>5. QED  BY <2>1, <2>2, <2>3, <2>4, KeepSet, Groups, GroupsKeep
  <1>3. CASE NodeDrop(n)
    <2>1. /\ live' = [live EXCEPT ![n] = FALSE] /\ ghost' = [ghost EXCEPT ![n] = TRUE]
          /\ UNCHANGED <<dbVars, epoch, reg, pending, clientVars, task, reply, tableVars,
                         consumerVars, upset, changes>>
      BY <1>3 DEF NodeDrop
    <2>2. NodeType'  BY <2>1 DEF TypeOK, NodeType
    <2>3. QED  BY <2>1, <2>2, KeepSet, Groups, GroupsKeep
  <1>4. CASE GhostGone(n)
    <2>1. /\ ghost' = [ghost EXCEPT ![n] = FALSE] /\ reg' = [reg EXCEPT ![n] = FALSE]
          /\ updates' = Append(updates, <<"Disconnected", n>>)
          /\ UNCHANGED <<dbVars, epoch, live, pending, clientVars, task, reply, tableVars,
                         cleaning, upset, changes>>
      BY <1>4 DEF GhostGone
    <2>2. NodeType'  BY <2>1 DEF TypeOK, NodeType
    <2>3. ConsumerType'  BY <2>1, TypeUpdates
    <2>4. QED  BY <2>1, <2>2, <2>3, KeepSet, Groups, GroupsKeep
  <1>5. CASE CacheExpired(n)
    <2>1. /\ running' = [running EXCEPT ![n] = {}]
          /\ UNCHANGED <<dbVars, nodeVars, pending, jobs, task, reply, tableVars,
                         consumerVars, upset, changes>>
      BY <1>5 DEF CacheExpired
    <2>2. ClientType'  BY <2>1 DEF TypeOK, ClientType
    <2>3. QED  BY <2>1, <2>2, KeepSet, Groups, GroupsKeep
  <1>6. QED  BY <1>1, <1>2, <1>3, <1>4, <1>5

LEMMA CommittedType ==
  ASSUME Assigned, NEW n
  PROVE  Committed(n) \subseteq Conns
  BY DEF Committed, Assigned, Fits

LEMMA TypeConsume ==
  ASSUME TypeOK, Assigned, Consume
  PROVE  TypeOK' /\ Assigned'
  <1>0. updates # <<>> => Tail(updates) \in Seq({"Connected", "Disconnected"} \X Nodes)
    BY HeadTailProperties DEF TypeOK
  <1>1. ASSUME NEW n \in Nodes, ApplyConnected(n) PROVE TypeOK' /\ Assigned'
    <2>1. /\ updates # <<>> /\ updates' = Tail(updates)
          /\ node_status' = [node_status EXCEPT ![n] = "online"]
          /\ UNCHANGED <<conn, nodeVars, pending, clientVars, task, reply, tableVars,
                         cleaning, upset, changes>>
      BY <1>1 DEF ApplyConnected
    <2>2. RowType'  BY <2>1 DEF TypeOK, RowType
    <2>3. ConsumerType'  BY <1>0, <2>1 DEF TypeOK, ConsumerType
    <2>4. QED  BY <2>1, <2>2, <2>3, KeepSet, Groups, GroupsKeep
  <1>2. ASSUME NEW n \in Nodes, ApplyDisconnected(n) PROVE TypeOK' /\ Assigned'
    <2>1. /\ updates # <<>> /\ updates' = Tail(updates) /\ cleaning' = n
          /\ node_status' = [node_status EXCEPT ![n] = "offline"]
          /\ MarkRows(n) /\ upset' = upset \cup Committed(n)
          /\ UNCHANGED <<nodeVars, pending, clientVars, task, reply, tableVars, changes>>
      BY <1>2 DEF ApplyDisconnected
    <2>2. RowType'
      <3>1. conn' \in [Conns -> [node : Nodes \cup {None},
                                status : {"pending", "deployed", "deleted"}]]
        BY <2>1 DEF TypeOK, MarkRows
      <3>2. QED  BY <2>1, <3>1 DEF TypeOK, RowType
    <2>3. ConsumerType'  BY <1>0, <2>1 DEF TypeOK, ConsumerType
    <2>4. BoundType'  BY <2>1, CommittedType DEF TypeOK, BoundType
    <2>5. QED  BY <2>1, <2>2, <2>3, <2>4, KeepSet, Groups, GroupsKeep
  <1>3. CASE RemoveByNode
    <2>1. /\ routes' = [p \in Paths |->
                          IF <<routes[p], cleaning>> \in tracker THEN None ELSE routes[p]]
          /\ tracker' = {k \in tracker : k[2] # cleaning}
          /\ upset' = upset \cup Committed(cleaning) /\ cleaning' = None
          /\ UNCHANGED <<dbVars, nodeVars, pending, clientVars, task, reply, forwards,
                         updates, changes>>
      BY <1>3 DEF RemoveByNode
    <2>2. TableType'  BY <2>1 DEF TypeOK, TableType
    <2>3. ConsumerType'  BY <2>1 DEF TypeOK, ConsumerType
    <2>4. BoundType'  BY <2>1, CommittedType DEF TypeOK, BoundType
    <2>5. QED  BY <2>1, <2>2, <2>3, <2>4, KeepSet, Groups, GroupsKeep
  <1>4. QED  BY <1>1, <1>2, <1>3 DEF Consume

LEMMA TypeRestart ==
  ASSUME TypeOK, Restart
  PROVE  TypeOK' /\ Assigned'
  <1>1. /\ changes < MaxChanges /\ changes' = changes + 1
        /\ node_status' = [n \in Nodes |-> "offline"]
        /\ live' = [n \in Nodes |-> FALSE] /\ ghost' = [n \in Nodes |-> FALSE]
        /\ reg' = [n \in Nodes |-> FALSE]
        /\ pending' = [n \in Nodes |-> [c \in Conns |-> None]]
        /\ task' = [t \in Tasks |-> Idle] /\ reply' = [t \in Tasks |-> "none"]
        /\ tracker' = {} /\ routes' = [p \in Paths |-> None] /\ forwards' = {}
        /\ updates' = <<>> /\ cleaning' = None
        /\ upset' = {c \in Conns : conn[c].status = "deployed"}
        /\ UNCHANGED <<conn, epoch, clientVars>>
    BY DEF Restart
  <1>2. RowType' /\ NodeType' /\ PendingType'
    BY <1>1 DEF TypeOK, RowType, NodeType, PendingType
  <1>3. TableType' /\ ConsumerType'
    BY <1>1, EmptySeq DEF TableType, ConsumerType
  <1>4. BoundType'  BY <1>1, Distinct DEF TypeOK, BoundType
  <1>5. task' \in [Tasks -> TaskRecs]  BY <1>1, IdleType
  <1>6. Assigned'  BY <1>1, IdleType DEF Assigned, Fits
  <1>7. QED  BY <1>1, <1>2, <1>3, <1>4, <1>5, <1>6, Groups, GroupsKeep

LEMMA TypeStep ==
  ASSUME TypeOK, Assigned, [Next]_vars
  PROVE  TypeOK' /\ Assigned'
  <1>1. ASSUME NEW c \in Conns, AutoCheck(c) PROVE TypeOK' /\ Assigned'
    BY <1>1, Distinct, TypeDeploy DEF AutoCheck
  <1>2. ASSUME NEW c \in Conns, ChangeConnection(c, "delete", None)
        PROVE  TypeOK' /\ Assigned'
    BY <1>2, TypeChange
  <1>3. ASSUME NEW c \in Conns, NEW n \in Nodes \cup {None},
               ChangeConnection(c, "patch", n)
        PROVE  TypeOK' /\ Assigned'
    BY <1>3, TypeChange
  <1>4. CASE UNCHANGED vars
    <2>1. UNCHANGED <<dbVars, nodeVars, pending, clientVars, task, reply, tableVars,
                      consumerVars, upset, changes>>
      BY <1>4 DEF vars
    <2>2. QED  BY <2>1, KeepSet, Groups, GroupsKeep
  <1>5. QED
    BY <1>1, <1>2, <1>3, <1>4, Distinct, TypeDeployStep, TypeStopStep, TypeClient,
       TypeNode, TypeConsume, TypeRestart
    DEF Next
-----------------------------------------------------------------------------
(* What the steps do to a connection.                                      *)

\* c is the same in SQLite and in the tables.
LEMMA SameView ==
  ASSUME NEW c \in Conns, conn'[c] = conn[c], RoutesOf(c)' = RoutesOf(c),
         \A m \in Nodes : <<c, m>> \in tracker' <=> <<c, m>> \in tracker,
         cleaning' = cleaning
  PROVE  /\ Rest(c) => Rest(c)'
         /\ \A pc, n : Stage(c, pc, n) => Stage(c, pc, n)'
  <1>1. Clean(c)' <=> Clean(c)  BY DEF Clean
  <1>2. \A n : Full(c, n)' <=> Full(c, n)  BY DEF Full, PathSet
  <1>3. Left(c)' <=> Left(c)  BY <1>1, <1>2 DEF Left
  <1>4. Rest(c) => Rest(c)'  BY <1>2, <1>3 DEF Rest
  <1>5. ASSUME NEW pc, NEW n, Stage(c, pc, n) PROVE Stage(c, pc, n)'
    BY <1>1, <1>2, <1>3, <1>5 DEF Stage
  <1>6. QED  BY <1>4, <1>5

\* A step that is not about c.
LEMMA Bystander ==
  ASSUME NEW c \in Conns, InHand(c), conn'[c] = conn[c], RoutesOf(c)' = RoutesOf(c),
         \A m \in Nodes : <<c, m>> \in tracker' <=> <<c, m>> \in tracker,
         cleaning' = cleaning,
         \A u \in Tasks : (task'[u].conn = c <=> task[u].conn = c)
                         /\ (task[u].conn = c => task'[u] = task[u])
  PROVE  InHand(c)'
  <1>1. \A t, u \in Tasks : task'[t].conn = c /\ task'[u].conn = c => t = u
    BY DEF InHand
  <1>2. (\A t \in Tasks : task'[t].conn # c) => Rest(c)'
    BY SameView DEF InHand
  <1>3. ASSUME NEW t \in Tasks, task'[t].conn = c
        PROVE  Stage(c, task[t].pc, task[t].node)' 
    <2>1. task[t].conn = c /\ task'[t] = task[t]  BY <1>3
    <2>2. Stage(c, task[t].pc, task[t].node)  BY <2>1 DEF InHand
    <2>3. PICK pc, n : pc = task[t].pc /\ n = task[t].node  OBVIOUS
    <2>4. Stage(c, pc, n)  BY <2>2, <2>3
    <2>5. Stage(c, pc, n)'  BY <2>4, SameView
    <2>6. pc = task'[t].pc /\ n = task'[t].node  BY <2>1, <2>3
    <2>7. QED  BY <2>5, <2>6 DEF Stage
  <1>4. QED  BY <1>1, <1>2, <1>3 DEF InHand

\* A step of the one task that works on c, which goes on ...
LEMMA OwnStep ==
  ASSUME NEW c \in Conns, NEW t \in Tasks, NEW pc, NEW n,
         \A u \in Tasks \ {t} : task[u].conn # c /\ task'[u] = task[u],
         task'[t].conn = c, task'[t].pc = pc, task'[t].node = n,
         Stage(c, pc, n)'
  PROVE  InHand(c)'
  <1>1. \A u \in Tasks : task'[u].conn = c <=> u = t  OBVIOUS
  <1>2. Stage(c, task[t].pc, task[t].node)'  BY DEF Stage
  <1>3. ASSUME NEW u \in Tasks, task'[u].conn = c
        PROVE  Stage(c, task[u].pc, task[u].node)'
    BY <1>1, <1>2, <1>3
  <1>4. QED  BY <1>1, <1>3 DEF InHand

\* ... or comes to an end.
LEMMA OwnEnd ==
  ASSUME NEW c \in Conns, NEW t \in Tasks,
         \A u \in Tasks \ {t} : task[u].conn # c /\ task'[u] = task[u],
         task'[t].conn # c, Rest(c)'
  PROVE  InHand(c)'
  <1>1. \A u \in Tasks : task'[u].conn # c  OBVIOUS
  <1>2. QED  BY <1>1 DEF InHand

\* What InHand says of a connection that t works on.
LEMMA Owned ==
  ASSUME NEW c \in Conns, InHand(c), NEW t \in Tasks, task[t].conn = c
  PROVE  /\ \A u \in Tasks \ {t} : task[u].conn # c
         /\ Stage(c, task[t].pc, task[t].node)
  BY DEF InHand
\* A stage depends on what c has, not on the tasks.
LEMMA StageWait ==
  ASSUME NEW c \in Conns, NEW n, conn'[c].status = "pending", Clean(c)'
  PROVE  Stage(c, "wait", n)'
  BY DEF Stage

LEMMA HandDeploy ==
  ASSUME TypeOK, Assigned, NEW t \in Tasks, NEW d \in Conns, Deploy(t, d),
         (task[t].conn = d /\ task[t].pc = "try") \/ task[t] = Idle,
         UNCHANGED <<dbVars, tableVars, consumerVars>>,
         NEW c \in Conns \ upset', InHand(c)
  PROVE  InHand(c)'
  <1> DEFINE n == conn[d].node
             r == [Idle EXCEPT !.pc = "wait", !.conn = d, !.node = n, !.epoch = epoch[n]]
  <1>1. /\ MayDeploy(d) /\ task' = [task EXCEPT ![t] = r]
        /\ upset' = IF Busy(d) \subseteq {t} /\ ~Stopping(d) THEN upset ELSE upset \cup {d}
    BY DEF Deploy
  <1>2. UNCHANGED <<conn, tracker, routes, cleaning>>
    BY DEF dbVars, tableVars, consumerVars
  <1>3. r.pc = "wait" /\ r.conn = d /\ r.node = n  BY DEF Idle
  <1> HIDE DEF r
  <1>4. task'[t] = r /\ \A u \in Tasks \ {t} : task'[u] = task[u]
    BY <1>1 DEF TypeOK
  <1>5. CASE c # d
    <2>1. task[t].conn # c  BY <1>5, IdleType, Distinct
    <2>2. \A u \in Tasks : (task'[u].conn = c <=> task[u].conn = c)
                          /\ (task[u].conn = c => task'[u] = task[u])
      BY <1>3, <1>4, <1>5, <2>1
    <2>3. RoutesOf(c)' = RoutesOf(c)  BY <1>2 DEF RoutesOf
    <2>4. QED  BY <1>2, <2>2, <2>3, Bystander
  <1>6. CASE c = d
    <2>1. Busy(c) \subseteq {t}  BY <1>1, <1>6
    <2>2. \A u \in Tasks \ {t} : task[u].conn # c  BY <2>1 DEF Busy
    <2>3. conn[c].status = "pending" /\ ~Conflict(c)  BY <1>1, <1>6 DEF MayDeploy
    <2>4. Left(c)
      <3>1. CASE task[t].conn = d /\ task[t].pc = "try"
        <4>1. Stage(c, "try", task[t].node)  BY <1>6, <3>1, Owned
        <4>2. QED  BY <4>1 DEF Stage
      <3>2. CASE task[t] = Idle
        <4>1. \A u \in Tasks : task[u].conn # c  BY <2>2, <3>2, IdleType, Distinct
        <4>2. Rest(c)  BY <4>1 DEF InHand
        <4>3. QED  BY <2>3, <4>2 DEF Rest
      <3>3. QED  BY <3>1, <3>2
    <2>5. Clean(c)  BY <2>3, <2>4, FullConflicts DEF Left, Full
    <2>6. Clean(c)'  BY <1>2, <2>5 DEF Clean, RoutesOf
    <2>7. PICK m : m = n  OBVIOUS
    <2>8. Stage(c, "wait", m)'  BY <1>2, <2>3, <2>6, StageWait
    <2>9. task'[t].conn = c /\ task'[t].pc = "wait" /\ task'[t].node = m
      BY <1>3, <1>4, <1>6, <2>7
    <2>10. QED  BY <1>4, <2>2, <2>8, <2>9, OwnStep
  <1>7. QED  BY <1>5, <1>6

\* A task that works on another connection leaves c's tables alone.
LEMMA Elsewhere ==
  ASSUME TypeOK, NEW t \in Tasks, NEW c \in Conns, InHand(c), task[t].conn # c,
         task'[t].conn # c, \A u \in Tasks \ {t} : task'[u] = task[u],
         conn'[c] = conn[c], RoutesOf(c)' = RoutesOf(c),
         \A m \in Nodes : <<c, m>> \in tracker' <=> <<c, m>> \in tracker,
         cleaning' = cleaning
  PROVE  InHand(c)'
  <1>1. \A u \in Tasks : (task'[u].conn = c <=> task[u].conn = c)
                        /\ (task[u].conn = c => task'[u] = task[u])
    OBVIOUS
  <1>2. QED  BY <1>1, Bystander

LEMMA HandTry ==
  ASSUME TypeOK, Assigned, NEW t \in Tasks, TryDeploy(t),
         NEW c \in Conns \ upset', InHand(c)
  PROVE  InHand(c)'
  <1>1. /\ task[t].pc = "try"
        /\ UNCHANGED <<dbVars, tableVars, consumerVars>>
    BY DEF TryDeploy
  <1>2. task[t].conn \in Conns  BY <1>1 DEF Assigned, Fits
  <1>3. CASE Deploy(t, task[t].conn)
    BY <1>1, <1>2, <1>3, HandDeploy
  <1>4. CASE Return(t)
    <2>1. task'[t] = Idle /\ \A u \in Tasks \ {t} : task'[u] = task[u]
      BY <1>4, ReturnSet
    <2>2. task'[t].conn # c  BY <2>1, IdleType, Distinct
    <2>3. /\ UNCHANGED <<conn, tracker, routes, cleaning>>
          /\ RoutesOf(c)' = RoutesOf(c)
      BY <1>1 DEF dbVars, tableVars, consumerVars, RoutesOf
    <2>4. CASE task[t].conn # c  BY <2>1, <2>2, <2>3, <2>4, Elsewhere
    <2>5. CASE task[t].conn = c
      <3>1. /\ \A u \in Tasks \ {t} : task[u].conn # c
            /\ Stage(c, "try", task[t].node)
        BY <1>1, <2>5, Owned
      <3>2. Rest(c)  BY <3>1 DEF Stage, Rest
      <3>3. Rest(c)'  BY <2>3, <3>2, SameView
      <3>4. QED  BY <2>1, <2>2, <3>1, <3>3, OwnEnd
    <2>6. QED  BY <2>4, <2>5
  <1>5. QED  BY <1>3, <1>4 DEF TryDeploy

LEMMA HandRecord ==
  ASSUME TypeOK, Assigned, NEW t \in Tasks, DeployRecord(t),
         NEW c \in Conns \ upset', InHand(c)
  PROVE  InHand(c)'
  <1>1. /\ task[t].pc = "wait" /\ Goto(t, "wire")
        /\ tracker' = tracker \cup {<<task[t].conn, task[t].node>>}
        /\ UNCHANGED <<conn, routes, cleaning>> /\ RoutesOf(c)' = RoutesOf(c)
    BY DEF DeployRecord, dbVars, consumerVars, RoutesOf
  <1>2. task[t].conn \in Conns /\ task[t].node \in Nodes  BY <1>1 DEF Assigned, Fits
  <1>3. /\ task'[t].pc = "wire" /\ task'[t].conn = task[t].conn /\ task'[t].node = task[t].node
        /\ \A u \in Tasks \ {t} : task'[u] = task[u]
    BY <1>1, <1>2, GotoSet DEF PCs
  <1>4. CASE task[t].conn # c
    <2>1. \A m \in Nodes : <<c, m>> \in tracker' <=> <<c, m>> \in tracker
      BY <1>1, <1>4
    <2>2. QED  BY <1>1, <1>3, <1>4, <2>1, Elsewhere
  <1>5. CASE task[t].conn = c
    <2>1. PICK n \in Nodes : n = task[t].node  BY <1>2
    <2>2. /\ \A u \in Tasks \ {t} : task[u].conn # c
          /\ Stage(c, "wait", n)
      BY <1>1, <1>5, <2>1, Owned
    <2>3. conn'[c].status = "pending" /\ RoutesOf(c)' = {}
          /\ \A m \in Nodes : <<c, m>> \in tracker' <=> m = n
      BY <1>1, <1>5, <2>1, <2>2 DEF Stage, Clean
    <2>4. Stage(c, "wire", n)'  BY <2>3 DEF Stage
    <2>5. QED  BY <1>3, <1>5, <2>1, <2>2, <2>4, OwnStep
  <1>6. QED  BY <1>4, <1>5

LEMMA HandGiveUp ==
  ASSUME TypeOK, Assigned, NEW t \in Tasks, DeployDropped(t) \/ DeployTimeout(t),
         NEW c \in Conns \ upset', InHand(c)
  PROVE  InHand(c)'
  <1>1. /\ task[t].pc = "wait" /\ Return(t)
        /\ UNCHANGED <<conn, tracker, routes, cleaning>> /\ RoutesOf(c)' = RoutesOf(c)
    BY DEF DeployDropped, DeployTimeout, dbVars, tableVars, consumerVars, RoutesOf
  <1>2. task'[t] = Idle /\ \A u \in Tasks \ {t} : task'[u] = task[u]
    BY <1>1, ReturnSet
  <1>3. task'[t].conn # c  BY <1>2, IdleType, Distinct
  <1>4. CASE task[t].conn # c  BY <1>1, <1>2, <1>3, <1>4, Elsewhere
  <1>5. CASE task[t].conn = c
    <2>1. /\ \A u \in Tasks \ {t} : task[u].conn # c
          /\ Stage(c, "wait", task[t].node)
      BY <1>1, <1>5, Owned
    <2>2. Rest(c)  BY <2>1 DEF Stage, Rest, Left
    <2>3. Rest(c)'  BY <1>1, <2>2, SameView
    <2>4. QED  BY <1>2, <1>3, <2>1, <2>3, OwnEnd
  <1>6. QED  BY <1>4, <1>5
LEMMA HandWire ==
  ASSUME TypeOK, Assigned, NEW t \in Tasks, DeployWire(t),
         NEW c \in Conns \ upset', InHand(c)
  PROVE  InHand(c)'
  <1> DEFINE d == task[t].conn
  <1>1. /\ task[t].pc = "wire"
        /\ routes' = [p \in Paths |->
                        IF \E i \in 1..Settable(d) : PathsOf[d][i] = p THEN d ELSE routes[p]]
        /\ upset' = IF Settable(d) = Len(PathsOf[d]) THEN upset ELSE upset \cup {d}
        /\ IF Settable(d) = Len(PathsOf[d]) THEN Goto(t, "finish") ELSE Return(t)
        /\ UNCHANGED <<conn, tracker, cleaning>>
    BY DEF DeployWire, dbVars, consumerVars
  <1>2. d \in Conns /\ task[t].node \in Nodes  BY <1>1 DEF Assigned, Fits
  <1>3. CASE c # d
    <2>1. task'[t].conn # c /\ \A u \in Tasks \ {t} : task'[u] = task[u]
      BY <1>1, <1>2, <1>3, GotoSet, ReturnSet, IdleType, Distinct DEF PCs
    <2>2. ASSUME NEW p \in Paths PROVE routes'[p] = c <=> routes[p] = c
      <3>1. CASE \E i \in 1..Settable(d) : PathsOf[d][i] = p
        <4>1. routes[p] = None  BY <1>2, <3>1, SettableIs
        <4>2. routes'[p] = d  BY <1>1, <3>1
        <4>3. QED  BY <1>3, <4>1, <4>2, Distinct
      <3>2. CASE ~\E i \in 1..Settable(d) : PathsOf[d][i] = p
        BY <1>1, <3>2
      <3>3. QED  BY <3>1, <3>2
    <2>3. RoutesOf(c)' = RoutesOf(c)  BY <2>2 DEF RoutesOf
    <2>4. QED  BY <1>1, <1>3, <2>1, <2>3, Elsewhere
  <1>4. CASE c = d
    <2>1. Settable(d) = Len(PathsOf[d]) /\ Goto(t, "finish")  BY <1>1, <1>4
    <2>2. /\ task'[t].pc = "finish" /\ task'[t].conn = c /\ task'[t].node = task[t].node
          /\ \A u \in Tasks \ {t} : task'[u] = task[u]
      BY <1>2, <1>4, <2>1, GotoSet DEF PCs
    <2>3. PICK n \in Nodes : n = task[t].node  BY <1>2
    <2>4. /\ \A u \in Tasks \ {t} : task[u].conn # c
          /\ Stage(c, "wire", n)
      BY <1>1, <1>4, <2>3, Owned
    <2>5. ASSUME NEW p \in Paths PROVE routes'[p] = c <=> p \in PathSet(c)
      <3>1. routes[p] # c  BY <2>4 DEF Stage, RoutesOf
      <3>2. p \in PathSet(c) <=> \E i \in 1..Settable(d) : PathsOf[d][i] = p
        BY <1>4, <2>1, SettableIs DEF PathSet
      <3>3. QED  BY <1>1, <1>4, <3>1, <3>2
    <2>6. PathSet(c) \subseteq Paths  BY SettableIs DEF PathSet
    <2>7. RoutesOf(c)' = PathSet(c)  BY <2>5, <2>6 DEF RoutesOf
    <2>8. Full(c, n)'  BY <1>1, <2>4, <2>7 DEF Full, Stage, PathSet
    <2>9. Stage(c, "finish", n)'  BY <1>1, <2>4, <2>8 DEF Stage
    <2>10. QED  BY <2>2, <2>3, <2>4, <2>9, OwnStep
  <1>5. QED  BY <1>3, <1>4

LEMMA HandFinish ==
  ASSUME TypeOK, Assigned, NEW t \in Tasks, DeployFinish(t),
         NEW c \in Conns \ upset', InHand(c)
  PROVE  InHand(c)'
  <1> DEFINE d == task[t].conn
  <1>1. /\ task[t].pc = "finish" /\ SetRow(d, task[t].node, "deployed")
        /\ upset' = IF cleaning = task[t].node THEN upset \cup {d} ELSE upset
        /\ Return(t)
        /\ UNCHANGED <<tracker, routes, cleaning>> /\ RoutesOf(c)' = RoutesOf(c)
    BY DEF DeployFinish, tableVars, consumerVars, RoutesOf
  <1>2. d \in Conns /\ task[t].node \in Nodes  BY <1>1 DEF Assigned, Fits
  <1>3. task'[t] = Idle /\ \A u \in Tasks \ {t} : task'[u] = task[u]
    BY <1>1, ReturnSet
  <1>4. task'[t].conn # c  BY <1>3, IdleType, Distinct
  <1>5. CASE c # d
    <2>1. conn'[c] = conn[c]  BY <1>1, <1>2, <1>5 DEF SetRow, TypeOK
    <2>2. QED  BY <1>1, <1>3, <1>4, <1>5, <2>1, Elsewhere
  <1>6. CASE c = d
    <2>1. PICK n \in Nodes : n = task[t].node  BY <1>2
    <2>2. /\ \A u \in Tasks \ {t} : task[u].conn # c
          /\ Stage(c, "finish", n)
      BY <1>1, <1>6, <2>1, Owned
    <2>3. conn[c].status = "pending" /\ Full(c, n) /\ cleaning # n
      BY <1>1, <1>6, <2>1, <2>2 DEF Stage
    <2>4. conn'[c] = [node |-> n, status |-> "deployed"]
      BY <1>1, <1>2, <1>6, <2>1, <2>3 DEF SetRow, TypeOK
    <2>5. Full(c, n)'  BY <1>1, <2>3 DEF Full, PathSet
    <2>6. Full(c, conn[c].node)'  BY <2>4, <2>5 DEF Full
    <2>7. Rest(c)'  BY <1>1, <2>3, <2>4, <2>6 DEF Rest
    <2>8. QED  BY <1>3, <1>4, <2>2, <2>7, OwnEnd
  <1>7. QED  BY <1>5, <1>6

LEMMA HandDeployStep ==
  ASSUME TypeOK, Assigned, NEW t \in Tasks, DeployStep(t),
         NEW c \in Conns \ upset', InHand(c)
  PROVE  InHand(c)'
  BY HandTry, HandRecord, HandGiveUp, HandWire, HandFinish DEF DeployStep

LEMMA HandChange ==
  ASSUME TypeOK, Assigned, NEW d \in Conns, NEW then, NEW m,
         ChangeConnection(d, then, m), NEW c \in Conns \ upset', InHand(c)
  PROVE  InHand(c)'
  <1> DEFINE old == conn[d].node
             work == [pc |-> "update", conn |-> d, node |-> old, epoch |-> 0,
                      then |-> then, target |-> m]
  <1>1. /\ task[Api].pc = "idle"
        /\ upset' = IF Busy(d) = {} THEN upset ELSE upset \cup {d}
        /\ UNCHANGED <<conn, tracker, routes, cleaning>> /\ RoutesOf(c)' = RoutesOf(c)
    BY DEF ChangeConnection, dbVars, tableVars, consumerVars, RoutesOf
  <1>2. PICK r : /\ task' = [task EXCEPT ![Api] = r] /\ r.conn = d /\ r.node = old
                 /\ \/ r.pc \in {"stop_wait", "stop_routes"} /\ conn[d].status = "deployed"
                    \/ r.pc = "update" /\ conn[d].status # "deployed"
    <2>1. \/ /\ conn[d].status = "deployed"
             /\ task' = [task EXCEPT ![Api] =
                           [work EXCEPT !.pc = "stop_wait", !.epoch = epoch[old]]]
          \/ /\ conn[d].status = "deployed"
             /\ task' = [task EXCEPT ![Api] = [work EXCEPT !.pc = "stop_routes"]]
          \/ /\ conn[d].status # "deployed"
             /\ task' = [task EXCEPT ![Api] = work]
      BY DEF ChangeConnection
    <2>2. PICK e : e = epoch[old]  OBVIOUS
    <2>3. PICK w : w = work  OBVIOUS
    <2>4. /\ w.pc = "update" /\ w.conn = d /\ w.node = old
          /\ LET x == [w EXCEPT !.pc = "stop_wait", !.epoch = e]
             IN  x.pc = "stop_wait" /\ x.conn = d /\ x.node = old
          /\ LET x == [w EXCEPT !.pc = "stop_routes"]
             IN  x.pc = "stop_routes" /\ x.conn = d /\ x.node = old
      BY <2>3
    <2>5. \E r \in {[w EXCEPT !.pc = "stop_wait", !.epoch = e],
                    [w EXCEPT !.pc = "stop_routes"], w} :
            /\ task' = [task EXCEPT ![Api] = r]
            /\ \/ r # w /\ conn[d].status = "deployed"
               \/ r = w /\ conn[d].status # "deployed"
      BY <2>1, <2>2, <2>3, <2>4
    <2>6. QED  BY <2>4, <2>5
  <1>3. /\ Api \in Tasks /\ task'[Api] = r
        /\ \A u \in Tasks \ {Api} : task'[u] = task[u]
    BY <1>2, Distinct DEF TypeOK
  <1>4. task[Api].conn # c
    <2>1. task[Api] = Idle  BY <1>1, <1>3 DEF Assigned, Fits
    <2>2. QED  BY <2>1, IdleType, Distinct
  <1>5. CASE c # d
    <2>1. task'[Api].conn # c  BY <1>2, <1>3, <1>5
    <2>2. QED  BY <1>1, <1>3, <1>4, <2>1, Elsewhere
  <1>6. CASE c = d
    <2>1. \A u \in Tasks : task[u].conn # c  BY <1>1, <1>6 DEF Busy
    <2>2. Rest(c)  BY <2>1 DEF InHand
    <2>3. PICK n, pc : n = old /\ pc = r.pc  OBVIOUS
    <2>4. Stage(c, pc, n)
      <3>1. CASE pc \in {"stop_wait", "stop_routes"} /\ conn[c].status = "deployed"
        BY <1>6, <2>2, <2>3, <3>1 DEF Rest, Stage
      <3>2. CASE pc = "update" /\ conn[c].status # "deployed"
        BY <2>2, <3>2 DEF Rest, Stage
      <3>3. QED  BY <1>2, <1>6, <2>3, <3>1, <3>2
    <2>5. Stage(c, pc, n)'  BY <1>1, <2>4, SameView
    <2>6. QED  BY <1>2, <1>3, <1>6, <2>1, <2>3, <2>5, OwnStep
  <1>7. QED  BY <1>5, <1>6
LEMMA HandStopWait ==
  ASSUME TypeOK, Assigned, NEW t \in Tasks, StopWait(t),
         NEW c \in Conns \ upset', InHand(c)
  PROVE  InHand(c)'
  <1>1. /\ task[t].pc = "stop_wait" /\ Goto(t, "stop_routes")
        /\ UNCHANGED <<conn, tracker, routes, cleaning>> /\ RoutesOf(c)' = RoutesOf(c)
    BY DEF StopWait, dbVars, tableVars, consumerVars, RoutesOf
  <1>2. task[t].conn \in Conns  BY <1>1 DEF Assigned, Fits
  <1>3. /\ task'[t].pc = "stop_routes" /\ task'[t].conn = task[t].conn
        /\ task'[t].node = task[t].node
        /\ \A u \in Tasks \ {t} : task'[u] = task[u]
    BY <1>1, <1>2, GotoSet DEF PCs
  <1>4. CASE task[t].conn # c  BY <1>1, <1>3, <1>4, Elsewhere
  <1>5. CASE task[t].conn = c
    <2>1. PICK n : n = task[t].node  OBVIOUS
    <2>2. (\A u \in Tasks \ {t} : task[u].conn # c) /\ Stage(c, "stop_wait", n)
      BY <1>1, <1>5, <2>1, Owned
    <2>3. Stage(c, "stop_routes", n)  BY <2>2 DEF Stage
    <2>4. Stage(c, "stop_routes", n)'  BY <1>1, <2>3, SameView
    <2>5. QED  BY <1>3, <1>5, <2>1, <2>2, <2>4, OwnStep
  <1>6. QED  BY <1>4, <1>5

LEMMA HandStopRoutes ==
  ASSUME TypeOK, Assigned, NEW t \in Tasks, StopRoutes(t),
         NEW c \in Conns \ upset', InHand(c)
  PROVE  InHand(c)'
  <1> DEFINE d == task[t].conn
  <1>1. /\ task[t].pc = "stop_routes"
        /\ \/ /\ <<d, task[t].node>> \in tracker
              /\ routes' = Without(d) /\ Goto(t, "stop_tracker")
           \/ /\ <<d, task[t].node>> \notin tracker
              /\ UNCHANGED routes /\ Goto(t, "stop_db")
        /\ UNCHANGED <<conn, tracker, cleaning>>
    BY DEF StopRoutes, dbVars, consumerVars
  <1>2. d \in Conns  BY <1>1 DEF Assigned, Fits
  <1>3. /\ task'[t].conn = d /\ task'[t].node = task[t].node
        /\ \A u \in Tasks \ {t} : task'[u] = task[u]
    BY <1>1, <1>2, GotoSet DEF PCs
  <1>4. /\ Goto(t, "stop_tracker") => task'[t].pc = "stop_tracker"
        /\ Goto(t, "stop_db") => task'[t].pc = "stop_db"
    BY <1>2, GotoSet DEF PCs
  <1>5. CASE c # d
    <2>1. \A p \in Paths : routes'[p] = c <=> routes[p] = c
      BY <1>1, <1>5, Distinct DEF Without
    <2>2. RoutesOf(c)' = RoutesOf(c)  BY <2>1 DEF RoutesOf
    <2>3. QED  BY <1>1, <1>3, <1>5, <2>2, Elsewhere
  <1>6. CASE c = d
    <2>1. PICK n : n = task[t].node  OBVIOUS
    <2>2. /\ \A u \in Tasks \ {t} : task[u].conn # c
          /\ Stage(c, "stop_routes", n)
      BY <1>1, <1>6, <2>1, Owned
    <2>3. (n \in Nodes /\ Full(c, n)) \/ Clean(c)  BY <2>2 DEF Stage
    <2>4. CASE <<d, task[t].node>> \in tracker /\ routes' = Without(d) /\ Goto(t, "stop_tracker")
      <3>1. n \in Nodes /\ Full(c, n)
        BY <1>6, <2>1, <2>3, <2>4 DEF Clean, TypeOK
      <3>2. \A p \in Paths : routes'[p] # c  BY <1>6, <2>4, Distinct DEF Without
      <3>3. RoutesOf(c)' = {}  BY <3>2 DEF RoutesOf
      <3>4. Stage(c, "stop_tracker", n)'  BY <1>1, <3>1, <3>3 DEF Stage, Full
      <3>5. QED  BY <1>3, <1>4, <1>6, <2>1, <2>2, <2>4, <3>4, OwnStep
    <2>5. CASE <<d, task[t].node>> \notin tracker /\ UNCHANGED routes /\ Goto(t, "stop_db")
      <3>1. Clean(c)  BY <1>6, <2>1, <2>3, <2>5 DEF Full
      <3>2. Stage(c, "stop_db", n)'  BY <1>1, <2>5, <3>1 DEF Stage, Clean, RoutesOf
      <3>3. QED  BY <1>3, <1>4, <1>6, <2>1, <2>2, <2>5, <3>2, OwnStep
    <2>6. QED  BY <1>1, <2>4, <2>5
  <1>7. QED  BY <1>5, <1>6

LEMMA HandStopTracker ==
  ASSUME TypeOK, Assigned, NEW t \in Tasks, StopTracker(t),
         NEW c \in Conns \ upset', InHand(c)
  PROVE  InHand(c)'
  <1> DEFINE d == task[t].conn
  <1>1. /\ task[t].pc = "stop_tracker" /\ Goto(t, "stop_db")
        /\ tracker' = tracker \ {<<d, task[t].node>>}
        /\ UNCHANGED <<conn, routes, cleaning>> /\ RoutesOf(c)' = RoutesOf(c)
    BY DEF StopTracker, Untrack, dbVars, consumerVars, RoutesOf
  <1>2. d \in Conns  BY <1>1 DEF Assigned, Fits
  <1>3. /\ task'[t].pc = "stop_db" /\ task'[t].conn = d /\ task'[t].node = task[t].node
        /\ \A u \in Tasks \ {t} : task'[u] = task[u]
    BY <1>1, <1>2, GotoSet DEF PCs
  <1>4. CASE c # d
    <2>1. \A m \in Nodes : <<c, m>> \in tracker' <=> <<c, m>> \in tracker
      BY <1>1, <1>4
    <2>2. QED  BY <1>1, <1>3, <1>4, <2>1, Elsewhere
  <1>5. CASE c = d
    <2>1. PICK n : n = task[t].node  OBVIOUS
    <2>2. /\ \A u \in Tasks \ {t} : task[u].conn # c
          /\ Stage(c, "stop_tracker", n)
      BY <1>1, <1>5, <2>1, Owned
    <2>3. Clean(c)'  BY <1>1, <1>5, <2>1, <2>2 DEF Stage, Clean
    <2>4. Stage(c, "stop_db", n)'  BY <2>3 DEF Stage
    <2>5. QED  BY <1>3, <1>5, <2>1, <2>2, <2>4, OwnStep
  <1>6. QED  BY <1>4, <1>5

LEMMA HandStopDb ==
  ASSUME TypeOK, Assigned, NEW t \in Tasks, StopDb(t),
         NEW c \in Conns \ upset', InHand(c)
  PROVE  InHand(c)'
  <1> DEFINE d == task[t].conn
  <1>1. /\ task[t].pc = "stop_db" /\ Goto(t, "update") /\ SetRow(d, None, "pending")
        /\ UNCHANGED <<tracker, routes, cleaning>> /\ RoutesOf(c)' = RoutesOf(c)
    BY DEF StopDb, tableVars, consumerVars, RoutesOf
  <1>2. d \in Conns  BY <1>1 DEF Assigned, Fits
  <1>3. /\ task'[t].pc = "update" /\ task'[t].conn = d /\ task'[t].node = task[t].node
        /\ \A u \in Tasks \ {t} : task'[u] = task[u]
    BY <1>1, <1>2, GotoSet DEF PCs
  <1>4. CASE c # d
    <2>1. conn'[c] = conn[c]  BY <1>1, <1>2, <1>4 DEF SetRow, TypeOK
    <2>2. QED  BY <1>1, <1>3, <1>4, <2>1, Elsewhere
  <1>5. CASE c = d
    <2>1. PICK n : n = task[t].node  OBVIOUS
    <2>2. /\ \A u \in Tasks \ {t} : task[u].conn # c
          /\ Stage(c, "stop_db", n)
      BY <1>1, <1>5, <2>1, Owned
    <2>3. conn'[c].status # "deployed"  BY <1>1, <1>2, <1>5 DEF SetRow, TypeOK
    <2>4. Clean(c)'  BY <1>1, <2>2 DEF Stage, Clean
    <2>5. Stage(c, "update", n)'  BY <2>3, <2>4 DEF Stage, Left
    <2>6. QED  BY <1>3, <1>5, <2>1, <2>2, <2>5, OwnStep
  <1>6. QED  BY <1>4, <1>5

LEMMA HandUpdate ==
  ASSUME TypeOK, Assigned, NEW t \in Tasks, UpdateConnection(t),
         NEW c \in Conns \ upset', InHand(c)
  PROVE  InHand(c)'
  <1> DEFINE d == task[t].conn
  <1>1. /\ task[t].pc = "update"
        /\ UNCHANGED <<tracker, routes, cleaning>> /\ RoutesOf(c)' = RoutesOf(c)
    BY DEF UpdateConnection, tableVars, consumerVars, RoutesOf
  <1>2. d \in Conns  BY <1>1 DEF Assigned, Fits
  <1>3. ASSUME c = d
        PROVE  /\ \A u \in Tasks \ {t} : task[u].conn # c
               /\ conn[c].status # "deployed" /\ Left(c)
    <2>1. /\ \A u \in Tasks \ {t} : task[u].conn # c
          /\ Stage(c, "update", task[t].node)
      BY <1>1, <1>3, Owned
    <2>2. QED  BY <2>1 DEF Stage
  <1>4. Left(c) => Left(c)'  BY <1>1 DEF Left, Clean, Full, PathSet
  <1>5. ASSUME SetRow(d, task[t].target, conn[d].status), NEW b \in Background,
               task[b].pc = "idle",
               task' = [task EXCEPT ![t] = Idle,
                                    ![b] = [Idle EXCEPT !.pc = "try", !.conn = d]]
        PROVE  InHand(c)'
    <2>1. /\ b \in Tasks /\ b # t  BY <1>1, <1>5, Distinct
    <2>2. task[b] = Idle  BY <1>5, <2>1 DEF Assigned, Fits
    <2>3. /\ task'[t] = Idle /\ \A u \in Tasks \ {t, b} : task'[u] = task[u]
          /\ task'[b] = [Idle EXCEPT !.pc = "try", !.conn = d]
      BY <1>5, <2>1 DEF TypeOK
    <2>4. /\ task'[b].pc = "try" /\ task'[b].conn = d /\ task'[b].node = None
          /\ task[b].conn = None /\ task'[t].conn = None
      BY <2>2, <2>3 DEF Idle
    <2>5. CASE c # d
      <3>1. conn'[c] = conn[c]  BY <1>2, <1>5, <2>5 DEF SetRow, TypeOK
      <3>2. \A u \in Tasks : (task'[u].conn = c <=> task[u].conn = c)
                            /\ (task[u].conn = c => task'[u] = task[u])
        BY <2>3, <2>4, <2>5, Distinct
      <3>3. QED  BY <1>1, <3>1, <3>2, Bystander
    <2>6. CASE c = d
      <3>1. conn'[c].status # "deployed"
        BY <1>2, <1>3, <1>5, <2>6 DEF SetRow, TypeOK
      <3>2. Stage(c, "try", None)'  BY <1>3, <1>4, <2>6, <3>1 DEF Stage
      <3>3. \A u \in Tasks : task'[u].conn = c <=> u = b
        BY <1>3, <2>1, <2>3, <2>4, <2>6, Distinct
      <3>4. ASSUME NEW u \in Tasks, task'[u].conn = c
            PROVE  Stage(c, task[u].pc, task[u].node)'
        <4>1. u = b  BY <3>3, <3>4
        <4>2. task'[u].pc = "try" /\ task'[u].node = None  BY <2>4, <4>1
        <4>3. QED  BY <3>2, <4>2 DEF Stage
      <3>5. QED  BY <2>1, <3>3, <3>4 DEF InHand
    <2>7. QED  BY <2>5, <2>6
  <1>6. ASSUME Return(t), conn' = [conn EXCEPT ![d] = [node |-> None, status |-> "deleted"]]
        PROVE  InHand(c)'
    <2>1. task'[t] = Idle /\ \A u \in Tasks \ {t} : task'[u] = task[u]
      BY <1>6, ReturnSet
    <2>2. task'[t].conn # c  BY <2>1, IdleType, Distinct
    <2>3. CASE c # d
      <3>1. conn'[c] = conn[c]  BY <1>2, <1>6, <2>3 DEF TypeOK
      <3>2. QED  BY <1>1, <2>1, <2>2, <2>3, <3>1, Elsewhere
    <2>4. CASE c = d
      <3>1. conn'[c].status = "deleted"  BY <1>2, <1>6, <2>4 DEF TypeOK
      <3>2. Rest(c)'  BY <1>3, <1>4, <2>4, <3>1 DEF Rest
      <3>3. QED  BY <1>3, <2>1, <2>2, <2>4, <3>2, OwnEnd
    <2>5. QED  BY <2>3, <2>4
  <1>7. QED  BY <1>5, <1>6 DEF UpdateConnection

LEMMA HandStopStep ==
  ASSUME TypeOK, Assigned, NEW t \in Tasks, StopStep(t),
         NEW c \in Conns \ upset', InHand(c)
  PROVE  InHand(c)'
  BY HandStopWait, HandStopRoutes, HandStopTracker, HandStopDb, HandUpdate DEF StopStep
\* Steps that leave connections, tables, clean-up and tasks alone.
LEMMA HandKeep ==
  ASSUME NEW c \in Conns, InHand(c), UNCHANGED <<conn, tracker, routes, cleaning, task>>
  PROVE  InHand(c)'
  <1>1. RoutesOf(c)' = RoutesOf(c)  BY DEF RoutesOf
  <1>2. QED  BY <1>1, Bystander

LEMMA HandDisconnected ==
  ASSUME TypeOK, NEW n \in Nodes, ApplyDisconnected(n),
         NEW c \in Conns, InHand(c)
  PROVE  InHand(c)'
  <1>1. /\ cleaning = None /\ cleaning' = n /\ MarkRows(n)
        /\ UNCHANGED <<tracker, routes, task>>
    BY DEF ApplyDisconnected, tableVars
  <1>2. conn'[c] = IF conn[c] = [node |-> n, status |-> "deployed"]
                     THEN [node |-> n, status |-> "pending"] ELSE conn[c]
    BY <1>1 DEF MarkRows
  <1>3. conn[c] = [node |-> conn[c].node, status |-> conn[c].status]
    BY DEF TypeOK
  <1>4. /\ Clean(c) => Clean(c)'
        /\ \A k : Full(c, k) => Full(c, k)'
        /\ RoutesOf(c)' = RoutesOf(c)
    BY <1>1 DEF Clean, Full, PathSet, RoutesOf
  <1>5. conn[c].status # "deployed" => conn'[c] = conn[c]
    BY <1>2
  <1>6. Left(c) => Left(c)'  BY <1>1, <1>4 DEF Left
  <1>7. Rest(c) => Rest(c)'
    <2>1. CASE conn[c].status = "deployed" /\ conn[c].node = n
      <3>1. conn'[c].status # "deployed"  BY <1>2, <1>3, <2>1
      <3>2. Rest(c) => Full(c, n)'  BY <1>4, <2>1 DEF Rest
      <3>3. Full(c, n)' => Full(c, cleaning)'  BY <1>1 DEF Full
      <3>4. QED  BY <1>1, <3>1, <3>2, <3>3, Distinct DEF Rest, Left
    <2>2. CASE conn[c].status = "deployed" /\ conn[c].node # n
      <3>1. conn'[c] = conn[c]  BY <1>2, <2>2
      <3>2. Full(c, conn[c].node) => Full(c, conn[c].node)'
        BY <1>1, <3>1 DEF Full, PathSet, RoutesOf
      <3>3. QED  BY <1>1, <2>2, <3>1, <3>2 DEF Rest
    <2>3. CASE conn[c].status # "deployed"
      BY <1>5, <1>6, <2>3 DEF Rest
    <2>4. QED  BY <2>1, <2>2, <2>3
  <1>8. ASSUME NEW pc, NEW k, Stage(c, pc, k) PROVE Stage(c, pc, k)'
    <2>1. pc \in {"try", "update"} => conn'[c].status # "deployed" /\ Left(c)'
      BY <1>5, <1>6, <1>8 DEF Stage
    <2>2. pc \in {"wait", "wire", "finish"} => conn'[c].status = "pending"
      BY <1>5, <1>8 DEF Stage
    <2>3. QED  BY <1>1, <1>4, <1>8, <2>1, <2>2 DEF Stage
  <1>9. ASSUME NEW t \in Tasks, task[t].conn = c
        PROVE  Stage(c, task[t].pc, task[t].node)'
    <2>1. PICK pc, k : pc = task[t].pc /\ k = task[t].node  OBVIOUS
    <2>2. Stage(c, pc, k)  BY <1>9, <2>1 DEF InHand
    <2>3. Stage(c, pc, k)'  BY <1>8, <2>2
    <2>4. QED  BY <1>1, <2>1, <2>3 DEF Stage
  <1>10. QED  BY <1>1, <1>7, <1>9 DEF InHand

LEMMA HandRemove ==
  ASSUME TypeOK, RemoveByNode, NEW c \in Conns \ upset', InHand(c)
  PROVE  InHand(c)'
  <1>1. PICK m \in Nodes : m = cleaning
    BY DEF TypeOK, RemoveByNode
  <1>2. /\ routes' = [p \in Paths |->
                        IF <<routes[p], m>> \in tracker THEN None ELSE routes[p]]
        /\ tracker' = {k \in tracker : k[2] # m}
        /\ upset' = upset \cup Committed(m) /\ cleaning' = None
        /\ UNCHANGED <<conn, task>>
    BY <1>1 DEF RemoveByNode, dbVars
  <1>3. \A k \in Nodes : <<c, k>> \in tracker' <=> <<c, k>> \in tracker /\ k # m
    BY <1>2
  <1>4. \A p \in Paths : routes'[p] = c <=> routes[p] = c /\ <<c, m>> \notin tracker
    BY <1>2, Distinct
  <1>5. <<c, m>> \notin tracker => RoutesOf(c)' = RoutesOf(c)
    BY <1>4 DEF RoutesOf
  <1>6. /\ RoutesOf(c) = {} => RoutesOf(c)' = {}
        /\ <<c, m>> \in tracker => RoutesOf(c)' = {}
    BY <1>4 DEF RoutesOf
  <1>7. Clean(c) => Clean(c)'  BY <1>3, <1>6 DEF Clean
  <1>8. Full(c, m) => Clean(c)'  BY <1>3, <1>6 DEF Full, Clean
  <1>9. ASSUME NEW k, k # m, Full(c, k) PROVE Full(c, k)'
    <2>1. <<c, m>> \notin tracker  BY <1>9 DEF Full
    <2>2. QED  BY <1>3, <1>5, <1>9, <2>1 DEF Full, PathSet
  <1>10. Left(c) => Clean(c)' /\ Left(c)'  BY <1>1, <1>7, <1>8 DEF Left
  <1>11. Rest(c) => Rest(c)'
    <2>1. CASE conn[c].status = "deployed"
      <3>1. PICK k : k = conn[c].node  OBVIOUS
      <3>2. Rest(c) => k \in Nodes /\ k # m /\ Full(c, k)'
        BY <1>1, <1>9, <2>1, <3>1 DEF Rest
      <3>3. Full(c, k)' => Full(c, conn[c].node)'  BY <1>2, <3>1 DEF Full
      <3>4. QED  BY <1>2, <2>1, <3>1, <3>2, <3>3, Distinct DEF Rest
    <2>2. CASE conn[c].status # "deployed"  BY <1>2, <1>10, <2>2 DEF Rest
    <2>3. QED  BY <2>1, <2>2
  <1>12. ASSUME NEW t \in Tasks, task[t].conn = c
         PROVE  Stage(c, task[t].pc, task[t].node)'
    <2>1. PICK pc, n : pc = task[t].pc /\ n = task[t].node  OBVIOUS
    <2>2. Stage(c, pc, n)  BY <1>12, <2>1 DEF InHand
    <2>3. ASSUME pc \in {"wire", "finish"} PROVE n # m
      <3>1. c \notin Committed(m)  BY <1>2
      <3>2. QED  BY <1>12, <2>1, <2>3, <3>1 DEF Committed
    <2>4. pc \in {"try", "update"} => conn'[c].status # "deployed" /\ Left(c)'
      BY <1>2, <1>10, <2>2 DEF Stage
    <2>5. pc \in {"wait", "wire", "finish"} => conn'[c].status = "pending"
      BY <1>2, <2>2 DEF Stage
    <2>6. (pc = "wait" => Clean(c)') /\ (pc = "stop_db" => Clean(c)')
      BY <1>7, <2>2 DEF Stage
    <2>7. pc = "wire" => RoutesOf(c)' = {} /\ \A k \in Nodes : <<c, k>> \in tracker' <=> k = n
      BY <1>3, <1>6, <2>2, <2>3 DEF Stage
    <2>8. pc = "finish" => Full(c, n)'
      BY <1>9, <2>2, <2>3 DEF Stage
    <2>9. pc \in {"stop_wait", "stop_routes"} => (n \in Nodes /\ Full(c, n)') \/ Clean(c)'
      BY <1>7, <1>8, <1>9, <2>2 DEF Stage
    <2>10. pc = "stop_tracker" =>
             RoutesOf(c)' = {} /\ \A k \in Nodes : <<c, k>> \in tracker' => k = n
      BY <1>3, <1>6, <2>2 DEF Stage
    <2>11. Stage(c, pc, n)'
      BY <2>4, <2>5, <2>6, <2>7, <2>8, <2>9, <2>10 DEF Stage
    <2>12. QED  BY <1>2, <2>1, <2>11 DEF Stage
  <1>13. QED  BY <1>2, <1>11, <1>12 DEF InHand

LEMMA HandRestart ==
  ASSUME TypeOK, Restart, NEW c \in Conns \ upset'
  PROVE  InHand(c)'
  <1>1. /\ conn'[c].status # "deployed" /\ tracker' = {} /\ cleaning' = None
        /\ routes' = [p \in Paths |-> None] /\ task' = [t \in Tasks |-> Idle]
    BY DEF Restart
  <1>2. \A t \in Tasks : task'[t].conn # c  BY <1>1, IdleType, Distinct
  <1>3. RoutesOf(c)' = {}  BY <1>1, Distinct DEF RoutesOf
  <1>4. Clean(c)'  BY <1>1, <1>3 DEF Clean
  <1>5. Rest(c)'  BY <1>1, <1>4 DEF Rest, Left
  <1>6. QED  BY <1>2, <1>5 DEF InHand

\* A connection that is not upset after a step was not upset before it, restarts
\* apart.
LEMMA UpsetGrows ==
  ASSUME [Next]_vars, ~Restart
  PROVE  upset \subseteq upset'
  <1>1. ASSUME NEW c \in Conns, AutoCheck(c) PROVE upset \subseteq upset'
    BY <1>1 DEF AutoCheck, Deploy
  <1>2. ASSUME NEW c \in Conns, NEW then, NEW n, ChangeConnection(c, then, n)
        PROVE  upset \subseteq upset'
    BY <1>2 DEF ChangeConnection
  <1>3. ASSUME NEW t \in Tasks, DeployStep(t) PROVE upset \subseteq upset'
    <2>1. CASE TryDeploy(t)  BY <2>1 DEF TryDeploy, Deploy
    <2>2. CASE DeployRecord(t) \/ DeployDropped(t) \/ DeployTimeout(t)
      BY <2>2 DEF DeployRecord, DeployDropped, DeployTimeout
    <2>3. CASE DeployWire(t)  BY <2>3 DEF DeployWire
    <2>4. CASE DeployFinish(t)  BY <2>4 DEF DeployFinish
    <2>5. QED  BY <1>3, <2>1, <2>2, <2>3, <2>4 DEF DeployStep
  <1>4. ASSUME NEW t \in Tasks, StopStep(t) PROVE upset \subseteq upset'
    BY <1>4 DEF StopStep, StopWait, StopRoutes, StopTracker, StopDb, UpdateConnection
  <1>5. ASSUME NEW j \in jobs, JobDone(j) PROVE upset \subseteq upset'
    BY <1>5 DEF JobDone
  <1>6. ASSUME NEW n \in Nodes,
               NodeUp(n) \/ Report(n) \/ NodeDrop(n) \/ GhostGone(n) \/ CacheExpired(n)
        PROVE  upset \subseteq upset'
    BY <1>6 DEF NodeUp, Report, NodeDrop, GhostGone, CacheExpired
  <1>7. CASE Consume
    BY <1>7 DEF Consume, ApplyConnected, ApplyDisconnected, RemoveByNode
  <1>8. CASE UNCHANGED vars  BY <1>8 DEF vars
  <1>9. QED
    BY <1>1, <1>2, <1>3, <1>4, <1>5, <1>6, <1>7, <1>8, Distinct DEF Next

LEMMA HandStep ==
  ASSUME TypeOK, Assigned, AllInHand, [Next]_vars
  PROVE  AllInHand'
  <1>1. CASE Restart
    BY <1>1, HandRestart DEF AllInHand
  <1>2. CASE ~Restart
    <2> SUFFICES ASSUME NEW c \in Conns \ upset' PROVE InHand(c)'
      BY DEF AllInHand
    <2>0. InHand(c)  BY <1>2, UpsetGrows DEF AllInHand
    <2>1. ASSUME NEW d \in Conns, AutoCheck(d) PROVE InHand(c)'
      <3>1. /\ Deploy(Api, d) /\ task[Api].pc = "idle" /\ Api \in Tasks
            /\ UNCHANGED <<dbVars, tableVars, consumerVars>>
        BY <2>1, Distinct DEF AutoCheck
      <3>2. task[Api] = Idle  BY <3>1 DEF Assigned, Fits
      <3>3. QED  BY <2>0, <3>1, <3>2, HandDeploy
    <2>2. ASSUME NEW d \in Conns, NEW then, NEW n, ChangeConnection(d, then, n)
          PROVE  InHand(c)'
      BY <2>0, <2>2, HandChange
    <2>3. ASSUME NEW j \in jobs, JobDone(j) PROVE InHand(c)'
      BY <2>0, <2>3, HandKeep DEF JobDone, dbVars, tableVars, consumerVars
    <2>4. ASSUME NEW n \in Nodes,
                 NodeUp(n) \/ Report(n) \/ NodeDrop(n) \/ GhostGone(n) \/ CacheExpired(n)
          PROVE  InHand(c)'
      BY <2>0, <2>4, HandKeep
      DEF NodeUp, Report, NodeDrop, GhostGone, CacheExpired, dbVars, tableVars, consumerVars
    <2>5. CASE Consume
      <3>1. ASSUME NEW n \in Nodes, ApplyConnected(n) PROVE InHand(c)'
        BY <2>0, <3>1, HandKeep DEF ApplyConnected, tableVars
      <3>2. ASSUME NEW n \in Nodes, ApplyDisconnected(n) PROVE InHand(c)'
        BY <2>0, <3>2, HandDisconnected
      <3>3. CASE RemoveByNode  BY <2>0, <3>3, HandRemove
      <3>4. QED  BY <2>5, <3>1, <3>2, <3>3 DEF Consume
    <2>6. CASE UNCHANGED vars
      BY <2>0, <2>6, HandKeep DEF vars, dbVars, tableVars, consumerVars
    <2>7. ASSUME NEW t \in Tasks, DeployStep(t) PROVE InHand(c)'
      BY <2>0, <2>7, HandDeployStep
    <2>8. CASE StopStep(Api)
      BY <2>0, <2>8, HandStopStep, Distinct
    <2>9. QED
      BY <1>2, <2>1, <2>2, <2>3, <2>4, <2>5, <2>6, <2>7, <2>8 DEF Next
  <1>3. QED  BY <1>1, <1>2

LEMMA InitInv == Init => DInv
  <1> SUFFICES ASSUME Init PROVE DInv
    OBVIOUS
  <1>1. TypeOK
    <2>1. \A c \in Conns : NodeOf[c] \in Nodes \cup {None}
      BY DeploymentAssumption
    <2>2. conn \in [Conns -> [node : Nodes \cup {None},
                             status : {"pending", "deployed", "deleted"}]]
      BY <2>1 DEF Init
    <2>3. /\ node_status \in [Nodes -> {"online", "offline"}]
          /\ epoch \in [Nodes -> 0..MaxUps] /\ live \in [Nodes -> BOOLEAN]
          /\ ghost \in [Nodes -> BOOLEAN] /\ reg \in [Nodes -> BOOLEAN]
          /\ pending \in [Nodes -> [Conns -> Tasks \cup {None}]]
          /\ running \in [Nodes -> SUBSET Conns] /\ jobs \in SUBSET Jobs
      BY Distinct DEF Init
    <2>4. task \in [Tasks -> TaskRecs]  BY IdleType DEF Init
    <2>5. /\ reply \in [Tasks -> {"none", "answered", "dropped"}]
          /\ tracker \in SUBSET (Conns \X Nodes)
          /\ routes \in [Paths -> Conns \cup {None}]
          /\ forwards \in SUBSET (Conns \X Nodes \X (0..MaxUps))
          /\ updates \in Seq({"Connected", "Disconnected"} \X Nodes)
          /\ cleaning \in Nodes \cup {None}
          /\ upset \in SUBSET Conns /\ changes \in 0..MaxChanges
      BY Distinct, EmptySeq DEF Init
    <2>6. QED  BY <2>2, <2>3, <2>4, <2>5 DEF TypeOK, TaskRecs
  <1>2. Assigned  BY IdleType DEF Init, Assigned
  <1>3. ASSUME NEW c \in Conns PROVE InHand(c)
    <2>1. \A t \in Tasks : task[t].conn # c  BY IdleType, Distinct DEF Init
    <2>2. Rest(c)  BY Distinct DEF Init, Rest, Left, Clean, RoutesOf
    <2>3. QED  BY <2>1, <2>2 DEF InHand
  <1>4. QED  BY <1>1, <1>2, <1>3 DEF DInv, AllInHand

LEMMA StepInv == DInv /\ [Next]_vars => DInv'
  BY TypeStep, HandStep DEF DInv

-----------------------------------------------------------------------------
(* ServedRuns, with who waits for an answer and what an answer means.      *)

\* Places with a oneshot receiver, between the request to docker and the row, and
\* of a stop that has not written the row.
Waits(t) == task[t].pc \in {"wait", "stop_wait"}
Deploying(t) == task[t].pc \in {"wait", "wire", "finish"}
Ending(t) == task[t].pc \in {"stop_wait", "stop_routes", "stop_tracker", "stop_db"}

\* The deploy has its answer from docker.
Answered(t) == Deploying(t) /\ (task[t].pc = "wait" => reply[t] = "answered")

\* A stored sender is that of a task that waits for this container on this channel.
Sender(t, n, c) ==
  /\ Waits(t) /\ reply[t] = "none"
  /\ task[t].conn = c /\ task[t].node = n /\ task[t].epoch = epoch[n]
Senders == \A n \in Nodes, c \in Conns : pending[n][c] # None => Sender(pending[n][c], n, c)
Receivers == \A t \in Tasks : ~Waits(t) => reply[t] = "none"

\* Channels are numbered in the order they came in.
Numbered ==
  /\ \A t \in Tasks : Deploying(t) => task[t].epoch <= epoch[task[t].node]
  /\ \A f \in forwards : f[3] <= epoch[f[2]]

\* No accept loop of c is younger than a deploy of it.
Latest(c) ==
  \A t \in Tasks, f \in forwards :
    task[t].conn = c /\ Deploying(t) /\ f[1] = c /\ f[2] = task[t].node =>
      f[3] <= task[t].epoch

\* Docker stops no container that is being deployed or is served.
Called(c) ==
  Stopping(c) => /\ \A t \in Tasks : task[t].conn = c => ~Deploying(t)
                 /\ conn[c].status = "deployed" =>
                      \E t \in Tasks : task[t].conn = c /\ Ending(t)

\* An answer on a channel that still is there means that the container runs.
Started(c) ==
  \A t \in Tasks :
    /\ task[t].conn = c /\ Answered(t)
    /\ live[task[t].node] /\ task[t].epoch = epoch[task[t].node]
    => c \in running[task[t].node]

\* Nobody has stopped it since.
Kept(c) ==
  \A n \in Nodes :
    /\ conn[c] = [node |-> n, status |-> "deployed"] /\ live[n]
    /\ <<c, n, epoch[n]>> \in forwards
    /\ \A t \in Tasks : task[t].conn # c
    => c \in running[n]

Account(c) == Latest(c) /\ Called(c) /\ Started(c) /\ Kept(c)
Accounts == \A c \in Conns \ upset : Account(c)

RInv == DInv /\ Senders /\ Receivers /\ Numbered /\ Accounts

-----------------------------------------------------------------------------
(* The oneshots.                                                           *)

LEMMA SenderIs ==
  ASSUME TypeOK, Senders, NEW n \in Nodes, NEW c \in Conns, pending[n][c] # None
  PROVE  pending[n][c] \in Tasks /\ Sender(pending[n][c], n, c)
  BY DEF TypeOK, Senders

\* Nobody who waits is touched.
LEMMA OneshotKeep ==
  ASSUME TypeOK, Senders, Receivers, UNCHANGED <<pending, reply, epoch>>,
         \A u \in Tasks : Waits(u) => task'[u] = task[u]
  PROVE  Senders' /\ Receivers'
  <1>1. ASSUME NEW n \in Nodes, NEW c \in Conns, pending'[n][c] # None
        PROVE  Sender(pending[n][c], n, c)'
    <2>1. PICK u \in Tasks : u = pending[n][c]  BY <1>1, SenderIs
    <2>2. Sender(u, n, c)  BY <1>1, <2>1, SenderIs
    <2>3. task'[u] = task[u]  BY <2>2 DEF Sender
    <2>4. Sender(u, n, c)'  BY <2>2, <2>3 DEF Sender, Waits
    <2>5. QED  BY <2>1, <2>4 DEF Sender, Waits
  <1>2. Receivers'  BY DEF Receivers, Waits
  <1>3. QED  BY <1>1, <1>2 DEF Senders

LEMMA OneshotRequest ==
  ASSUME TypeOK, Senders, Receivers, NEW t \in Tasks, ~Waits(t),
         NEW kind, NEW c \in Conns, NEW n \in Nodes, Request(t, kind, c, n),
         NEW r, task' = [task EXCEPT ![t] = r], r.pc \in {"wait", "stop_wait"},
         r.conn = c, r.node = n, r.epoch = epoch[n], UNCHANGED epoch
  PROVE  Senders' /\ Receivers'
  <1>1. /\ pending' = [pending EXCEPT ![n][c] = t]
        /\ reply' = [u \in Tasks |->
                       IF u = pending[n][c] /\ u # t /\ reply[u] = "none"
                         THEN "dropped" ELSE reply[u]]
    BY DEF Request, Swap
  <1>2. task'[t] = r /\ \A u \in Tasks \ {t} : task'[u] = task[u]
    BY DEF TypeOK
  <1>3. reply'[t] = "none"  BY <1>1 DEF Receivers
  <1>4. ASSUME NEW m \in Nodes, NEW d \in Conns, pending'[m][d] # None
        PROVE  Sender(pending[m][d], m, d)'
    <2>1. CASE m = n /\ d = c
      <3>1. pending'[m][d] = t  BY <1>1, <2>1 DEF TypeOK
      <3>2. Sender(t, m, d)'  BY <1>2, <1>3, <2>1 DEF Sender, Waits
      <3>3. QED  BY <3>1, <3>2 DEF Sender, Waits
    <2>2. CASE ~(m = n /\ d = c)
      <3>1. pending'[m][d] = pending[m][d]  BY <1>1, <2>2 DEF TypeOK
      <3>2. PICK u \in Tasks : u = pending[m][d]  BY <1>4, <3>1, SenderIs
      <3>3. Sender(u, m, d)  BY <1>4, <3>1, <3>2, SenderIs
      <3>4. u # t  BY <3>3 DEF Sender
      <3>5. u # pending[n][c]
        <4>1. ASSUME u = pending[n][c] PROVE FALSE
          <5>1. Sender(u, n, c)  BY <3>2, <4>1, SenderIs, Distinct
          <5>2. QED  BY <2>2, <3>3, <5>1 DEF Sender
        <4>2. QED  BY <4>1
      <3>6. Sender(u, m, d)'  BY <1>1, <1>2, <3>3, <3>4, <3>5 DEF Sender, Waits
      <3>7. QED  BY <3>1, <3>2, <3>6 DEF Sender, Waits
    <2>3. QED  BY <2>1, <2>2
  <1>5. ASSUME NEW u \in Tasks, ~Waits(u)' PROVE reply'[u] = "none"
    <2>1. u # t  BY <1>2, <1>5 DEF Waits
    <2>2. ~Waits(u)  BY <1>2, <1>5, <2>1 DEF Waits
    <2>3. u # pending[n][c]
      <3>1. ASSUME u = pending[n][c] PROVE FALSE
        <4>1. Sender(u, n, c)  BY <3>1, SenderIs, Distinct
        <4>2. QED  BY <2>2, <4>1 DEF Sender
      <3>2. QED  BY <3>1
    <2>4. QED  BY <1>1, <2>2, <2>3 DEF Receivers
  <1>6. QED  BY <1>4, <1>5 DEF Senders, Receivers

\* A deploy that returns without an answer.
LEMMA OneshotGiveUp ==
  ASSUME TypeOK, Assigned, Senders, Receivers, NEW t \in Tasks, task[t].pc = "wait",
         GiveUp(t), Return(t), UNCHANGED epoch
  PROVE  Senders' /\ Receivers'
  <1>1. task'[t] = Idle /\ \A u \in Tasks \ {t} : task'[u] = task[u]
    BY ReturnSet
  <1>2. ~Waits(t)'  BY <1>1, IdleType DEF Waits
  <1>3. PICK n \in Nodes, c \in Conns : n = task[t].node /\ c = task[t].conn
    BY DEF Assigned, Fits
  <1>4. CASE task[t].epoch = epoch[n]
    <2>1. /\ pending' = [pending EXCEPT ![n][c] = None]
          /\ reply' = [u \in Tasks |->
                         IF u = t THEN "none"
                         ELSE IF u = pending[n][c] THEN "dropped" ELSE reply[u]]
      BY <1>3, <1>4 DEF GiveUp
    <2>2. ASSUME NEW m \in Nodes, NEW d \in Conns, pending'[m][d] # None
          PROVE  Sender(pending[m][d], m, d)'
      <3>1. ~(m = n /\ d = c) /\ pending'[m][d] = pending[m][d]
        BY <2>1, <2>2 DEF TypeOK
      <3>2. PICK u \in Tasks : u = pending[m][d]  BY <2>2, <3>1, SenderIs
      <3>3. Sender(u, m, d)  BY <2>2, <3>1, <3>2, SenderIs
      <3>4. u # t  BY <1>3, <3>1, <3>3 DEF Sender
      <3>5. u # pending[n][c]
        <4>1. ASSUME u = pending[n][c] PROVE FALSE
          <5>1. Sender(u, n, c)  BY <3>2, <4>1, SenderIs, Distinct
          <5>2. QED  BY <3>1, <3>3, <5>1 DEF Sender
        <4>2. QED  BY <4>1
      <3>6. Sender(u, m, d)'  BY <1>1, <2>1, <3>3, <3>4, <3>5 DEF Sender, Waits
      <3>7. QED  BY <3>1, <3>2, <3>6 DEF Sender, Waits
    <2>3. ASSUME NEW u \in Tasks, ~Waits(u)' PROVE reply'[u] = "none"
      <3>1. CASE u = t  BY <2>1, <3>1
      <3>2. CASE u # t
        <4>1. ~Waits(u)  BY <1>1, <2>3, <3>2 DEF Waits
        <4>2. u # pending[n][c]
          <5>1. ASSUME u = pending[n][c] PROVE FALSE
            <6>1. Sender(u, n, c)  BY <5>1, SenderIs, Distinct
            <6>2. QED  BY <4>1, <6>1 DEF Sender
          <5>2. QED  BY <5>1
        <4>3. QED  BY <2>1, <3>2, <4>1, <4>2 DEF Receivers
      <3>3. QED  BY <3>1, <3>2
    <2>4. QED  BY <2>2, <2>3 DEF Senders, Receivers
  <1>5. CASE task[t].epoch # epoch[n]
    <2>1. reply' = [reply EXCEPT ![t] = "none"] /\ UNCHANGED pending
      BY <1>3, <1>5 DEF GiveUp
    <2>2. ASSUME NEW m \in Nodes, NEW d \in Conns, pending'[m][d] # None
          PROVE  Sender(pending[m][d], m, d)'
      <3>1. PICK u \in Tasks : u = pending[m][d]  BY <2>1, <2>2, SenderIs
      <3>2. Sender(u, m, d)  BY <2>1, <2>2, <3>1, SenderIs
      <3>3. u # t  BY <1>3, <1>5, <3>2 DEF Sender
      <3>4. Sender(u, m, d)'  BY <1>1, <2>1, <3>2, <3>3 DEF Sender, Waits
      <3>5. QED  BY <2>1, <3>1, <3>4 DEF Sender, Waits
    <2>3. ASSUME NEW u \in Tasks, ~Waits(u)' PROVE reply'[u] = "none"
      BY <1>1, <2>1, <2>3 DEF TypeOK, Receivers, Waits
    <2>4. QED  BY <2>2, <2>3 DEF Senders, Receivers
  <1>6. QED  BY <1>4, <1>5

\* The receiver is done: an answer is taken, or the wait is over and the task's own
\* sender is gone.
LEMMA OneshotDone ==
  ASSUME TypeOK, Senders, Receivers, NEW t \in Tasks,
         reply' = [reply EXCEPT ![t] = "none"], UNCHANGED epoch,
         \A u \in Tasks \ {t} : task'[u] = task[u],
         \A n \in Nodes, c \in Conns :
           pending'[n][c] # None => pending'[n][c] = pending[n][c] /\ pending[n][c] # t
  PROVE  Senders' /\ Receivers'
  <1>1. ASSUME NEW n \in Nodes, NEW c \in Conns, pending'[n][c] # None
        PROVE  Sender(pending[n][c], n, c)'
    <2>1. pending'[n][c] = pending[n][c] /\ pending[n][c] # t  BY <1>1
    <2>2. PICK u \in Tasks : u = pending[n][c]  BY <1>1, <2>1, SenderIs
    <2>3. Sender(u, n, c)  BY <1>1, <2>1, <2>2, SenderIs
    <2>4. Sender(u, n, c)'  BY <2>1, <2>2, <2>3 DEF TypeOK, Sender, Waits
    <2>5. QED  BY <2>1, <2>2, <2>4 DEF Sender, Waits
  <1>2. Receivers'  BY DEF TypeOK, Receivers, Waits
  <1>3. QED  BY <1>1, <1>2 DEF Senders

\* Some senders are used, and gone; tasks do not move.
LEMMA OneshotUsed ==
  ASSUME TypeOK, Senders, Receivers, UNCHANGED task,
         \A n \in Nodes, c \in Conns :
           pending'[n][c] # None => /\ pending'[n][c] = pending[n][c]
                                    /\ epoch'[n] = epoch[n]
                                    /\ reply'[pending[n][c]] = reply[pending[n][c]],
         \A u \in Tasks : reply'[u] # reply[u] =>
           \E n \in Nodes, c \in Conns : pending[n][c] = u
  PROVE  Senders' /\ Receivers'
  <1>1. ASSUME NEW n \in Nodes, NEW c \in Conns, pending'[n][c] # None
        PROVE  Sender(pending[n][c], n, c)'
    <2>1. pending'[n][c] = pending[n][c]  BY <1>1
    <2>2. PICK u \in Tasks : u = pending[n][c]  BY <1>1, <2>1, SenderIs
    <2>3. Sender(u, n, c)  BY <1>1, <2>1, <2>2, SenderIs
    <2>4. Sender(u, n, c)'  BY <1>1, <2>2, <2>3 DEF Sender, Waits
    <2>5. QED  BY <2>1, <2>2, <2>4 DEF Sender, Waits
  <1>2. ASSUME NEW u \in Tasks, ~Waits(u) PROVE reply'[u] = "none"
    <2>1. ASSUME NEW n \in Nodes, NEW c \in Conns, pending[n][c] = u PROVE FALSE
      <3>1. Sender(u, n, c)  BY <2>1, SenderIs, Distinct
      <3>2. QED  BY <1>2, <3>1 DEF Sender
    <2>2. QED  BY <1>2, <2>1 DEF Receivers
  <1>3. Receivers'  BY <1>2 DEF Receivers, Waits
  <1>4. QED  BY <1>1, <1>3 DEF Senders

LEMMA OneshotReport ==
  ASSUME TypeOK, Senders, Receivers, NEW n \in Nodes, Report(n)
  PROVE  Senders' /\ Receivers'
  <1>1. /\ pending' = [pending EXCEPT ![n] =
                         [c \in Conns |-> IF c \in running[n] THEN None ELSE pending[n][c]]]
        /\ reply' = [t \in Tasks |->
                       IF (\E c \in running[n] : pending[n][c] = t) /\ reply[t] = "none"
                         THEN "answered" ELSE reply[t]]
        /\ UNCHANGED <<task, epoch>>
    BY DEF Report, TypeOK
  <1>2. running[n] \subseteq Conns  BY DEF TypeOK
  <1>3. ASSUME NEW m \in Nodes, NEW d \in Conns, pending'[m][d] # None
        PROVE  /\ pending'[m][d] = pending[m][d]
               /\ reply'[pending[m][d]] = reply[pending[m][d]]
    <2>1. pending'[m][d] = pending[m][d] /\ ~(m = n /\ d \in running[n])
      BY <1>1, <1>3 DEF TypeOK
    <2>2. PICK u \in Tasks : u = pending[m][d]  BY <1>3, <2>1, SenderIs
    <2>3. Sender(u, m, d)  BY <1>3, <2>1, <2>2, SenderIs
    <2>4. ASSUME NEW c \in running[n], pending[n][c] = u PROVE FALSE
      <3>1. Sender(u, n, c)  BY <1>2, <2>4, SenderIs, Distinct
      <3>2. QED  BY <2>1, <2>3, <3>1 DEF Sender
    <2>5. reply'[u] = reply[u]  BY <1>1, <2>4
    <2>6. QED  BY <2>1, <2>2, <2>5
  <1>4. ASSUME NEW u \in Tasks, reply'[u] # reply[u]
        PROVE  \E m \in Nodes, c \in Conns : pending[m][c] = u
    BY <1>1, <1>2, <1>4
  <1>5. QED  BY <1>1, <1>3, <1>4, OneshotUsed

LEMMA OneshotJob ==
  ASSUME TypeOK, Senders, Receivers, NEW j \in jobs, JobDone(j)
  PROVE  Senders' /\ Receivers'
  <1>1. UNCHANGED <<task, epoch>>  BY DEF JobDone, nodeVars
  <1>2. PICK n \in Nodes, c \in Conns : n = j.node /\ c = j.conn  BY DEF TypeOK, Jobs
  <1>3. CASE UNCHANGED <<pending, reply>>
    BY <1>1, <1>3, OneshotKeep
  <1>4. CASE Swap(n, c, None, "answered")
    <2>1. /\ pending' = [pending EXCEPT ![n][c] = None]
          /\ reply' = [t \in Tasks |->
                         IF t = pending[n][c] /\ t # None /\ reply[t] = "none"
                           THEN "answered" ELSE reply[t]]
      BY <1>4 DEF Swap
    <2>2. ASSUME NEW m \in Nodes, NEW d \in Conns, pending'[m][d] # None
          PROVE  /\ pending'[m][d] = pending[m][d]
                 /\ reply'[pending[m][d]] = reply[pending[m][d]]
      <3>1. pending'[m][d] = pending[m][d] /\ ~(m = n /\ d = c)
        BY <2>1, <2>2 DEF TypeOK
      <3>2. PICK u \in Tasks : u = pending[m][d]  BY <2>2, <3>1, SenderIs
      <3>3. Sender(u, m, d)  BY <2>2, <3>1, <3>2, SenderIs
      <3>4. ASSUME pending[n][c] = u PROVE FALSE
        <4>1. Sender(u, n, c)  BY <3>4, SenderIs, Distinct
        <4>2. QED  BY <3>1, <3>3, <4>1 DEF Sender
      <3>5. reply'[u] = reply[u]  BY <2>1, <3>4
      <3>6. QED  BY <3>1, <3>2, <3>5
    <2>3. ASSUME NEW u \in Tasks, reply'[u] # reply[u]
          PROVE  \E m \in Nodes, d \in Conns : pending[m][d] = u
      BY <2>1, <2>3
    <2>4. QED  BY <1>1, <2>2, <2>3, OneshotUsed
  <1>5. QED  BY <1>2, <1>3, <1>4 DEF JobDone

-----------------------------------------------------------------------------
(* The numbers of the channels.                                            *)

\* No deploy and no accept loop is new.
LEMMA NumberedKeep ==
  ASSUME TypeOK, Assigned, Numbered, \A n \in Nodes : epoch'[n] >= epoch[n],
         epoch' \in [Nodes -> 0..MaxUps], forwards' \subseteq forwards,
         \A u \in Tasks : Deploying(u)' =>
           /\ Deploying(u)
           /\ task'[u].node = task[u].node /\ task'[u].epoch = task[u].epoch
  PROVE  Numbered'
  <1>1. \A n \in Nodes : epoch[n] \in Nat /\ epoch'[n] \in Nat  BY Distinct DEF TypeOK
  <1>2. ASSUME NEW u \in Tasks, Deploying(u)'
        PROVE  task'[u].epoch <= epoch'[task'[u].node]
    <2>1. Deploying(u) /\ task'[u].node = task[u].node /\ task'[u].epoch = task[u].epoch
      BY <1>2
    <2>2. PICK n \in Nodes : n = task[u].node  BY <2>1 DEF Deploying, Assigned, Fits
    <2>3. task[u].epoch \in Nat  BY Distinct DEF TypeOK
    <2>4. task[u].epoch <= epoch[n]  BY <2>1, <2>2 DEF Numbered
    <2>5. QED  BY <1>1, <2>1, <2>2, <2>3, <2>4
  <1>3. ASSUME NEW f \in forwards' PROVE f[3] <= epoch'[f[2]]
    <2>1. f \in forwards /\ f[2] \in Nodes /\ f[3] \in Nat  BY <1>3, Distinct DEF TypeOK
    <2>2. f[3] <= epoch[f[2]]  BY <2>1 DEF Numbered
    <2>3. QED  BY <1>1, <2>1, <2>2
  <1>4. QED  BY <1>2, <1>3 DEF Numbered, Deploying

\* A deploy starts on the channel of the day.
LEMMA NumberedDeploy ==
  ASSUME TypeOK, Numbered, NEW t \in Tasks, NEW n \in Nodes, NEW r,
         task' = [task EXCEPT ![t] = r], r.node = n, r.epoch = epoch[n],
         UNCHANGED <<epoch, forwards>>
  PROVE  Numbered'
  <1>1. task'[t] = r /\ \A u \in Tasks \ {t} : task'[u] = task[u]  BY DEF TypeOK
  <1>2. epoch[n] \in Nat  BY Distinct DEF TypeOK
  <1>3. \A u \in Tasks : Deploying(u)' => task'[u].epoch <= epoch[task'[u].node]
    BY <1>1, <1>2 DEF Numbered, Deploying
  <1>4. QED  BY <1>3 DEF Numbered, Deploying

\* Its accept loops use that channel.
LEMMA NumberedWire ==
  ASSUME TypeOK, Assigned, Numbered, NEW t \in Tasks, DeployWire(t)
  PROVE  Numbered'
  <1>1. /\ task[t].pc = "wire" /\ UNCHANGED epoch
        /\ \/ forwards' = forwards \cup {<<task[t].conn, task[t].node, task[t].epoch>>}
           \/ forwards' = forwards
        /\ Goto(t, "finish") \/ Return(t)
    BY DEF DeployWire, nodeVars
  <1>2. task[t].conn \in Conns /\ task[t].node \in Nodes
    BY <1>1 DEF Assigned, Fits
  <1>3. /\ \A u \in Tasks \ {t} : task'[u] = task[u]
        /\ Deploying(t)' => task'[t].node = task[t].node /\ task'[t].epoch = task[t].epoch
    <2>1. CASE Goto(t, "finish")  BY <2>1 DEF Goto, TypeOK
    <2>2. CASE Return(t)
      <3>1. task'[t] = Idle /\ \A u \in Tasks \ {t} : task'[u] = task[u]
        BY <2>2, ReturnSet
      <3>2. ~Deploying(t)'  BY <3>1, IdleType DEF Deploying
      <3>3. QED  BY <3>1, <3>2
    <2>3. QED  BY <1>1, <2>1, <2>2
  <1>4. task[t].epoch <= epoch[task[t].node]  BY <1>1 DEF Numbered, Deploying
  <1>5. \A u \in Tasks : Deploying(u)' => task'[u].epoch <= epoch[task'[u].node]
    BY <1>3, <1>4 DEF Numbered, Deploying
  <1>6. \A f \in forwards' : f[3] <= epoch[f[2]]  BY <1>1, <1>4 DEF Numbered
  <1>7. QED  BY <1>1, <1>5, <1>6 DEF Numbered, Deploying

-----------------------------------------------------------------------------
(* The account of a connection.                                            *)

\* For c, node n is as it was, or has a new channel.
Steady(c, n) ==
  \/ ~live'[n]
  \/ live[n] /\ epoch'[n] = epoch[n] /\ (c \in running[n] => c \in running'[n])
  \/ epoch[n] < epoch'[n]

\* A step of tasks that do not work on c, of the client, or of the update task.
LEMMA Aside ==
  ASSUME TypeOK, Assigned, Numbered, NEW c \in Conns, Account(c),
         \A u \in Tasks : (task'[u].conn = c <=> task[u].conn = c)
                         /\ (task[u].conn = c => task'[u] = task[u])
                         /\ (task[u].conn = c /\ reply'[u] = "answered" => reply[u] = "answered"),
         conn'[c].status = "deployed" => conn'[c] = conn[c],
         \A f \in forwards' : f[1] = c => f \in forwards,
         Stopping(c)' => Stopping(c),
         \A n \in Nodes : Steady(c, n)
  PROVE  Account(c)'
  <1>1. Latest(c)'  BY DEF Account, Latest, Deploying
  <1>2. Called(c)'
    <2>1. ASSUME Stopping(c)' PROVE \A t \in Tasks : task'[t].conn = c => ~Deploying(t)'
      BY <2>1 DEF Account, Called, Deploying
    <2>2. ASSUME Stopping(c)', conn'[c].status = "deployed"
          PROVE  \E t \in Tasks : task'[t].conn = c /\ Ending(t)'
      <3>1. PICK t \in Tasks : task[t].conn = c /\ Ending(t)
        BY <2>2 DEF Account, Called
      <3>2. task'[t].conn = c /\ Ending(t)'  BY <3>1 DEF Ending
      <3>3. QED  BY <3>2
    <2>3. QED  BY <2>1, <2>2 DEF Called
  <1>3. Started(c)'
    <2> SUFFICES ASSUME NEW t \in Tasks, task'[t].conn = c, Answered(t)',
                        live'[task'[t].node], task'[t].epoch = epoch'[task'[t].node]
                 PROVE  c \in running'[task'[t].node]
      BY DEF Started
    <2>1. task[t].conn = c /\ task'[t] = task[t]  OBVIOUS
    <2>2. Answered(t)  BY <2>1 DEF Answered, Deploying
    <2>3. PICK n \in Nodes : n = task[t].node
      BY <2>2 DEF Answered, Deploying, Assigned, Fits
    <2>4. task[t].epoch <= epoch[n] /\ task[t].epoch \in Nat /\ epoch[n] \in Nat
      BY <2>2, <2>3, Distinct DEF Answered, Numbered, TypeOK
    <2>5. live[n] /\ epoch'[n] = epoch[n] /\ (c \in running[n] => c \in running'[n])
      <3>1. Steady(c, n) /\ live'[n] /\ epoch'[n] = task[t].epoch  BY <2>1, <2>3
      <3>2. ~(epoch[n] < epoch'[n])  BY <2>4, <3>1
      <3>3. QED  BY <3>1, <3>2 DEF Steady
    <2>6. c \in running[n]  BY <2>1, <2>2, <2>3, <2>5 DEF Account, Started
    <2>7. QED  BY <2>1, <2>3, <2>5, <2>6
  <1>4. Kept(c)'
    <2> SUFFICES ASSUME NEW n \in Nodes, conn'[c] = [node |-> n, status |-> "deployed"],
                        live'[n], <<c, n, epoch'[n]>> \in forwards',
                        \A t \in Tasks : task'[t].conn # c
                 PROVE  c \in running'[n]
      BY DEF Kept
    <2>1. conn[c] = [node |-> n, status |-> "deployed"]  OBVIOUS
    <2>2. <<c, n, epoch'[n]>> \in forwards  OBVIOUS
    <2>3. epoch'[n] <= epoch[n]
      <3>1. PICK f \in forwards : f = <<c, n, epoch'[n]>>  BY <2>2
      <3>2. f[3] <= epoch[f[2]]  BY DEF Numbered
      <3>3. f[2] = n /\ f[3] = epoch'[n]  BY <3>1
      <3>4. QED  BY <3>2, <3>3
    <2>4. epoch'[n] \in Nat /\ epoch[n] \in Nat  BY <2>2, Distinct DEF TypeOK
    <2>5. Steady(c, n) /\ ~(epoch[n] < epoch'[n])  BY <2>3, <2>4
    <2>6. live[n] /\ epoch'[n] = epoch[n] /\ (c \in running[n] => c \in running'[n])
      BY <2>5 DEF Steady
    <2>7. c \in running[n]  BY <2>1, <2>2, <2>6 DEF Account, Kept
    <2>8. QED  BY <2>6, <2>7
  <1>5. QED  BY <1>1, <1>2, <1>3, <1>4 DEF Account

\* Nobody deploys c, and if its row says deployed somebody is about to change that.
LEMMA NoDeploy ==
  ASSUME NEW c \in Conns, \A u \in Tasks : task'[u].conn = c => ~Deploying(u)',
         conn'[c].status = "deployed" =>
           \E u \in Tasks : task'[u].conn = c /\ Ending(u)'
  PROVE  Account(c)'
  <1>1. Latest(c)'  BY DEF Latest
  <1>2. Called(c)'  BY DEF Called
  <1>3. Started(c)'  BY DEF Started, Answered
  <1>4. Kept(c)'  BY DEF Kept
  <1>5. QED  BY <1>1, <1>2, <1>3, <1>4 DEF Account

\* One task deploys c.
LEMMA Deploys ==
  ASSUME NEW c \in Conns, NEW t \in Tasks, task'[t].conn = c, Deploying(t)',
         \A u \in Tasks \ {t} : task'[u].conn # c, ~Stopping(c)',
         \A f \in forwards' : f[1] = c /\ f[2] = task'[t].node => f[3] <= task'[t].epoch,
         Answered(t)' /\ live'[task'[t].node] /\ task'[t].epoch = epoch'[task'[t].node]
           => c \in running'[task'[t].node]
  PROVE  Account(c)'
  <1>1. Latest(c)'  BY DEF Latest
  <1>2. Called(c)'  BY DEF Called
  <1>3. Started(c)'  BY DEF Started
  <1>4. Kept(c)'  BY DEF Kept
  <1>5. QED  BY <1>1, <1>2, <1>3, <1>4 DEF Account

LEMMA AccountDeploy ==
  ASSUME TypeOK, Assigned, Receivers, Numbered, NEW t \in Tasks, NEW d \in Conns,
         Deploy(t, d), (task[t].conn = d /\ task[t].pc = "try") \/ task[t] = Idle,
         UNCHANGED <<dbVars, nodeVars, running, tableVars>>,
         NEW c \in Conns \ upset', InHand(c), Account(c)
  PROVE  Account(c)'
  <1> DEFINE n == conn[d].node
             r == [Idle EXCEPT !.pc = "wait", !.conn = d, !.node = n, !.epoch = epoch[n]]
  <1>1. /\ MayDeploy(d) /\ task' = [task EXCEPT ![t] = r] /\ Request(t, "start", d, n)
        /\ upset' = IF Busy(d) \subseteq {t} /\ ~Stopping(d) THEN upset ELSE upset \cup {d}
    BY DEF Deploy
  <1>2. UNCHANGED <<conn, forwards, live, epoch, running>>
    BY DEF dbVars, nodeVars, tableVars
  <1>3. r.pc = "wait" /\ r.conn = d /\ r.node = n /\ r.epoch = epoch[n]  BY DEF Idle
  <1>4. n \in Nodes  BY <1>1 DEF MayDeploy, TypeOK
  <1> HIDE DEF r
  <1>5. task'[t] = r /\ \A u \in Tasks \ {t} : task'[u] = task[u]
    BY <1>1 DEF TypeOK
  <1>6. \A u \in Tasks : reply'[u] # "answered" \/ reply'[u] = reply[u]
    BY <1>1 DEF Request, Swap
  <1>7. Stopping(c)' => Stopping(c)
    BY <1>1 DEF Request, Stopping
  <1>8. CASE c # d
    <2>1. task[t].conn # c  BY <1>8, IdleType, Distinct
    <2>2. \A u \in Tasks : (task'[u].conn = c <=> task[u].conn = c)
                          /\ (task[u].conn = c => task'[u] = task[u])
      BY <1>3, <1>5, <1>8, <2>1
    <2>3. \A m \in Nodes : Steady(c, m)  BY <1>2 DEF Steady, TypeOK
    <2>4. QED  BY <1>2, <1>6, <1>7, <2>2, <2>3, Aside
  <1>9. CASE c = d
    <2>1. Busy(c) \subseteq {t} /\ ~Stopping(c)  BY <1>1, <1>9
    <2>2. \A u \in Tasks \ {t} : task'[u].conn # c  BY <1>5, <2>1 DEF Busy
    <2>3. ~Waits(t)  BY IdleType DEF Waits
    <2>4. reply'[t] # "answered"
      BY <1>6, <2>3 DEF Receivers
    <2>5. Deploying(t)' /\ ~Answered(t)'  BY <1>3, <1>5, <2>4 DEF Deploying, Answered
    <2>6. \A f \in forwards' : f[1] = c /\ f[2] = task'[t].node => f[3] <= task'[t].epoch
      BY <1>2, <1>3, <1>5 DEF Numbered
    <2>7. QED  BY <1>3, <1>5, <1>7, <1>9, <2>1, <2>2, <2>5, <2>6, Deploys
  <1>10. QED  BY <1>8, <1>9

\* A task that works on another connection moves.
LEMMA AsideTask ==
  ASSUME TypeOK, Assigned, Numbered, NEW c \in Conns, Account(c), NEW t \in Tasks,
         task[t].conn # c, task'[t].conn # c, \A u \in Tasks \ {t} : task'[u] = task[u],
         \A u \in Tasks \ {t} : reply'[u] = "answered" => reply[u] = "answered",
         conn'[c] = conn[c], \A f \in forwards' : f[1] = c => f \in forwards,
         UNCHANGED <<nodeVars, clientVars>>
  PROVE  Account(c)'
  <1>1. UNCHANGED <<live, epoch, running, jobs>>  BY DEF nodeVars, clientVars
  <1>2. \A n \in Nodes : Steady(c, n)  BY <1>1 DEF Steady
  <1>3. Stopping(c)' => Stopping(c)  BY <1>1 DEF Stopping
  <1>4. \A u \in Tasks : (task'[u].conn = c <=> task[u].conn = c)
                        /\ (task[u].conn = c => task'[u] = task[u])
                        /\ (task[u].conn = c /\ reply'[u] = "answered" => reply[u] = "answered")
    OBVIOUS
  <1>5. QED  BY <1>2, <1>3, <1>4, Aside

LEMMA AccountReturn ==
  ASSUME TypeOK, Assigned, Numbered, NEW t \in Tasks, Return(t),
         task[t].pc \in {"try", "wait"},
         UNCHANGED <<dbVars, nodeVars, clientVars, tableVars>>,
         \A u \in Tasks \ {t} : reply'[u] = "answered" => reply[u] = "answered",
         NEW c \in Conns, InHand(c), Account(c)
  PROVE  Account(c)'
  <1>1. task'[t] = Idle /\ \A u \in Tasks \ {t} : task'[u] = task[u]
    BY ReturnSet
  <1>2. task'[t].conn # c  BY <1>1, IdleType, Distinct
  <1>3. UNCHANGED <<conn, forwards>>  BY DEF dbVars, tableVars
  <1>4. CASE task[t].conn # c  BY <1>1, <1>2, <1>3, <1>4, AsideTask
  <1>5. CASE task[t].conn = c
    <2>1. \A u \in Tasks : task'[u].conn # c  BY <1>1, <1>2, <1>5, Owned
    <2>2. conn'[c].status # "deployed"
      BY <1>3, <1>5, Owned DEF Stage
    <2>3. QED  BY <2>1, <2>2, NoDeploy
  <1>6. QED  BY <1>4, <1>5

LEMMA AccountRecord ==
  ASSUME TypeOK, Assigned, Numbered, NEW t \in Tasks, DeployRecord(t),
         NEW c \in Conns, InHand(c), Account(c)
  PROVE  Account(c)'
  <1>1. /\ task[t].pc = "wait" /\ reply[t] = "answered" /\ Goto(t, "wire")
        /\ reply' = [reply EXCEPT ![t] = "none"]
        /\ UNCHANGED <<conn, forwards, live, epoch, running, jobs>>
        /\ UNCHANGED <<nodeVars, clientVars>>
    BY DEF DeployRecord, dbVars, nodeVars, clientVars
  <1>2. task[t].conn \in Conns /\ task[t].node \in Nodes  BY <1>1 DEF Assigned, Fits
  <1>3. /\ task'[t].pc = "wire" /\ task'[t].conn = task[t].conn /\ task'[t].node = task[t].node
        /\ \A u \in Tasks \ {t} : task'[u] = task[u]
    BY <1>1, <1>2, GotoSet DEF PCs
  <1>4. task'[t].epoch = task[t].epoch  BY <1>1 DEF Goto, TypeOK
  <1>5. \A u \in Tasks \ {t} : reply'[u] = reply[u]  BY <1>1 DEF TypeOK
  <1>6. CASE task[t].conn # c  BY <1>1, <1>3, <1>5, <1>6, AsideTask
  <1>7. CASE task[t].conn = c
    <2>1. \A u \in Tasks \ {t} : task[u].conn # c  BY <1>7, Owned
    <2>2. Deploying(t) /\ Answered(t) /\ Deploying(t)'
      BY <1>1, <1>3 DEF Deploying, Answered
    <2>3. ~Stopping(c)'  BY <1>1, <1>7, <2>2 DEF Account, Called, Stopping
    <2>4. \A f \in forwards' : f[1] = c /\ f[2] = task'[t].node => f[3] <= task'[t].epoch
      BY <1>1, <1>3, <1>4, <1>7, <2>2 DEF Account, Latest
    <2>5. live'[task'[t].node] /\ task'[t].epoch = epoch'[task'[t].node]
            => c \in running'[task'[t].node]
      BY <1>1, <1>3, <1>4, <1>7, <2>2 DEF Account, Started
    <2>6. QED  BY <1>3, <1>7, <2>1, <2>2, <2>3, <2>4, <2>5, Deploys
  <1>8. QED  BY <1>6, <1>7

LEMMA AccountWire ==
  ASSUME TypeOK, Assigned, Numbered, NEW t \in Tasks, DeployWire(t),
         NEW c \in Conns \ upset', InHand(c), Account(c)
  PROVE  Account(c)'
  <1> DEFINE ok == Settable(task[t].conn) = Len(PathsOf[task[t].conn])
  <1>1. /\ task[t].pc = "wire"
        /\ \/ forwards' = forwards \cup {<<task[t].conn, task[t].node, task[t].epoch>>}
           \/ forwards' = forwards
        /\ upset' = IF ok THEN upset ELSE upset \cup {task[t].conn}
        /\ IF ok THEN Goto(t, "finish") ELSE Return(t)
        /\ UNCHANGED <<conn, live, epoch, running, jobs, reply>>
        /\ UNCHANGED <<nodeVars, clientVars>>
    BY DEF DeployWire, dbVars, nodeVars, clientVars
  <1>2. task[t].conn \in Conns /\ task[t].node \in Nodes /\ task[t].epoch \in Nat
    BY <1>1, Distinct DEF Assigned, Fits, TypeOK
  <1> HIDE DEF ok
  <1>3. ASSUME ok
        PROVE  /\ task'[t].pc = "finish" /\ task'[t].conn = task[t].conn
               /\ task'[t].node = task[t].node /\ task'[t].epoch = task[t].epoch
               /\ \A u \in Tasks \ {t} : task'[u] = task[u]
    <2>1. Goto(t, "finish")  BY <1>1, <1>3
    <2>2. task'[t].epoch = task[t].epoch  BY <2>1 DEF Goto, TypeOK
    <2>3. QED  BY <1>2, <2>1, <2>2, GotoSet DEF PCs
  <1>4. ASSUME ~ok PROVE task'[t] = Idle /\ \A u \in Tasks \ {t} : task'[u] = task[u]
    BY <1>1, <1>4, ReturnSet
  <1>5. CASE task[t].conn # c
    <2>1. task'[t].conn # c /\ \A u \in Tasks \ {t} : task'[u] = task[u]
      BY <1>3, <1>4, <1>5, IdleType, Distinct
    <2>2. \A f \in forwards' : f[1] = c => f \in forwards  BY <1>1, <1>5
    <2>3. QED  BY <1>1, <1>5, <2>1, <2>2, AsideTask
  <1>6. CASE task[t].conn = c
    <2>1. ok  BY <1>1, <1>6
    <2>2. \A u \in Tasks \ {t} : task[u].conn # c  BY <1>6, Owned
    <2>3. Deploying(t) /\ Answered(t) /\ Deploying(t)'
      BY <1>1, <1>3, <2>1 DEF Deploying, Answered
    <2>4. ~Stopping(c)'  BY <1>1, <1>6, <2>3 DEF Account, Called, Stopping
    <2>5. \A f \in forwards : f[1] = c /\ f[2] = task[t].node => f[3] <= task[t].epoch
      BY <1>6, <2>3 DEF Account, Latest
    <2>6. \A f \in forwards' : f[1] = c /\ f[2] = task[t].node => f[3] <= task[t].epoch
      BY <1>1, <1>2, <2>5
    <2>7. live'[task'[t].node] /\ task'[t].epoch = epoch'[task'[t].node]
            => c \in running'[task'[t].node]
      BY <1>1, <1>3, <1>6, <2>1, <2>3 DEF Account, Started
    <2>8. QED  BY <1>3, <1>6, <2>1, <2>2, <2>3, <2>4, <2>6, <2>7, Deploys
  <1>7. QED  BY <1>5, <1>6

\* The deploy hands over to the row.
LEMMA AccountFinish ==
  ASSUME TypeOK, Assigned, Numbered, NEW t \in Tasks, DeployFinish(t),
         NEW c \in Conns \ upset', InHand(c), Account(c)
  PROVE  Account(c)'
  <1>1. /\ task[t].pc = "finish" /\ Return(t)
        /\ SetRow(task[t].conn, task[t].node, "deployed")
        /\ UNCHANGED <<forwards, live, epoch, running, jobs, reply>>
        /\ UNCHANGED <<nodeVars, clientVars>>
    BY DEF DeployFinish, tableVars, nodeVars, clientVars
  <1>2. task[t].conn \in Conns /\ task[t].node \in Nodes /\ task[t].epoch \in Nat
    BY <1>1, Distinct DEF Assigned, Fits, TypeOK
  <1>3. task'[t] = Idle /\ \A u \in Tasks \ {t} : task'[u] = task[u]
    BY <1>1, ReturnSet
  <1>4. task'[t].conn # c  BY <1>3, IdleType, Distinct
  <1>5. CASE task[t].conn # c
    <2>1. conn'[c] = conn[c]  BY <1>1, <1>2, <1>5 DEF SetRow, TypeOK
    <2>2. QED  BY <1>1, <1>3, <1>4, <1>5, <2>1, AsideTask
  <1>6. CASE task[t].conn = c
    <2>1. \A u \in Tasks : task'[u].conn # c  BY <1>3, <1>4, <1>6, Owned
    <2>2. Deploying(t) /\ Answered(t)  BY <1>1 DEF Deploying, Answered
    <2>3. ~Stopping(c)'  BY <1>1, <1>6, <2>2 DEF Account, Called, Stopping
    <2>4. conn'[c].status = "deployed" => conn'[c].node = task[t].node
      <3>1. Stage(c, "finish", task[t].node)  BY <1>1, <1>6, Owned
      <3>2. conn[c].status = "pending"  BY <3>1 DEF Stage
      <3>3. conn'[c] = [node |-> task[t].node, status |-> "deployed"]
        BY <1>1, <1>6, <3>2 DEF SetRow, TypeOK
      <3>4. QED  BY <3>3
    <2>5. Latest(c)' /\ Started(c)'  BY <2>1 DEF Latest, Started
    <2>6. Called(c)'  BY <2>3 DEF Called
    <2>7. ASSUME NEW n \in Nodes, conn'[c] = [node |-> n, status |-> "deployed"], live[n],
                 <<c, n, epoch[n]>> \in forwards
          PROVE  c \in running[n]
      <3>1. n = task[t].node  BY <2>4, <2>7
      <3>2. task[t].epoch <= epoch[n] /\ epoch[n] \in Nat
        BY <2>2, <3>1, Distinct DEF Numbered, TypeOK
      <3>3. epoch[n] <= task[t].epoch
        <4>1. PICK f \in forwards : f = <<c, n, epoch[n]>>  BY <2>7
        <4>2. f[1] = c /\ f[2] = task[t].node /\ f[3] = epoch[n]  BY <3>1, <4>1
        <4>3. f[3] <= task[t].epoch  BY <1>6, <2>2, <4>2 DEF Account, Latest
        <4>4. QED  BY <4>2, <4>3
      <3>4. task[t].epoch = epoch[n]  BY <1>2, <3>2, <3>3
      <3>5. QED  BY <1>6, <2>2, <2>7, <3>1, <3>4 DEF Account, Started
    <2>8. Kept(c)'  BY <1>1, <2>7 DEF Kept
    <2>9. QED  BY <2>5, <2>6, <2>8 DEF Account
  <1>7. QED  BY <1>5, <1>6

LEMMA AccountDeployStep ==
  ASSUME TypeOK, Assigned, Senders, Receivers, Numbered, NEW t \in Tasks, DeployStep(t),
         NEW c \in Conns \ upset', InHand(c), Account(c)
  PROVE  Account(c)'
  <1>1. CASE TryDeploy(t)
    <2>1. /\ task[t].pc = "try"
          /\ UNCHANGED <<dbVars, nodeVars, running, tableVars>>
      BY <1>1 DEF TryDeploy
    <2>2. task[t].conn \in Conns  BY <2>1 DEF Assigned, Fits
    <2>3. CASE Deploy(t, task[t].conn)  BY <2>1, <2>2, <2>3, AccountDeploy
    <2>4. CASE Return(t) /\ UNCHANGED <<jobs, reply>>
      BY <2>1, <2>4, AccountReturn DEF clientVars
    <2>5. QED  BY <1>1, <2>3, <2>4 DEF TryDeploy
  <1>2. CASE DeployRecord(t)  BY <1>2, AccountRecord
  <1>3. CASE DeployDropped(t) \/ DeployTimeout(t)
    <2>1. /\ task[t].pc = "wait" /\ GiveUp(t) /\ Return(t)
          /\ UNCHANGED <<dbVars, nodeVars, clientVars, tableVars>>
      BY <1>3 DEF DeployDropped, DeployTimeout
    <2>2. \A u \in Tasks \ {t} : reply'[u] = "answered" => reply[u] = "answered"
      BY <2>1 DEF GiveUp, TypeOK
    <2>3. QED  BY <2>1, <2>2, AccountReturn
  <1>4. CASE DeployWire(t)  BY <1>4, AccountWire
  <1>5. CASE DeployFinish(t)  BY <1>5, AccountFinish
  <1>6. QED  BY <1>1, <1>2, <1>3, <1>4, <1>5 DEF DeployStep

\* A request: the row, if it is deployed, is about to be stopped.
LEMMA AccountChange ==
  ASSUME TypeOK, Assigned, Receivers, Numbered, NEW d \in Conns, NEW then, NEW x,
         ChangeConnection(d, then, x), NEW c \in Conns \ upset', Account(c)
  PROVE  Account(c)'
  <1>1. PICK r : /\ task' = [task EXCEPT ![Api] = r] /\ r.conn = d
                 /\ r.pc \in {"stop_wait", "stop_routes", "update"}
                 /\ conn[d].status = "deployed" => r.pc # "update"
    <2>1. CASE conn[d].status = "deployed" /\ conn[d].node # None /\ reg[conn[d].node]
      BY <2>1, Zenon DEF ChangeConnection
    <2>2. CASE conn[d].status = "deployed" /\ ~(conn[d].node # None /\ reg[conn[d].node])
      BY <2>2 DEF ChangeConnection
    <2>3. CASE conn[d].status # "deployed"
      BY <2>3 DEF ChangeConnection
    <2>4. QED  BY <2>1, <2>2, <2>3
  <1>2. /\ task[Api].pc = "idle" /\ Api \in Tasks
        /\ \/ Request(Api, "stop", d, conn[d].node)
           \/ UNCHANGED <<jobs, reply>>
        /\ upset' = IF Busy(d) = {} THEN upset ELSE upset \cup {d}
        /\ UNCHANGED <<conn, forwards, live, epoch, running>>
    BY Distinct DEF ChangeConnection, dbVars, nodeVars, tableVars
  <1>3. task[Api].conn # c  BY <1>2, IdleType, Distinct DEF Assigned, Fits
  <1>4. task'[Api] = r /\ \A u \in Tasks \ {Api} : task'[u] = task[u]
    BY <1>1, <1>2 DEF TypeOK
  <1>5. CASE c # d
    <2>1. \A u \in Tasks : (task'[u].conn = c <=> task[u].conn = c)
                          /\ (task[u].conn = c => task'[u] = task[u])
      BY <1>1, <1>3, <1>4, <1>5
    <2>2. \A u \in Tasks : reply'[u] # "answered" \/ reply'[u] = reply[u]
      BY <1>2 DEF Request, Swap
    <2>3. Stopping(c)' => Stopping(c)
      BY <1>2, <1>5 DEF Request, Stopping
    <2>4. \A n \in Nodes : Steady(c, n)  BY <1>2 DEF Steady
    <2>5. QED  BY <1>2, <2>1, <2>2, <2>3, <2>4, Aside
  <1>6. CASE c = d
    <2>1. \A u \in Tasks \ {Api} : task'[u].conn # c  BY <1>2, <1>4, <1>6 DEF Busy
    <2>2. ~Deploying(Api)' /\ task'[Api].conn = c
      BY <1>1, <1>4, <1>6 DEF Deploying
    <2>3. conn'[c].status = "deployed" => Ending(Api)'
      BY <1>1, <1>2, <1>4, <1>6 DEF Ending
    <2>4. QED  BY <1>2, <2>1, <2>2, <2>3, NoDeploy
  <1>7. QED  BY <1>5, <1>6

\* What a task does to its row once its routes and loops are gone.
LEMMA AccountStopStep ==
  ASSUME TypeOK, Assigned, Numbered, NEW t \in Tasks, StopStep(t),
         NEW c \in Conns \ upset', InHand(c), Account(c)
  PROVE  Account(c)'
  <1>0. /\ task[t].pc # "idle" => task[t].conn \in Conns
        /\ \A f \in forwards' : f \in forwards
        /\ \A u \in Tasks : reply'[u] = "answered" => reply[u] = "answered"
        /\ UNCHANGED <<nodeVars, clientVars>>
    BY DEF StopStep, StopWait, StopRoutes, StopTracker, StopDb, UpdateConnection, Untrack,
           tableVars, Assigned, Fits, TypeOK
  <1>1. CASE StopWait(t) \/ StopRoutes(t) \/ StopTracker(t)
    <2>1. PICK pc \in {"stop_routes", "stop_tracker", "stop_db"} : Goto(t, pc)
      BY <1>1 DEF StopWait, StopRoutes, StopTracker
    <2>2. task[t].pc \in {"stop_wait", "stop_routes", "stop_tracker"} /\ UNCHANGED conn
      BY <1>1 DEF StopWait, StopRoutes, StopTracker, dbVars
    <2>3. /\ task'[t].pc = pc /\ task'[t].conn = task[t].conn
          /\ \A u \in Tasks \ {t} : task'[u] = task[u]
      BY <1>0, <2>1, <2>2, GotoSet DEF PCs
    <2>4. CASE task[t].conn # c  BY <1>0, <2>2, <2>3, <2>4, AsideTask
    <2>5. CASE task[t].conn = c
      <3>1. \A u \in Tasks \ {t} : task'[u].conn # c  BY <2>3, <2>5, Owned
      <3>2. ~Deploying(t)' /\ Ending(t)'  BY <2>3 DEF Deploying, Ending
      <3>3. QED  BY <2>3, <2>5, <3>1, <3>2, NoDeploy
    <2>6. QED  BY <2>4, <2>5
  <1>2. CASE StopDb(t)
    <2>1. task[t].pc = "stop_db" /\ Goto(t, "update") /\ SetRow(task[t].conn, None, "pending")
      BY <1>2 DEF StopDb
    <2>2. /\ task'[t].pc = "update" /\ task'[t].conn = task[t].conn
          /\ \A u \in Tasks \ {t} : task'[u] = task[u]
      BY <1>0, <2>1, GotoSet DEF PCs
    <2>3. CASE task[t].conn # c
      <3>1. conn'[c] = conn[c]  BY <1>0, <2>1, <2>3 DEF SetRow, TypeOK
      <3>2. QED  BY <1>0, <2>2, <2>3, <3>1, AsideTask
    <2>4. CASE task[t].conn = c
      <3>1. \A u \in Tasks \ {t} : task'[u].conn # c  BY <2>2, <2>4, Owned
      <3>2. ~Deploying(t)'  BY <2>2 DEF Deploying
      <3>3. conn'[c].status # "deployed"  BY <2>1, <2>4 DEF SetRow, TypeOK
      <3>4. QED  BY <2>2, <2>4, <3>1, <3>2, <3>3, NoDeploy
    <2>5. QED  BY <2>3, <2>4
  <1>3. CASE UpdateConnection(t)
    <2> DEFINE d == task[t].conn
    <2>1. task[t].pc = "update"  BY <1>3 DEF UpdateConnection
    <2>2. d \in Conns  BY <1>0, <2>1
    <2>3. PICK x :
            /\ conn' = conn \/ conn' = [conn EXCEPT ![d] = x]
            /\ x.status = "deleted" \/ x.status = conn[d].status
      BY <1>3 DEF UpdateConnection, SetRow
    <2>4. /\ conn'[c] = conn[c] \/ c = d
          /\ conn[d].status # "deployed" => conn'[d].status # "deployed"
      BY <2>2, <2>3 DEF TypeOK
    <2>5. \A u \in Tasks : task'[u] = task[u] \/ task'[u].conn = None
                          \/ (task'[u].conn = d /\ task'[u].pc = "try")
      <3>1. CASE Return(t)  BY <3>1, ReturnSet, IdleType
      <3>2. ASSUME NEW b \in Background, task[b].pc = "idle",
                   task' = [task EXCEPT ![t] = Idle,
                                        ![b] = [Idle EXCEPT !.pc = "try", !.conn = d]]
            PROVE  \A u \in Tasks : task'[u] = task[u] \/ task'[u].conn = None
                                   \/ (task'[u].conn = d /\ task'[u].pc = "try")
        BY <3>2, IdleType DEF TypeOK, Idle
      <3>3. QED  BY <1>3, <3>1, <3>2 DEF UpdateConnection
    <2>6. \A u \in Tasks : task[u].pc # "idle" /\ u # t => task'[u] = task[u]
      <3>1. CASE Return(t)  BY <3>1, ReturnSet
      <3>2. ASSUME NEW b \in Background, task[b].pc = "idle",
                   task' = [task EXCEPT ![t] = Idle,
                                        ![b] = [Idle EXCEPT !.pc = "try", !.conn = d]]
            PROVE  \A u \in Tasks : task[u].pc # "idle" /\ u # t => task'[u] = task[u]
        BY <3>2 DEF TypeOK
      <3>3. QED  BY <1>3, <3>1, <3>2 DEF UpdateConnection
    <2> HIDE DEF d
    <2>7. CASE c # d
      <3>1. \A u \in Tasks : task[u].conn = c => task[u].pc # "idle" /\ u # t
        BY <2>7, IdleType, Distinct DEF Assigned, Fits, d
      <3>2. \A u \in Tasks : (task'[u].conn = c <=> task[u].conn = c)
                            /\ (task[u].conn = c => task'[u] = task[u])
        BY <2>5, <2>6, <2>7, <3>1, Distinct
      <3>3. /\ \A n \in Nodes : Steady(c, n)
            /\ Stopping(c)' => Stopping(c)
        BY <1>0 DEF Steady, Stopping, nodeVars, clientVars
      <3>4. QED  BY <1>0, <2>4, <2>7, <3>2, <3>3, Aside
    <2>8. CASE c = d
      <3>1. \A u \in Tasks : u # t => task[u].conn # c
        BY <2>8, Owned DEF d
      <3>2. ASSUME NEW u \in Tasks, task'[u].conn = c PROVE ~Deploying(u)'
        <4>1. task'[u] = task[u] => u = t  BY <3>1, <3>2
        <4>2. task'[u].pc = "try" \/ (u = t /\ task'[u].pc = "update")
          BY <2>1, <2>5, <3>2, <4>1, Distinct
        <4>3. QED  BY <4>2 DEF Deploying
      <3>3. conn[c].status # "deployed"  BY <2>1, <2>8, Owned DEF Stage, d
      <3>4. QED  BY <2>4, <2>8, <3>2, <3>3, NoDeploy
    <2>9. QED  BY <2>7, <2>8
  <1>4. QED  BY <1>1, <1>2, <1>3 DEF StopStep

\* Docker that does not fail: a start adds the container, a stop takes it away.
LEMMA AccountJob ==
  ASSUME TypeOK, Assigned, Senders, Numbered, ~DockerFails, NEW j \in jobs, JobDone(j),
         NEW c \in Conns \ upset', Account(c)
  PROVE  Account(c)'
  <1>1. PICK n \in Nodes, d \in Conns : n = j.node /\ d = j.conn  BY DEF TypeOK, Jobs
  <1>2. /\ jobs' = jobs \ {j} /\ UNCHANGED <<task, conn, forwards, live, epoch>>
        /\ running' = [running EXCEPT ![n] = IF j.kind = "start" THEN running[n] \cup {d}
                                             ELSE running[n] \ {d}]
        /\ Swap(n, d, None, "answered") \/ UNCHANGED reply
    BY <1>1 DEF JobDone, Outcomes, dbVars, tableVars, nodeVars
  <1>3. j.kind \in {"start", "stop"}  BY DEF TypeOK, Jobs
  <1>4. Stopping(c)' => Stopping(c)  BY <1>2 DEF Stopping
  <1>5. \A u \in Tasks : reply'[u] = "answered" /\ reply[u] # "answered" =>
                           u = pending[n][d] /\ Sender(u, n, d)
    <2> SUFFICES ASSUME NEW u \in Tasks, reply'[u] = "answered", reply[u] # "answered"
        PROVE  u = pending[n][d] /\ Sender(u, n, d)
      OBVIOUS
    <2>1. u = pending[n][d]  BY <1>2 DEF Swap
    <2>2. QED  BY <2>1, SenderIs, Distinct
  <1>6. CASE c # d
    <2>1. \A u \in Tasks : task[u].conn = c /\ reply'[u] = "answered" => reply[u] = "answered"
      BY <1>5, <1>6 DEF Sender
    <2>2. \A m \in Nodes : Steady(c, m)  BY <1>2, <1>6 DEF Steady, TypeOK
    <2>3. QED  BY <1>2, <1>4, <2>1, <2>2, Aside
  <1>7. CASE c = d /\ j.kind = "stop"
    <2>1. Stopping(c)  BY <1>1, <1>7 DEF Stopping
    <2>2. \A u \in Tasks : task'[u].conn = c => ~Deploying(u)'
      BY <1>2, <2>1 DEF Account, Called, Deploying
    <2>3. conn'[c].status = "deployed" => \E u \in Tasks : task'[u].conn = c /\ Ending(u)'
      BY <1>2, <2>1 DEF Account, Called, Ending
    <2>4. QED  BY <2>2, <2>3, NoDeploy
  <1>8. CASE c = d /\ j.kind = "start"
    <2>1. c \in running'[n] /\ \A m \in Nodes : c \in running[m] => c \in running'[m]
      BY <1>2, <1>8 DEF TypeOK
    <2>2. Latest(c)' /\ Called(c)'
      BY <1>2, <1>4 DEF Account, Latest, Called, Deploying, Ending
    <2>3. Kept(c)'
      BY <1>2, <2>1 DEF Account, Kept
    <2>4. Started(c)'
      <3> SUFFICES ASSUME NEW t \in Tasks, task'[t].conn = c, Answered(t)',
                          live'[task'[t].node], task'[t].epoch = epoch'[task'[t].node]
                   PROVE  c \in running'[task'[t].node]
        BY DEF Started
      <3>1. task'[t] = task[t] /\ Deploying(t)  BY <1>2 DEF Answered, Deploying
      <3>2. task[t].node \in Nodes  BY <3>1 DEF Deploying, Assigned, Fits
      <3>3. CASE Answered(t)
        BY <1>2, <2>1, <3>1, <3>2, <3>3 DEF Account, Started
      <3>4. CASE ~Answered(t)
        <4>1. reply'[t] = "answered" /\ reply[t] # "answered"
          BY <3>1, <3>4 DEF Answered
        <4>2. task[t].node = n  BY <1>5, <4>1 DEF Sender
        <4>3. QED  BY <2>1, <3>1, <4>2
      <3>5. QED  BY <3>3, <3>4
    <2>5. QED  BY <2>2, <2>3, <2>4 DEF Account
  <1>9. QED  BY <1>3, <1>6, <1>7, <1>8

\* A report answers for the containers that run.
LEMMA AccountReport ==
  ASSUME TypeOK, Assigned, Senders, Numbered, NEW n \in Nodes, Report(n),
         NEW c \in Conns \ upset', Account(c)
  PROVE  Account(c)'
  <1>1. /\ reply' = [t \in Tasks |->
                       IF (\E d \in running[n] : pending[n][d] = t) /\ reply[t] = "none"
                         THEN "answered" ELSE reply[t]]
        /\ UNCHANGED <<task, conn, forwards, live, epoch, running, jobs>>
    BY DEF Report, dbVars, tableVars, clientVars
  <1>2. Latest(c)' /\ Called(c)' /\ Kept(c)'
    BY <1>1 DEF Account, Latest, Called, Kept, Stopping, Deploying, Ending
  <1>3. Started(c)'
    <2> SUFFICES ASSUME NEW t \in Tasks, task'[t].conn = c, Answered(t)',
                        live'[task'[t].node], task'[t].epoch = epoch'[task'[t].node]
                 PROVE  c \in running'[task'[t].node]
      BY DEF Started
    <2>1. task'[t] = task[t] /\ Deploying(t)  BY <1>1 DEF Answered, Deploying
    <2>2. CASE Answered(t)  BY <1>1, <2>1, <2>2 DEF Account, Started
    <2>3. CASE ~Answered(t)
      <3>1. reply'[t] # reply[t]  BY <1>1, <2>1, <2>3 DEF Answered
      <3>2. PICK d \in running[n] : pending[n][d] = t  BY <1>1, <3>1
      <3>3. d \in Conns  BY <3>2 DEF TypeOK
      <3>4. Sender(t, n, d)  BY <3>2, <3>3, SenderIs, Distinct
      <3>5. c = d /\ task[t].node = n  BY <2>1, <3>4 DEF Sender
      <3>6. QED  BY <1>1, <2>1, <3>2, <3>5
    <2>4. QED  BY <2>2, <2>3
  <1>4. QED  BY <1>2, <1>3 DEF Account

LEMMA AccountNode ==
  ASSUME TypeOK, Assigned, Numbered, NEW n \in Nodes,
         NodeUp(n) \/ NodeDrop(n) \/ GhostGone(n) \/ CacheExpired(n),
         NEW c \in Conns \ upset', Account(c)
  PROVE  Account(c)'
  <1>1. UNCHANGED <<task, reply, conn, forwards, jobs>>
    BY DEF NodeUp, NodeDrop, GhostGone, CacheExpired, dbVars, tableVars, clientVars
  <1>2. ASSUME NEW m \in Nodes PROVE Steady(c, m)
    <2>1. CASE NodeUp(n)
      <3>1. epoch[n] \in Nat  BY Distinct DEF TypeOK
      <3>2. QED  BY <2>1, <3>1 DEF NodeUp, Steady, TypeOK, clientVars
    <2>2. CASE NodeDrop(n)  BY <2>2 DEF NodeDrop, Steady, TypeOK, clientVars
    <2>3. CASE GhostGone(n)  BY <2>3 DEF GhostGone, Steady, TypeOK, clientVars
    <2>4. CASE CacheExpired(n)  BY <2>4 DEF CacheExpired, Steady, TypeOK, nodeVars
    <2>5. QED  BY <2>1, <2>2, <2>3, <2>4
  <1>3. Stopping(c)' => Stopping(c)  BY <1>1 DEF Stopping
  <1>4. QED  BY <1>1, <1>2, <1>3, Aside

LEMMA AccountConsume ==
  ASSUME TypeOK, Assigned, Numbered, Consume \/ UNCHANGED vars,
         NEW c \in Conns \ upset', Account(c)
  PROVE  Account(c)'
  <1>1. UNCHANGED <<task, reply, forwards, live, epoch, running, jobs>>
    BY DEF Consume, ApplyConnected, ApplyDisconnected, RemoveByNode, nodeVars, clientVars,
           tableVars, vars
  <1>2. conn'[c].status = "deployed" => conn'[c] = conn[c]
    <2>1. ASSUME NEW n \in Nodes, ApplyDisconnected(n)
          PROVE  conn'[c].status = "deployed" => conn'[c] = conn[c]
      BY <2>1 DEF ApplyDisconnected, MarkRows
    <2>2. QED  BY <2>1 DEF Consume, ApplyConnected, RemoveByNode, dbVars, vars
  <1>3. \A n \in Nodes : Steady(c, n)  BY <1>1 DEF Steady
  <1>4. Stopping(c)' => Stopping(c)  BY <1>1 DEF Stopping
  <1>5. QED  BY <1>1, <1>2, <1>3, <1>4, Aside

LEMMA AccountStep ==
  ASSUME DInv, Senders, Receivers, Numbered, Accounts, ~DockerFails, [Next]_vars
  PROVE  Accounts'
  <1> USE DEF DInv
  <1>1. CASE Restart
    <2> SUFFICES ASSUME NEW c \in Conns \ upset' PROVE Account(c)'
      BY DEF Accounts
    <2>1. /\ \A u \in Tasks : task'[u].conn # c
          /\ conn'[c].status # "deployed"
      BY <1>1, IdleType, Distinct DEF Restart
    <2>2. QED  BY <2>1, NoDeploy
  <1>2. CASE ~Restart
    <2> SUFFICES ASSUME NEW c \in Conns \ upset' PROVE Account(c)'
      BY DEF Accounts
    <2>0. InHand(c) /\ Account(c)  BY <1>2, UpsetGrows DEF AllInHand, Accounts
    <2>1. ASSUME NEW d \in Conns, AutoCheck(d) PROVE Account(c)'
      <3>1. /\ Deploy(Api, d) /\ task[Api].pc = "idle" /\ Api \in Tasks
            /\ UNCHANGED <<dbVars, nodeVars, running, tableVars>>
        BY <2>1, Distinct DEF AutoCheck
      <3>2. task[Api] = Idle  BY <3>1 DEF Assigned, Fits
      <3>3. QED  BY <2>0, <3>1, <3>2, AccountDeploy
    <2>2. ASSUME NEW d \in Conns, NEW then, NEW x, ChangeConnection(d, then, x)
          PROVE  Account(c)'
      BY <2>0, <2>2, AccountChange
    <2>3. ASSUME NEW t \in Tasks, DeployStep(t) PROVE Account(c)'
      BY <2>0, <2>3, AccountDeployStep
    <2>4. CASE StopStep(Api)  BY <2>0, <2>4, AccountStopStep, Distinct
    <2>5. ASSUME NEW j \in jobs, JobDone(j) PROVE Account(c)'
      BY <2>0, <2>5, AccountJob
    <2>6. ASSUME NEW n \in Nodes,
                 NodeUp(n) \/ Report(n) \/ NodeDrop(n) \/ GhostGone(n) \/ CacheExpired(n)
          PROVE  Account(c)'
      BY <2>0, <2>6, AccountReport, AccountNode
    <2>7. CASE Consume \/ UNCHANGED vars  BY <2>0, <2>7, AccountConsume
    <2>8. QED
      BY <1>2, <2>1, <2>2, <2>3, <2>4, <2>5, <2>6, <2>7 DEF Next
  <1>3. QED  BY <1>1, <1>2

-----------------------------------------------------------------------------
(* Oneshots and numbers, step by step.                                     *)

LEMMA SentDeploy ==
  ASSUME TypeOK, Assigned, Senders, Receivers, Numbered, NEW t \in Tasks, NEW d \in Conns,
         Deploy(t, d), task[t].pc \in {"idle", "try"}, UNCHANGED <<nodeVars, tableVars>>
  PROVE  Senders' /\ Receivers' /\ Numbered'
  <1> DEFINE n == conn[d].node
             r == [Idle EXCEPT !.pc = "wait", !.conn = d, !.node = n, !.epoch = epoch[n]]
  <1>1. MayDeploy(d) /\ task' = [task EXCEPT ![t] = r] /\ Request(t, "start", d, n)
    BY DEF Deploy
  <1>2. r.pc = "wait" /\ r.conn = d /\ r.node = n /\ r.epoch = epoch[n]  BY DEF Idle
  <1>3. n \in Nodes  BY <1>1 DEF MayDeploy, TypeOK
  <1>4. ~Waits(t) /\ UNCHANGED <<epoch, forwards>>  BY DEF Waits, nodeVars, tableVars
  <1> HIDE DEF r, n
  <1>5. Senders' /\ Receivers'  BY <1>1, <1>2, <1>3, <1>4, OneshotRequest
  <1>6. Numbered'  BY <1>1, <1>2, <1>3, <1>4, NumberedDeploy
  <1>7. QED  BY <1>5, <1>6

LEMMA SentDeployStep ==
  ASSUME TypeOK, Assigned, Senders, Receivers, Numbered, NEW t \in Tasks, DeployStep(t)
  PROVE  Senders' /\ Receivers' /\ Numbered'
  <1>0. epoch' \in [Nodes -> 0..MaxUps] /\ UNCHANGED epoch
        /\ \A n \in Nodes : epoch'[n] >= epoch[n]
    BY Distinct
    DEF DeployStep, TryDeploy, DeployRecord, DeployDropped, DeployTimeout, DeployWire,
        DeployFinish, nodeVars, TypeOK
  <1>1. CASE TryDeploy(t)
    <2>1. task[t].pc = "try" /\ UNCHANGED <<nodeVars, tableVars>>  BY <1>1 DEF TryDeploy
    <2>2. task[t].conn \in Conns  BY <2>1 DEF Assigned, Fits
    <2>3. CASE Deploy(t, task[t].conn)  BY <2>1, <2>2, <2>3, SentDeploy
    <2>4. CASE Return(t) /\ UNCHANGED <<pending, reply>>
      <3>1. task'[t] = Idle /\ \A u \in Tasks \ {t} : task'[u] = task[u]
        BY <2>4, ReturnSet
      <3>2. \A u \in Tasks : Waits(u) => task'[u] = task[u]  BY <2>1, <3>1 DEF Waits
      <3>3. \A u \in Tasks : Deploying(u)' => Deploying(u) /\ task'[u] = task[u]
        BY <3>1, IdleType DEF Deploying
      <3>4. forwards' \subseteq forwards  BY <2>1 DEF tableVars
      <3>5. QED  BY <1>0, <2>4, <3>2, <3>3, <3>4, OneshotKeep, NumberedKeep
    <2>5. QED  BY <1>1, <2>3, <2>4 DEF TryDeploy
  <1>2. CASE DeployRecord(t)
    <2>1. /\ task[t].pc = "wait" /\ reply[t] = "answered" /\ Goto(t, "wire")
          /\ reply' = [reply EXCEPT ![t] = "none"] /\ UNCHANGED <<pending, forwards>>
      BY <1>2 DEF DeployRecord
    <2>2. /\ \A u \in Tasks \ {t} : task'[u] = task[u]
          /\ task'[t].node = task[t].node /\ task'[t].epoch = task[t].epoch
      BY <2>1 DEF Goto, TypeOK
    <2>3. \A n \in Nodes, c \in Conns :
            pending'[n][c] # None => pending'[n][c] = pending[n][c] /\ pending[n][c] # t
      BY <2>1 DEF Senders, Sender
    <2>4. Senders' /\ Receivers'  BY <1>0, <2>1, <2>2, <2>3, OneshotDone
    <2>5. \A u \in Tasks : Deploying(u)' =>
            Deploying(u) /\ task'[u].node = task[u].node /\ task'[u].epoch = task[u].epoch
      BY <2>1, <2>2 DEF Deploying
    <2>6. Numbered'  BY <1>0, <2>1, <2>5, NumberedKeep
    <2>7. QED  BY <2>4, <2>6
  <1>3. CASE DeployDropped(t) \/ DeployTimeout(t)
    <2>1. task[t].pc = "wait" /\ GiveUp(t) /\ Return(t) /\ UNCHANGED tableVars
      BY <1>3 DEF DeployDropped, DeployTimeout
    <2>2. Senders' /\ Receivers'  BY <1>0, <2>1, OneshotGiveUp
    <2>3. \A u \in Tasks : Deploying(u)' => Deploying(u) /\ task'[u] = task[u]
      BY <2>1, ReturnSet, IdleType DEF Deploying
    <2>4. forwards' \subseteq forwards  BY <2>1 DEF tableVars
    <2>5. QED  BY <1>0, <2>2, <2>3, <2>4, NumberedKeep
  <1>4. CASE DeployWire(t)
    <2>1. /\ task[t].pc = "wire"
          /\ Goto(t, "finish") \/ Return(t)
          /\ UNCHANGED <<pending, reply>>
      BY <1>4 DEF DeployWire
    <2>2. \A u \in Tasks : Waits(u) => task'[u] = task[u]
      BY <2>1 DEF Goto, Return, Waits, TypeOK
    <2>3. QED  BY <1>0, <1>4, <2>1, <2>2, OneshotKeep, NumberedWire
  <1>5. CASE DeployFinish(t)
    <2>1. /\ task[t].pc = "finish" /\ Return(t)
          /\ UNCHANGED <<pending, reply>> /\ forwards' \subseteq forwards
      BY <1>5 DEF DeployFinish, tableVars
    <2>2. \A u \in Tasks : Waits(u) => task'[u] = task[u]
      BY <2>1 DEF Return, Waits, TypeOK
    <2>3. \A u \in Tasks : Deploying(u)' => Deploying(u) /\ task'[u] = task[u]
      BY <2>1, ReturnSet, IdleType DEF Deploying
    <2>4. QED  BY <1>0, <2>1, <2>2, <2>3, OneshotKeep, NumberedKeep
  <1>6. QED  BY <1>1, <1>2, <1>3, <1>4, <1>5 DEF DeployStep

LEMMA SentChange ==
  ASSUME TypeOK, Senders, Receivers, Numbered, NEW d \in Conns, NEW then, NEW x,
         ChangeConnection(d, then, x)
  PROVE  Senders' /\ Receivers' /\ Numbered'
  <1> DEFINE old == conn[d].node
  <1>1. /\ task[Api].pc = "idle" /\ Api \in Tasks
        /\ UNCHANGED <<epoch, forwards>>
    BY Distinct DEF ChangeConnection, nodeVars, tableVars
  <1>2. PICK r :
          /\ task' = [task EXCEPT ![Api] = r] /\ r.conn = d /\ r.node = old
          /\ \/ /\ Request(Api, "stop", d, old) /\ old \in Nodes
                /\ r.pc = "stop_wait" /\ r.epoch = epoch[old]
             \/ /\ UNCHANGED <<pending, reply>> /\ r.pc \in {"stop_routes", "update"}
    <2>1. old # None => old \in Nodes  BY DEF TypeOK
    <2>2. CASE conn[d].status = "deployed" /\ old # None /\ reg[old]
      <3> DEFINE r == [pc |-> "stop_wait", conn |-> d, node |-> old, epoch |-> epoch[old],
                       then |-> then, target |-> x]
      <3>1. Request(Api, "stop", d, old) /\ task' = [task EXCEPT ![Api] = r]
        BY <2>2 DEF ChangeConnection
      <3>2. r.conn = d /\ r.node = old /\ r.pc = "stop_wait" /\ r.epoch = epoch[old]
        OBVIOUS
      <3> HIDE DEF r
      <3>3. QED  BY <2>1, <2>2, <3>1, <3>2
    <2>3. CASE conn[d].status = "deployed" /\ ~(old # None /\ reg[old])
      BY <2>3 DEF ChangeConnection
    <2>4. CASE conn[d].status # "deployed"  BY <2>4 DEF ChangeConnection
    <2>5. QED  BY <2>2, <2>3, <2>4
  <1> HIDE DEF old
  <1>3. task'[Api] = r /\ \A u \in Tasks \ {Api} : task'[u] = task[u]
    BY <1>1, <1>2 DEF TypeOK
  <1>4. ~Waits(Api)  BY <1>1 DEF Waits
  <1>5. Senders' /\ Receivers'
    <2>1. CASE UNCHANGED <<pending, reply>>
      <3>1. \A u \in Tasks : Waits(u) => task'[u] = task[u]  BY <1>3, <1>4
      <3>2. QED  BY <1>1, <2>1, <3>1, OneshotKeep
    <2>2. CASE Request(Api, "stop", d, old) /\ old \in Nodes /\ r.pc = "stop_wait"
               /\ r.epoch = epoch[old]
      BY <1>1, <1>2, <1>4, <2>2, OneshotRequest
    <2>3. QED  BY <1>2, <2>1, <2>2
  <1>6. \A u \in Tasks : Deploying(u)' => Deploying(u) /\ task'[u] = task[u]
    BY <1>2, <1>3 DEF Deploying
  <1>7. Numbered'  BY <1>1, <1>6 DEF Numbered, Deploying
  <1>8. QED  BY <1>5, <1>7

LEMMA SentStopStep ==
  ASSUME TypeOK, Assigned, Senders, Receivers, Numbered, NEW t \in Tasks, StopStep(t)
  PROVE  Senders' /\ Receivers' /\ Numbered'
  <1>0. /\ UNCHANGED epoch /\ epoch' \in [Nodes -> 0..MaxUps]
        /\ \A n \in Nodes : epoch'[n] >= epoch[n]
        /\ forwards' \subseteq forwards
    BY Distinct
    DEF StopStep, StopWait, StopRoutes, StopTracker, StopDb, UpdateConnection, Untrack,
        nodeVars, tableVars, TypeOK
  <1>1. /\ \A u \in Tasks : Deploying(u)' => Deploying(u) /\ task'[u] = task[u]
        /\ \A u \in Tasks \ {t} : Waits(u) => task'[u] = task[u]
    <2>1. ASSUME NEW pc \in {"stop_routes", "stop_tracker", "stop_db", "update"}, Goto(t, pc)
          PROVE  /\ \A u \in Tasks : Deploying(u)' => Deploying(u) /\ task'[u] = task[u]
                 /\ \A u \in Tasks \ {t} : Waits(u) => task'[u] = task[u]
      <3>1. task'[t].pc = pc /\ \A u \in Tasks \ {t} : task'[u] = task[u]
        BY <2>1 DEF Goto, TypeOK
      <3>2. QED  BY <3>1 DEF Deploying
    <2>2. ASSUME NEW b \in Background, task[b].pc = "idle", NEW c,
                 task' = [task EXCEPT ![t] = Idle,
                                      ![b] = [Idle EXCEPT !.pc = "try", !.conn = c]]
          PROVE  /\ \A u \in Tasks : Deploying(u)' => Deploying(u) /\ task'[u] = task[u]
                 /\ \A u \in Tasks \ {t} : Waits(u) => task'[u] = task[u]
      <3>1. /\ task'[b].pc = "try" /\ task'[t].pc \in {"idle", "try"}
            /\ \A u \in Tasks \ {t, b} : task'[u] = task[u]
        BY <2>2, Distinct DEF Idle, TypeOK
      <3>2. QED  BY <2>2, <3>1 DEF Deploying, Waits
    <2>3. CASE Return(t)  BY <2>3, ReturnSet, IdleType DEF Deploying
    <2>4. QED
      BY <2>1, <2>2, <2>3
      DEF StopStep, StopWait, StopRoutes, StopTracker, StopDb, UpdateConnection
  <1>2. Numbered'  BY <1>0, <1>1, NumberedKeep
  <1>3. Senders' /\ Receivers'
    <2>1. CASE StopWait(t)
      <3>1. /\ pending' = [n \in Nodes |-> [c \in Conns |->
                            IF pending[n][c] = t THEN None ELSE pending[n][c]]]
            /\ reply' = [reply EXCEPT ![t] = "none"]
            /\ \A u \in Tasks \ {t} : task'[u] = task[u]
        BY <2>1 DEF StopWait, Goto, TypeOK
      <3>2. \A n \in Nodes, c \in Conns :
              pending'[n][c] # None => pending'[n][c] = pending[n][c] /\ pending[n][c] # t
        BY <3>1
      <3>3. QED  BY <1>0, <3>1, <3>2, OneshotDone
    <2>2. CASE ~StopWait(t)
      <3>1. UNCHANGED <<pending, reply>> /\ ~Waits(t)
        BY <2>2
        DEF StopStep, StopRoutes, StopTracker, StopDb, UpdateConnection, Waits
      <3>2. QED  BY <1>0, <1>1, <3>1, OneshotKeep
    <2>3. QED  BY <2>1, <2>2
  <1>4. QED  BY <1>2, <1>3

LEMMA SentNode ==
  ASSUME TypeOK, Assigned, Senders, Receivers, Numbered, NEW n \in Nodes,
         NodeUp(n) \/ Report(n) \/ NodeDrop(n) \/ GhostGone(n) \/ CacheExpired(n)
  PROVE  Senders' /\ Receivers' /\ Numbered'
  <1>1. UNCHANGED <<task, forwards>>
    BY DEF NodeUp, Report, NodeDrop, GhostGone, CacheExpired, tableVars
  <1>2. \A u \in Tasks : Deploying(u)' => Deploying(u) /\ task'[u] = task[u]
    BY <1>1 DEF Deploying
  <1>3. CASE NodeUp(n)
    <2>1. /\ pending' = [pending EXCEPT ![n] = [c \in Conns |-> None]]
          /\ epoch' = [epoch EXCEPT ![n] = epoch[n] + 1] /\ epoch[n] < MaxUps
          /\ UNCHANGED reply
      BY <1>3 DEF NodeUp
    <2>2. \A m \in Nodes, c \in Conns : pending'[m][c] # None =>
            pending'[m][c] = pending[m][c] /\ epoch'[m] = epoch[m]
      BY <2>1 DEF TypeOK
    <2>3. Senders' /\ Receivers'  BY <1>1, <2>1, <2>2, OneshotUsed
    <2>4. epoch' \in [Nodes -> 0..MaxUps] /\ \A m \in Nodes : epoch'[m] >= epoch[m]
      <3>1. \A m \in Nodes : epoch[m] \in 0..MaxUps  BY DEF TypeOK
      <3>2. epoch[n] + 1 \in 0..MaxUps  BY <2>1, <3>1, Distinct
      <3>3. QED  BY <2>1, <3>1, <3>2, Distinct DEF TypeOK
    <2>5. QED  BY <1>1, <1>2, <2>3, <2>4, NumberedKeep
  <1>4. CASE ~NodeUp(n)
    <2>1. UNCHANGED epoch
      BY <1>4 DEF Report, NodeDrop, GhostGone, CacheExpired, nodeVars
    <2>2. Numbered'  BY <1>1, <2>1 DEF Numbered, Deploying
    <2>3. CASE Report(n)  BY <2>2, <2>3, OneshotReport
    <2>4. CASE ~Report(n)
      <3>1. UNCHANGED <<pending, reply>>
        BY <1>4, <2>4 DEF NodeDrop, GhostGone, CacheExpired
      <3>2. QED  BY <1>1, <2>1, <2>2, <3>1, OneshotKeep
    <2>5. QED  BY <2>3, <2>4
  <1>5. QED  BY <1>3, <1>4

LEMMA SentStep ==
  ASSUME TypeOK, Assigned, Senders, Receivers, Numbered, [Next]_vars
  PROVE  Senders' /\ Receivers' /\ Numbered'
  <1>1. ASSUME NEW d \in Conns, AutoCheck(d) PROVE Senders' /\ Receivers' /\ Numbered'
    BY <1>1, SentDeploy, Distinct DEF AutoCheck
  <1>2. ASSUME NEW d \in Conns, NEW then, NEW x, ChangeConnection(d, then, x)
        PROVE  Senders' /\ Receivers' /\ Numbered'
    BY <1>2, SentChange
  <1>3. ASSUME NEW j \in jobs, JobDone(j) PROVE Senders' /\ Receivers' /\ Numbered'
    <2>1. UNCHANGED <<task, forwards, epoch>>  BY <1>3 DEF JobDone, tableVars, nodeVars
    <2>2. Numbered'  BY <2>1 DEF Numbered, Deploying
    <2>3. QED  BY <1>3, <2>2, OneshotJob
  <1>4. CASE Consume \/ UNCHANGED vars
    <2>1. UNCHANGED <<task, forwards, epoch, pending, reply>>
      BY <1>4 DEF Consume, ApplyConnected, ApplyDisconnected, RemoveByNode, nodeVars,
                  tableVars, vars
    <2>2. Numbered'  BY <2>1 DEF Numbered, Deploying
    <2>3. QED  BY <2>1, <2>2, OneshotKeep
  <1>5. CASE Restart
    BY <1>5, IdleType DEF Restart, Senders, Receivers, Numbered, Deploying
  <1>6. QED
    BY <1>1, <1>2, <1>3, <1>4, <1>5, Distinct, SentDeployStep, SentStopStep, SentNode
    DEF Next

LEMMA RInit == Init => RInv
  <1> SUFFICES ASSUME Init PROVE RInv
    OBVIOUS
  <1>1. Senders /\ Receivers /\ Numbered
    BY IdleType DEF Init, Senders, Receivers, Numbered, Deploying
  <1>2. ASSUME NEW c \in Conns PROVE Account(c)
    <2>1. Latest(c) /\ Called(c) /\ Kept(c)
      BY DEF Init, Latest, Called, Kept, Stopping
    <2>2. Started(c)  BY IdleType, Distinct DEF Init, Started
    <2>3. QED  BY <2>1, <2>2 DEF Account
  <1>3. QED  BY <1>1, <1>2, InitInv DEF RInv, Accounts

LEMMA RStep == ~DockerFails /\ RInv /\ [Next]_vars => RInv'
  <1> SUFFICES ASSUME ~DockerFails, RInv, [Next]_vars PROVE RInv'
    OBVIOUS
  <1>1. DInv'  BY StepInv DEF RInv
  <1>2. Senders' /\ Receivers' /\ Numbered'  BY SentStep DEF RInv, DInv
  <1>3. Accounts'  BY AccountStep DEF RInv
  <1>4. QED  BY <1>1, <1>2, <1>3 DEF RInv
-----------------------------------------------------------------------------
(* Theorems.                                                               *)

THEOREM Invariance == Spec => []DInv
  <1>1. QED  BY InitInv, StepInv, PTL DEF Spec

\* Every task's connection, node and channel exist, and what the tables hold names
\* connections and nodes.
THEOREM TypeCorrect == Spec => []TypeOK
  <1>1. DInv => TypeOK  BY DEF DInv
  <1>2. QED  BY <1>1, Invariance, PTL

\* SQLite, the deployment tracker and the route table agree on every connection
\* that nobody is working on and that none of the races has upset (deploy.rs:14-249).
THEOREM TablesAgree == Spec => []Agreement
  <1>1. ASSUME DInv PROVE Agreement
    <2> SUFFICES ASSUME NEW c \in Conns \ upset, Busy(c) = {}, cleaning = None
        PROVE  IF conn[c].status = "deployed"
                 THEN /\ RoutesOf(c) = PathSet(c)
                      /\ \A n \in Nodes : <<c, n>> \in tracker <=> n = conn[c].node
                 ELSE /\ RoutesOf(c) = {}
                      /\ \A n \in Nodes : <<c, n>> \notin tracker
      BY DEF Agreement
    <2>1. \A t \in Tasks : task[t].conn # c  BY DEF Busy
    <2>2. Rest(c)  BY <1>1, <2>1 DEF DInv, AllInHand, InHand
    <2>3. QED  BY <2>2 DEF Rest, Full, Left, Clean
  <1>2. QED  BY <1>1, Invariance, PTL

\* Where docker does not fail, a connection that is served has its container once
\* docker has come to rest: jobs of dead channels, late reports and the client's
\* cache clean-up never leave routes and accept loops without it
\* (deploy.rs:97-126, server.rs:780, client.rs:664).
THEOREM ServedOnesRun == ~DockerFails => (Spec => []ServedRuns)
  <1> SUFFICES ASSUME ~DockerFails PROVE Spec => []ServedRuns
    OBVIOUS
  <1>1. ASSUME RInv PROVE ServedRuns
    <2> SUFFICES ASSUME NEW c \in Conns \ upset, NEW n \in Nodes, Served(c, n), live[n],
                        Busy(c) = {}
                 PROVE  c \in running[n]
      BY DEF ServedRuns
    <2>1. Kept(c)  BY <1>1 DEF RInv, Accounts, Account
    <2>2. \A t \in Tasks : task[t].conn # c  BY DEF Busy
    <2>3. QED  BY <2>1, <2>2 DEF Kept, Served
  <1>2. RInv /\ [Next]_vars => RInv'  BY RStep
  <1>3. QED  BY <1>1, <1>2, RInit, PTL DEF Spec
=============================================================================
