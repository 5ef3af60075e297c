---------------------------- MODULE NodeRegistry ----------------------------
(***************************************************************************)
(* The server side of node identity: how control channels resolve the uuid *)
(* of the machine behind them, register it and clean up after themselves,  *)
(* and how the resulting node updates reach SQLite.                        *)
(*                                                                         *)
(* A channel is one run of ControlChannel::run (tunnel/src/server.rs); its *)
(* handler of ReportNodeStatus gives up control at every lock and every    *)
(* send, so it is split into one action per critical section and the       *)
(* channels interleave between them.  The cleanup task that follows run is *)
(* split the same way.  A client process runs one control loop per         *)
(* configured service, each with a digest and a uuid of its own; all the   *)
(* services of a machine share one persisted node_id file, which they read *)
(* when the process starts and write when the server assigns a uuid.  Two  *)
(* things the handler of a report does are not part of this module:        *)
(* resolving pending docker replies, which is in module Deployment, and    *)
(* evicting the handle of an older channel through uuid_index and          *)
(* control_channels, two maps that no operation of this module reads and   *)
(* that are in module DataChannel.                                         *)
(***************************************************************************)
EXTENDS Naturals, Sequences, FiniteSets

CONSTANTS
  Machines,     \* client machines; each runs one kdctc process
  Services,     \* entries of [client.services] over all machines
  MachineOf,    \* the machine a service is configured on
  Digests,      \* service digests
  DigestOf,     \* the digest each service presents in its hello
  Uuids,        \* uuids the server can generate (Uuid::new_v4)
  Chans,        \* control connections, and so channel ids; each is made once
  OwnerOf,      \* the service that makes a connection
  UpdateCap,    \* capacity of the node-update channel (1024 in the code)
  MaxRestarts,  \* bound: restarts of kdcts
  MaxLosses,    \* bound: node_id files lost or copied to another machine
  None          \* Option::None

ASSUME RegistryAssumption ==
  /\ MachineOf \in [Services -> Machines]
  /\ DigestOf \in [Services -> Digests]
  /\ OwnerOf \in [Chans -> Services]
  /\ UpdateCap \in Nat \ {0}
  /\ MaxRestarts \in Nat /\ MaxLosses \in Nat
  /\ None \notin Uuids \cup Digests \cup Chans

VARIABLES
  file,              \* client: content of ~/.kdct/node_id of a machine
  slot,              \* client: the uuid a service's control loop holds
  link,              \* the TCP connection under a channel; "late": down, with
                     \* one more report left for the server to read
  assign,            \* AssignNodeUuid on its way to the client
  pc,                \* where the channel's task stands
  online,            \* run: online_uuids, the snapshot of the registry's keys
  uuid,              \* the uuid the client claims, and then the one the current
                     \* report resolved to
  node_uuid,         \* self.node_uuid and its mirror node_uuid_slot
  bindings,          \* node uuid -> service digest
  clients,           \* the registry: node uuid -> channel whose senders it holds
  updates,           \* the node-update channel
  db_digest,         \* client_nodes.auth_digest (None: no row)
  db_status,         \* client_nodes.status
  used,              \* uuids generated so far: new_v4 never repeats one
  restarts, losses   \* bounds

clientVars == <<file, slot, link, assign>>
localVars  == <<online, uuid, node_uuid>>
sharedVars == <<bindings, clients>>
dbVars     == <<db_digest, db_status>>
boundVars  == <<used, restarts, losses>>
vars == <<clientVars, pc, localVars, sharedVars, updates, dbVars,
          boundVars>>

Digest(c) == DigestOf[OwnerOf[c]]

Connected(c) == [type |-> "Connected", uuid |-> uuid[c], digest |-> Digest(c)]
Disconnected(c) ==
  [type |-> "Disconnected", uuid |-> node_uuid[c], digest |-> Digest(c)]
Events == [type : {"Connected", "Disconnected"}, uuid : Uuids, digest : Digests]

\* The handler of one report runs through resolve, upsert and announce, the end of
\* the task through cleanup.
PCs == {"unused", "idle", "resolve", "upsert", "announce", "cleanup", "gone"}

TypeOK ==
  /\ file \in [Machines -> Uuids \cup {None}]
  /\ slot \in [Services -> Uuids \cup {None}]
  /\ link \in [Chans -> {"none", "up", "late", "down"}]
  /\ assign \in [Chans -> Uuids \cup {None}]
  /\ pc \in [Chans -> PCs]
  /\ online \in [Chans -> SUBSET Uuids]
  /\ uuid \in [Chans -> Uuids \cup {None}]
  /\ node_uuid \in [Chans -> Uuids \cup {None}]
  /\ bindings \in [Uuids -> Digests \cup {None}]
  /\ clients \in [Uuids -> Chans \cup {None}]
  /\ updates \in Seq(Events)
  /\ db_digest \in [Uuids -> Digests \cup {None}]
  /\ db_status \in [Uuids -> {"online", "offline"}]
  /\ used \in SUBSET Uuids
  /\ restarts \in 0..MaxRestarts
  /\ losses \in 0..MaxLosses

Init ==
  /\ file = [m \in Machines |-> None]
  /\ slot = [s \in Services |-> None]
  /\ link = [c \in Chans |-> "none"]
  /\ assign = [c \in Chans |-> None]
  /\ pc = [c \in Chans |-> "unused"]
  /\ online = [c \in Chans |-> {}]
  /\ uuid = [c \in Chans |-> None]
  /\ node_uuid = [c \in Chans |-> None]
  /\ bindings = [u \in Uuids |-> None]
  /\ clients = [u \in Uuids |-> None]
  /\ updates = <<>>
  /\ db_digest = [u \in Uuids |-> None]
  /\ db_status = [u \in Uuids |-> "offline"]
  /\ used = {}
  /\ restarts = 0
  /\ losses = 0

-----------------------------------------------------------------------------
(***************************************************************************)
(* The client's half.                                                      *)
(***************************************************************************)

Offline(s) == \A c \in Chans : OwnerOf[c] = s => link[c] # "up"

\* The control loop of a service reconnects only after its previous run() has
\* returned.  It reports the uuid it holds right after the handshake and then at
\* every tick and heartbeat; the server only looks at the uuid of the first report,
\* so the claim is taken down here and the reports themselves are ReadReport.
Connect(c) ==
  /\ pc[c] = "unused"
  /\ Offline(OwnerOf[c])
  /\ link' = [link EXCEPT ![c] = "up"]
  /\ uuid' = [uuid EXCEPT ![c] = slot[OwnerOf[c]]]
  /\ pc' = [pc EXCEPT ![c] = "idle"]
  /\ UNCHANGED <<file, slot, assign, online, node_uuid, sharedVars, updates,
                 dbVars, boundVars>>

\* AssignNodeUuid, which run writes to the connection once it is back in its
\* loop: the service saves the uuid to the machine's file first, then adopts it.
SaveAssigned(c) ==
  /\ link[c] = "up"
  /\ pc[c] = "idle"
  /\ assign[c] # None
  /\ file' = [file EXCEPT ![MachineOf[OwnerOf[c]]] = assign[c]]
  /\ slot' = [slot EXCEPT ![OwnerOf[c]] = assign[c]]
  /\ assign' = [assign EXCEPT ![c] = None]
  /\ UNCHANGED <<link, pc, localVars, sharedVars, updates, dbVars, boundVars>>

\* The connection breaks or the client stops, also because it could not save its
\* uuid.  A report the server has not read yet may or may not still reach it.
ClientDrop(c) ==
  /\ link[c] = "up"
  /\ \E l \in {"late", "down"} : link' = [link EXCEPT ![c] = l]
  /\ assign' = [assign EXCEPT ![c] = None]
  /\ UNCHANGED <<file, slot, pc, localVars, sharedVars, updates, dbVars, boundVars>>

\* The client process of a machine is started, and every service loads the file.
\* While the client was down the file may have been lost or damaged (x = None), or
\* replaced by a copy of another machine's (a cloned disk).
StartClient(m, x) ==
  /\ \A s \in Services : MachineOf[s] = m => Offline(s)
  /\ \/ x = file[m] /\ losses' = losses
     \/ /\ x # file[m] /\ losses < MaxLosses
        /\ x \in {None} \cup {file[n] : n \in Machines}
        /\ losses' = losses + 1
  /\ file' = [file EXCEPT ![m] = x]
  /\ slot' = [s \in Services |-> IF MachineOf[s] = m THEN x ELSE slot[s]]
  /\ UNCHANGED <<link, assign, pc, localVars, sharedVars, updates, dbVars, used,
                 restarts>>

-----------------------------------------------------------------------------
(***************************************************************************)
(* The control channel's task.                                             *)
(***************************************************************************)

\* A report is read and the registry's keys are copied.  A channel that already
\* has an identity keeps it, whatever the report claims.
ReadReport(c) ==
  /\ pc[c] = "idle"
  /\ link[c] \in {"up", "late"}
  /\ link' = [link EXCEPT ![c] = IF @ = "late" THEN "down" ELSE @]
  /\ IF node_uuid[c] # None
       THEN /\ uuid' = [uuid EXCEPT ![c] = node_uuid[c]]
            /\ pc' = [pc EXCEPT ![c] = "upsert"]
            /\ UNCHANGED online
       ELSE /\ pc' = [pc EXCEPT ![c] = "resolve"]
            /\ online' = [online EXCEPT ![c] =
                            {u \in Uuids : clients[u] # None}]
            /\ UNCHANGED uuid
  /\ UNCHANGED <<file, slot, assign, node_uuid, sharedVars, updates, dbVars,
                 boundVars>>

BoundTo(d) == {u \in Uuids : bindings[u] = d}

\* [only] if !online_uuids.contains(only)
SoloOffline(c) ==
  {u \in BoundTo(Digest(c)) :
     BoundTo(Digest(c)) = {u} /\ u \notin online[c]}

FreshUuid == CHOOSE u \in Uuids : u \notin used

AssignFresh(c) ==
  /\ used # Uuids
  /\ uuid' = [uuid EXCEPT ![c] = FreshUuid]
  /\ bindings' = [bindings EXCEPT ![FreshUuid] = Digest(c)]
  /\ assign' = [assign EXCEPT ![c] = IF link[c] = "up" THEN FreshUuid ELSE None]
  /\ used' = used \cup {FreshUuid}

RestoreSolo(c) ==
  /\ \E u \in SoloOffline(c) :
       /\ uuid' = [uuid EXCEPT ![c] = u]
       /\ assign' = [assign EXCEPT ![c] = IF link[c] = "up" THEN u ELSE None]
  /\ UNCHANGED <<bindings, used>>

AcceptClaim(c) ==
  /\ bindings' = [bindings EXCEPT ![uuid[c]] = Digest(c)]
  /\ UNCHANGED <<uuid, assign, used>>

\* Bug: a claim of a uuid that another digest owns is accepted.
ResolveUnchecked(c) ==
  IF uuid[c] # None
    THEN AcceptClaim(c)
    ELSE IF SoloOffline(c) # {} THEN RestoreSolo(c) ELSE AssignFresh(c)

\* Bug: an unbound claim gets a fresh uuid.
ResolveDistrustful(c) ==
  IF uuid[c] # None /\ bindings[uuid[c]] = Digest(c)
    THEN AcceptClaim(c)
    ELSE IF uuid[c] = None /\ SoloOffline(c) # {}
           THEN RestoreSolo(c) ELSE AssignFresh(c)

\* Under the write lock of bindings: accept the claim if it is bound to our
\* digest or to nobody, restore the one offline uuid of a digest if nothing is
\* claimed, and otherwise bind a fresh one.
Decide(c) ==
  IF uuid[c] # None /\ bindings[uuid[c]] \in {Digest(c), None}
    THEN AcceptClaim(c)
    ELSE IF uuid[c] = None /\ SoloOffline(c) # {}
           THEN RestoreSolo(c) ELSE AssignFresh(c)

Resolve(c) ==
  /\ pc[c] = "resolve"
  /\ Decide(c)
  /\ online' = [online EXCEPT ![c] = {}]
  /\ pc' = [pc EXCEPT ![c] = "upsert"]
  /\ UNCHANGED <<file, slot, link, node_uuid, clients, updates, dbVars,
                 restarts, losses>>

\* Bug: a channel that is already registered does not register again.
UpsertOnce(c) ==
  /\ clients' = IF node_uuid[c] = None THEN [clients EXCEPT ![uuid[c]] = c]
                                       ELSE clients
  /\ node_uuid' = [node_uuid EXCEPT ![c] = uuid[c]]

\* registry::upsert, then node_uuid and its slot, which only this task uses.
Upsert(c) ==
  /\ clients' = [clients EXCEPT ![uuid[c]] = c]
  /\ node_uuid' = [node_uuid EXCEPT ![c] = uuid[c]]

RegisterClient(c) ==
  /\ pc[c] = "upsert"
  /\ Upsert(c)
  /\ pc' = [pc EXCEPT ![c] = "announce"]
  /\ UNCHANGED <<clientVars, online, uuid, bindings, updates,
                 dbVars, boundVars>>

\* NodeEvent::Connected; the send waits while the channel is full.
AnnounceConnected(c) ==
  /\ pc[c] = "announce"
  /\ Len(updates) < UpdateCap
  /\ updates' = Append(updates, Connected(c))
  /\ pc' = [pc EXCEPT ![c] = "idle"]
  /\ uuid' = [uuid EXCEPT ![c] = None]
  /\ UNCHANGED <<clientVars, online, node_uuid, sharedVars,
                 dbVars, boundVars>>

\* Bug: Disconnected is sent whether or not the channel has a uuid.
FarewellAlways(c) ==
  /\ Len(updates) < UpdateCap
  /\ updates' = Append(updates, Disconnected(c))
  /\ pc' = [pc EXCEPT ![c] = "cleanup"]

\* NodeEvent::Disconnected, for a channel that has reported at least once.
Farewell(c) ==
  \/ /\ node_uuid[c] # None
     /\ Len(updates) < UpdateCap
     /\ updates' = Append(updates, Disconnected(c))
     /\ pc' = [pc EXCEPT ![c] = "cleanup"]
  \/ /\ node_uuid[c] = None
     /\ updates' = updates
     /\ pc' = [pc EXCEPT ![c] = "gone"]

\* The read (or a write) fails once everything the client sent has been read, and
\* run returns, after waiting for room in the node-update channel.
AnnounceDisconnected(c) ==
  /\ pc[c] = "idle"
  /\ link[c] = "down"
  /\ Farewell(c)
  /\ uuid' = [uuid EXCEPT ![c] = None]
  /\ UNCHANGED <<clientVars, online, node_uuid, sharedVars, dbVars, boundVars>>

\* Bug: only the channel that is no longer registered removes the entry.
RemoveStale(c) ==
  clients' = IF clients[node_uuid[c]] = c THEN clients
             ELSE [clients EXCEPT ![node_uuid[c]] = None]

\* registry::remove, whoever holds the entry.
Remove(c) == clients' = [clients EXCEPT ![node_uuid[c]] = None]

\* The cleanup task, once run has returned: the channel's own state goes too.
CleanRegistry(c) ==
  /\ pc[c] = "cleanup"
  /\ Remove(c)
  /\ node_uuid' = [node_uuid EXCEPT ![c] = None]
  /\ pc' = [pc EXCEPT ![c] = "gone"]
  /\ UNCHANGED <<clientVars, online, uuid, bindings, updates, dbVars,
                 boundVars>>

-----------------------------------------------------------------------------
(***************************************************************************)
(* The task in kdcts/src/main.rs that applies node updates to SQLite, and  *)
(* a restart of kdcts.                                                     *)
(***************************************************************************)

\* Bug: a node that disconnects loses its binding.
ApplyForgetful(e) ==
  /\ db_digest' = [db_digest EXCEPT ![e.uuid] =
                     IF e.type = "Connected" THEN e.digest ELSE None]
  /\ db_status' = [db_status EXCEPT ![e.uuid] =
                     IF e.type = "Connected" THEN "online" ELSE "offline"]

\* upsert_node, or set_node_offline.
Apply(e) ==
  /\ db_digest' = IF e.type = "Connected"
                    THEN [db_digest EXCEPT ![e.uuid] = e.digest]
                    ELSE db_digest
  /\ db_status' = [db_status EXCEPT ![e.uuid] =
                     IF e.type = "Connected" THEN "online" ELSE "offline"]

ApplyUpdate ==
  /\ updates # <<>>
  /\ Apply(Head(updates))
  /\ updates' = Tail(updates)
  /\ UNCHANGED <<clientVars, pc, localVars, sharedVars, boundVars>>

\* kdcts stops at any moment and comes back: everything in memory is gone, every
\* node is marked offline and the bindings are read back from client_nodes.
Restart ==
  /\ restarts < MaxRestarts
  /\ restarts' = restarts + 1
  /\ pc' = [c \in Chans |-> IF pc[c] = "unused" THEN "unused" ELSE "gone"]
  /\ link' = [c \in Chans |-> IF link[c] = "none" THEN "none" ELSE "down"]
  /\ assign' = [c \in Chans |-> None]
  /\ online' = [c \in Chans |-> {}]
  /\ uuid' = [c \in Chans |-> None]
  /\ node_uuid' = [c \in Chans |-> None]
  /\ bindings' = db_digest
  /\ clients' = [u \in Uuids |-> None]
  /\ updates' = <<>>
  /\ db_status' = [u \in Uuids |-> "offline"]
  /\ UNCHANGED <<file, slot, db_digest, used, losses>>

ReportStep(c) ==
  ReadReport(c) \/ Resolve(c) \/ RegisterClient(c)
     \/ AnnounceConnected(c)

CloseStep(c) ==
  AnnounceDisconnected(c) \/ CleanRegistry(c)

Next ==
  \/ \E m \in Machines, x \in Uuids \cup {None} : StartClient(m, x)
  \/ \E c \in Chans :
       \/ Connect(c) \/ SaveAssigned(c) \/ ClientDrop(c)
       \/ ReportStep(c) \/ CloseStep(c)
  \/ ApplyUpdate
  \/ Restart

Spec == Init /\ [][Next]_vars

\* tokio keeps running every ready task, a client keeps reporting while it is
\* connected, and waiting senders of a full channel are served in order, hence
\* strong fairness of the two sends.  Nothing is assumed of the network, of
\* Restart, or of the client saving what it is sent.
Fairness ==
  /\ WF_vars(ApplyUpdate)
  /\ \A c \in Chans :
       /\ WF_vars(ReportStep(c)) /\ SF_vars(AnnounceConnected(c))
       /\ WF_vars(CloseStep(c)) /\ SF_vars(AnnounceDisconnected(c))

FairSpec == Spec /\ Fairness

-----------------------------------------------------------------------------
(***************************************************************************)
(* Properties.                                                             *)
(***************************************************************************)

\* Whoever the registry hands out under a uuid authenticated with the digest the
\* uuid is bound to: the spoof check of ReportNodeStatus holds for every order of
\* reports, late reports, evictions, cleanups and restarts.
BoundIdentity ==
  \A u \in Uuids : clients[u] # None => bindings[u] = Digest(clients[u])

\* The digest recorded for a uuid in client_nodes never changes, so the spoof
\* check survives restarts, as the comment on load_bindings says.
DigestStable ==
  [][\A u \in Uuids : db_digest[u] # None => db_digest'[u] = db_digest[u]]_vars

\* The registry never names a channel whose task has ended: nobody can pick up
\* the senders of a dead channel for good.
NoDeadEntry ==
  \A u \in Uuids :
    clients[u] # None => pc[clients[u]] \notin {"unused", "gone"}

\* The server renames a service that has a uuid only if another digest owns that
\* uuid, also when kdcts crashes between binding a uuid and recording it in SQLite.
\* How the service came by a uuid of another digest is not the server's doing: the
\* file was replaced, or another service of the machine has written its own to it.
IdentityKept ==
  [][\A c \in Chans :
       (SaveAssigned(c) /\ slot[OwnerOf[c]] \notin {None, assign[c]})
         => bindings[slot[OwnerOf[c]]] \notin {Digest(c), None}]_vars

\* A channel whose connection stays up is in the end registered and its node
\* online for good, whatever stale channels of the same uuid did on their way
\* out: the next periodic report repairs the registry and the database.
StaysRegistered ==
  \A c \in Chans :
    <>[](link[c] = "up")
      => <>[](/\ node_uuid[c] # None
              /\ clients[node_uuid[c]] \in {d \in Chans : link[d] = "up"}
              /\ db_status[node_uuid[c]] = "online")
=============================================================================
