# A TLA+ model of KDCT

KDCT publishes containers that run on client machines behind NAT under one
domain. `kdcts` (server) keeps a pool of ports, a reverse proxy, a SQLite
database and a panel API; `kdctc` (client) keeps one control channel to the
server, runs docker on request and dials data channels back through which
visitors are forwarded. This directory models the protocol between the two and
the shared state inside `kdcts`. Paths below are relative to `src/`; `server.rs`,
`client.rs`, `registry.rs`, `port_pool.rs`, `multi_map.rs`, `protocol.rs` are in
`crates/tunnel/src`, the other `.rs` files in `crates/kdcts/src`.

`PROJECT.json` is the machine-readable side: every modelled definition with its
source lines, every run, the mutants that show each property can fail, the
findings, the hazards and the theorems.

## 1. Inventory

| Component | State | Operations | Interacts with |
|---|---|---|---|
| Control channels (`server.rs`) | `control_channels` (a two-key map of handles), `uuid_index`, one task per channel with `node_uuid`, `pending_docker` | control handshake, `ReportNodeStatus`, docker replies, requests for data channels, farewell, cleanup | registry, bindings, node updates, client |
| Registry and bindings (`registry.rs`) | `ClientRegistry` uuid → senders, `NodeBindings` uuid → digest | `upsert`, `remove`, bind | channels write, deploys read |
| Client identity (`client.rs`) | `node_id` file of the machine, a copy of it in each service | load at start, claim, save an assigned uuid | server |
| Client session (`client.rs`) | reconnect loop with backoff, `disconnected_at`, `cleanup_done`, two timers, tracked containers, docker jobs | connect, report every 5 s and on HeartBeat (with `docker ps`), heartbeat timeout, start and stop images, clean up after the TTL, shut down | server, docker |
| Node updates (`main.rs`, `db.rs`) | bounded channel of 1024, `client_nodes` | apply Connected and Disconnected, reload bindings at start | channels send; tracker and routes are torn down |
| Port pool (`port_pool.rs`) | `listeners`, `free`, `assignments` | `new`, `reserve_one`, `release_by_port`, `accept` | bridges API, deploys, accept loops |
| Bridges API (`api.rs`, `db.rs`) | rows of `bridges` and `bridge_ports` | create, delete, add a port, remove a port | port pool |
| Connections API (`api.rs`) | rows of `connections` | create, patch, delete, auto-check, background deploys | deploy and stop |
| Images (`image.rs`, `db.rs`) | rows of `image_nodes`, clone directories | load from git or Docker Hub | connections refer to them |
| Deploy and stop (`deploy.rs`, `deployment_tracker.rs`) | tracker, `active_forwards`, `pending_docker` entries | `deploy_connection`, `stop_connection`, `remove_by_node` | registry, routes, pool, database, client |
| Reverse proxy (`proxy.rs`) | `RouteTable` path → port | `set`, `remove_by_port`, `resolve`, `upstream_peer` | deploys write, requests read |
| Data channels (`server.rs`, `client.rs`) | `data_ch_req`, `data_ch`, `port_data_callbacks`, accept loops | ask, CreateDataChannel, dial, hello, hand over, forward, shut down | control channel, pool ports |
| UDP relay (`server.rs`, `client.rs`) | `port_map` behind an RwLock, a forwarder with a queue per peer, an outbound queue | frame, forward, time out, clean up | data channel, local service |
| Wire protocol (`protocol.rs`) | none | read and write hello, auth, ack, commands, UDP frames | all of the above |
| Settings, TLS, ACME (`acme.rs`, `main.rs`, `api.rs`) | settings rows, `account.json`, `cert.pem`, `key.pem`, challenge map, who owns `http_port` | decide at start, issue, renew daily, toggle, restart | proxy, certificate authority |
| Configuration, transport, panel, docker search | none that outlives a call | parsing, sockets, UI | |

What makes the system hard to test:

* **Interleaving.** Every channel, deploy, accept loop and the node-update task is
  a tokio task; state is behind many small locks, so each handler gives up
  control between them. The registry's snapshot, the bindings and the entry are
  taken under three locks; a deploy checks for a conflict minutes before it wires.
* **Failure.** Connections break with reports still readable on the server side,
  commands are lost, docker fails or outlasts its timeout, kdcts restarts and keeps
  SQLite but not memory, a `node_id` file is lost or copied; a certificate and its key
  are two files, and the process can stop between them.
* **Ordering.** Disconnected of an old channel can follow Connected of the new one;
  a data channel can arrive before the callback that should take it; a read that
  `select!` drops half way leaves the next one inside a frame.
* **Timeouts.** A deploy waits 660 s and a stop 30 s for docker; late answers go to
  whoever has a sender in the map by then. Ages are measured from moments that are
  never reset (`disconnected_at`) or reset by anything (the heartbeat sleep).
* **Waiting in circles.** Queues of bounded size and a lock that is taken twice
  connect the server's UDP loop, the client's reader, the forwarders and the writer.

What makes each part correct: a uuid belongs to one digest for ever and the
registry only names live channels of that digest (control channels); ports are
neither leaked nor given out twice (pool and bridges); the longest prefix wins
(proxy); database, tracker and routes agree, requests end, and a connection whose
node comes back is served again (deploy); every visitor that waits has a data
channel coming (data channels); datagrams and commands arrive at most once and in
order (UDP relay, wire); orphaned containers go and a silent server is noticed
(client session); the certificate served is whole and renewed in time (TLS).

## 2. Modules

One module per component; an `MC...` module where constants need definitions, and a
`..._proofs` module where there are theorems.

| Module | Models | Atomic step |
|---|---|---|
| `NodeRegistry` | handler of `ReportNodeStatus`, farewell and cleanup (`server.rs:592-786, 886-896, 504-526`), `registry.rs`, the client's `node_id` file, application of node updates, restart | one critical section or one send |
| `BridgePorts` | `port_pool.rs`, the bridge and port handlers of `api.rs`, `bridge_ports`, deployments that end | one API request, split where a reservation is made before it is stored |
| `Connections` | rows of `connections`, images and their loading, tracker keyed by name, route table by row, one node that comes and goes; extends `BridgePorts` | one API request or one stretch between two locks |
| `RouteTable` | `RouteTable` and `upstream_peer` (`proxy.rs:11-139`) | one entry of the HashMap visited |
| `Deployment` | `deploy_connection`, `stop_connection`, tracker, connections API, `pending_docker`, docker jobs of the client, Connected and Disconnected in `main.rs` | one stretch between two locks or awaits |
| `DataChannel` | requests, CreateDataChannel, dials, `do_data_channel_handshake`, `run_tcp_connection_pool`, the TCP and UDP accept loops, `control_channels` and `uuid_index` of one machine | one stretch between two awaits |
| `UdpForwarder` | one data channel that carries UDP: the server's loop, `run_data_channel_for_udp` and `run_udp_forwarder` on the client | one await: a lock, a queue, a socket |
| `ControlWire` | one direction of a control connection: `write_len_prefixed` under the writers' mutex, `read_len_prefixed` in an arm of `select!` | one byte |
| `ClientSession` | the loop of `ControlChannelHandle::new`, the `select!` of `run`, the TTL cleanup, docker jobs (`client.rs:437-711, 893-1017`) | one arm of `select!` up to an await in its body, one stretch of a job, one tick of time |
| `AutoTls` | `start_server`'s TLS decisions, `acme.rs`, both settings endpoints, restarts | one await of the ACME flow |
| `LossyLink` | nothing of the code: what a link promises, each sender's messages at most once and in order | one message |

How they fit together: `NodeRegistry` and `DataChannel` are two views of one
control channel. The first has what identifies the machine, the second what
happens on the channel afterwards; `uuid_index` is only in the second, because no
identity decision reads it. `Deployment` uses the registry as a set of nodes that
are present (`NodeRegistry` is about how they come to be in it), pool ports as
something a connection owns (`BridgePorts` is about how they are given out) and
the route table as a function (`RouteTable` is about how it is searched);
`Deploy` of `DataChannel` is the spawning of accept loops at the end of
`DeployWire` of `Deployment`. `UdpForwarder` starts where `StartForward` of
`DataChannel` ends, on one data channel. `ControlWire` carries the commands that
`NodeRegistry`, `DataChannel`, `Deployment` and `ClientSession` exchange as units;
`ClientSession` has the loop that `NodeRegistry`'s `Offline` and `Connect` and
`Deployment`'s `NodeDrop` and `CacheExpired` leave open.

Two relations between modules are formal:

* **Composition.** `Connections` extends `BridgePorts` and uses its actions: a request
  or a deploy is a step of the pool together with what it does to rows, tracker and
  routes. `Implements` proves that the composition is still a `BridgePorts`, so that
  the pool's invariants carry over. `Connections` and `Deployment` overlap on purpose:
  the first has the catalogue (rows, images, namesakes, shared ports) and takes docker's
  answer as free, the second has docker, timeouts, auto-check and background deploys
  for connections that keep their bridge and image.
* **Refinement.** `UdpForwarder` in both directions (`Up`, `Down`) and `ControlWire`
  (`Link`) are instances of `LossyLink` `WITH` their counters substituted; `UpInOrder`,
  `DownInOrder` and `InOrder` are the abstract specification as a property, and
  `UpImplements`, `DownImplements` and `LinkImplements` prove it.

State and actions, where the names alone do not say it:

* `NodeRegistry`. `pc[c]` is where the task of channel `c` stands: `resolve` after
  the snapshot `online` of the registry's keys, `upsert` after the decision under
  the bindings lock, `announce` before the send of Connected, `cleanup` after run.
  `Decide` is the `match` that yields `Resolve` in the code: `AcceptClaim`,
  `RestoreSolo`, `AssignFresh`. `file[m]` is the `node_id` file of a machine and `slot[s]` what
  a service of it loaded when the client started (`StartClient`) or was assigned since
  (`SaveAssigned` writes both): a handle is made per service (`client.rs:185-193`), each with
  its own digest, and all of them share the file. `link[c] = "late"` is a connection that is down while
  the server has one more report to read.
* `BridgePorts`. `req` is the request between `reserve_one` and
  `insert_bridge_port`; `starting` and `tracked` are the ports a deployment has
  read and recorded, which is what is released when it ends.
* `RouteTable`. The iteration order of the HashMap is free: `Visit(r)` for any
  entry that is left, until `todo` is empty.
* `Deployment`. `task[t]` is the API thread or a background deploy with its place
  and what it read at the start; `reply[t]` is its oneshot. `pending` maps a
  container of a node to the task whose sender is stored. `epoch` numbers the
  control channels of a node, so that a stale accept loop can be told from a
  present one. `ghost` is a channel whose connection is down and whose server
  task has not noticed. `upset` collects the connections that were hit by a race
  that the code does not close: two deploys of one connection at a time; a
  request that changes a connection another task works on; a deploy that has its
  answer when a Disconnected of its node is applied; wiring that fails halfway;
  a restart while deployed; a redeploy that overtakes its docker stop
  (`server.rs:780` answers the stop's request from a report while docker still works).
* `DataChannel`. Data channels are interchangeable until they are handed over, so
  each stage is a counter per control channel: `requests` → `creates` → `dials` →
  `found` → a callback, the `pool`, or `lost`. `at[d]` is the place of accept loop
  `d`; a UDP loop goes to and fro between `serving`, where it sees its shutdown, and
  `relaying`, where it writes a datagram or reads the rest of a frame and does not. `lost` and
  `early` are history: channels that never reached a taker, and
  channels pooled while a loop had asked and not yet queued its callback.
  `port_data_pending`, which the handshake looks at first, is never filled by the
  program and is left out.
* `Connections`. A route belongs to a row of `bridge_ports`, so `routes` maps rows to
  ports. `plan[c]` is what a deploy in flight has read. `stray` collects the routes that a race
  has parted from their record (section 3); `api.raced` says that the stop under way was
  overtaken between its routes and its record. `freed` says that a port in use was deleted.
* `UdpForwarder`. `lock` is the queue of the RwLock (tokio grants in order), a guard is
  the reader's place (`again`, `hand`). `dead` is a forwarder that returned through `?`
  and left its entry. `LockedOut` and `Jammed` are the two stuck states (section 6).
* `ControlWire`. Each byte carries its command and place, so that a frame put together
  from the wrong bytes is recognised; what such bytes decode to is free.
* `ClientSession`. Clocks are ages that grow with `Tick` up to one past their limit. A
  timer that is due is served before time goes on. An arm that reports (also the first report)
  is in phase `asking` while `docker ps` runs, holding the writer's lock, and `writing` until
  the report is on its way; in both no other arm is polled. `docker` says whether the docker
  daemon answers. `late`, `kept` and `crossed` are the
  containers the one cleanup misses.
* `AutoTls`. `flow` is the await at which `run_acme_flow` stands; `bound` is who owns
  `http_port`: the listener of the startup flow, Pingora's plain HTTP, or the redirect
  listener, if it could bind. `pair` says that certificate and key belong together; `torn` that a
  flow ended between replacing the two, and none has ended well since. `Serves` is a proxy with
  TLS up or plain HTTP on `http_port`.

## 3. Runs

| Run | Question | Result |
|---|---|---|
| `registry_safety` | Are uuids bound to one digest, does the registry name live channels only, and is a service renamed only with cause, for two services that share a machine's file, under all interleavings of reports, late reports, cleanups, a restart and a lost file? | holds |
| `registry_live` | Is a node whose connection stays up registered and online for good in the end? | holds |
| `catalog` | Do the pool's books balance and does every route have a record while connections, images, bridges and deployments change under each other; do two rows never share a port before a deployment ends? | holds |
| `route_table` | Is the answer the longest prefix for every table, request and order; is every route served at its own path? | holds |
| `deploy_pair` | Do database, tracker and routes agree with two connections, two nodes and slow docker? | holds |
| `deploy_live` | Does what is served have its container; do all tasks end; is a connection served again after its node is back, unless upset? | holds |
| `data_channels` | Has every waiting visitor a data channel on its way; has the pool room; is a waiting visitor served unless upset; does a stopped loop end, unless it is held for good? | holds |
| `udp_relay` | Do datagrams and answers keep their order across forwarders that come and go; is `port_map` exact; does the reader come back and the channel clean up, but for the stuck states? | holds |
| `control_wire` | Are commands handled at most once and in order, and only made up after a dropped read or an oversized payload? | holds |
| `client_session` | Does a shutdown end the loop, are orphans stopped, does the heartbeat timeout measure silence and notice it, with reports that take time? | holds |
| `auto_tls` | Can challenges be answered, is the served certificate whole and renewed, does every start end with a proxy that serves, but for torn files? | holds |
| `client_ttl` | Are containers kept warm for the TTL on every disconnect (README:108)? | violated |

The properties that hold name their exceptions, and the exceptions are where the
code departs from its documents. In words:

* **TTL.** `disconnected_at` is set once and never reset (`client.rs:664`): a short
  disconnect long after the first one stops the containers at once (`client_ttl`).
* **Shared token.** A second machine that connects while the first one is bound but
  not (yet, or any more) in the registry is taken for the first and given its uuid
  (`server.rs:661-679`). `StaysRegistered` says that the entry names a channel that is
  up, not that it names the channel in question.
* **Port reuse.** The end of a deployment releases the ports of its bridge
  (`deployment_tracker.rs:104`, `deploy.rs:229`) while the rows keep them, and the
  next reservation gives them to another row; a restart frees them all. Hence the
  condition `~torn` in `DistinctUntilTorn` and `NoCrossTalk`.
* **Shared file.** The services of a machine save the uuids they are assigned to one file
  (`client.rs:536`), which keeps the last. At the next start each of them claims that one; all
  but its owner are refused and renamed, and their old nodes stay behind as orphans, although
  README:189 calls the uuid stable. `IdentityKept` says that the server renames a service only if
  another digest owns the uuid it came with; this is such a case.
* **Namesakes.** The tracker is keyed by the connection's name, which is not unique: a
  record takes a namesake's place, whose routes stay for good.
* **Routes without a record.** `RoutesTracked` exempts (`stray`) three races and nothing else:
  a record takes the place of another one of its key (a namesake's, or of the same connection
  on another bridge after wiring that failed halfway); a record is gone between
  `record_deployment` and `table.set`; and a stop that has removed routes and not yet the
  record (`deploy.rs:226-238`) is overtaken by a new record of that name or by wiring that
  sets a route to one of its ports. A stop that leaves routes by itself violates it.
* **Held loops.** An accept loop that was told to stop does not see it while it serves
  its TCP visitor, relays a datagram or waits for a data channel. `StoppedEnds` says that the
  loop ends or stays so for good (`[]Held`), and the wait only counts if an upset is behind it; a
  UDP loop that could serve on without seeing its shutdown violates it.
* **Held session.** A handshake, the `docker ps` and the write of a report, and the `docker stop`
  of the cleanup have no timeout, and the shutdown is not polled in them: with a silent server or a
  hanging docker they hold up the loop. `ShutdownEnds` exempts behaviours where that is so
  again and again or for good (`[]<>HeldUp`). `SilenceNoticed` likewise exempts reports that
  take time for ever: the heartbeat sleep starts anew after each, and what is left of the
  status interval may be shorter than the timeout.
* **Torn files.** A flow cut off between `cert.pem` and `key.pem` leaves files with which TLS
  cannot be served, until a later flow writes both. `BootEnds` and `TlsComesUp` exempt
  this (`torn`); `BrokenOnlyIfTorn` says that nothing else brings it about.
* **Docker error.** `Ok(Ok(_))` at `deploy.rs:126` also matches an answer that is an
  `Err`: the connection is marked deployed and routed without a container. `deploy_live`
  has `DockerFails = FALSE`; with TRUE `ServedRuns` fails.
* **Deploy race.** A deploy that has its answer when its node's Disconnected is
  applied writes `deployed` afterwards; the row is no longer pending, so auto-check
  never looks at it again. Hence `upset` in `RedeployedUnlessUpset`.
* **Left accept loops.** The end of a node's deployments (`deployment_tracker.rs:86`)
  removes routes and records and leaves the accept loops to the channel; when the
  Disconnected of an old channel is applied while a newer one serves, they go on. After a
  PATCH to another node two loops listen for one port, and a visitor may be taken to a node
  whose container is gone. Hence `ServedRuns` is about the node that the row names.
* **Eviction.** A report of the old channel that is read after the new channel's
  first report removes the live channel's handle, which is inserted only once: all
  data channels of the live session are refused from then on. Hence `handle = "out"`
  in `Upset`.
* **Renewal.** The comments of `acme.rs` say that a renewal binds `http_port` and that
  its certificate is used from the next restart on; the code binds nothing and restarts
  the process itself, and `NeverExpires` needs that restart.

### Bounds

* `NodeRegistry`: two services, on one machine in the safety run (so that each may come with
  the other's uuid) and on a machine each in the liveness run; two connections of one service and
  one of the other, three uuids, an update channel of one entry (so that it is full), one restart,
  one lost or copied file. Two channels of one service give every overlap of an old and a new
  channel; the second service gives the spoofed and the shared uuid. The liveness run has one
  connection per service with a shared digest, where two channels compete for one uuid.
  Connections of a service are symmetric in the safety run. The safety properties are proved
  for all values.
* `Connections` with `BridgePorts`: two bridges, one container port each, ranges {1,2} and
  {2} so that a restart leaves a row outside the pool, two connections with names
  that may be the same, one image, one restart, two edits (loads, changes, removals,
  disconnects). Two edits are a removal while a deploy is under way, a stop beside a
  disconnect, or a replaced image and a PATCH. The five invariants are proved for all values.
* `RouteTable`: all thirteen paths up to length 3 over `/`, `a`, `b`; `/a` stands for
  `/admin`; tables of up to three routes, so that a short, a middle and a long
  match compete.
* `Deployment`: the pair run has two connections on overlapping paths, two nodes
  with one channel each, one background deploy beside the API, slow docker and one
  change or restart; the live run has one connection whose node may connect twice.
  Agreement is proved for all values, ServedRuns for all with `DockerFails = FALSE`.
* `DataChannel`: one control channel with a TCP and a UDP loop on one port, one
  visitor (of the port or of the channel's own pool, whose queue it fills), one initial
  data channel and one fault.
  Funded and PoolHasRoom do not depend on these bounds, being proved.
* `UdpForwarder`: every queue and pipe of size one; either one peer with four datagrams
  and four answers, which fill the whole circle, or two peers with up to two, which
  compete for the lock. That both directions keep their order is proved for all values.
* `ControlWire`: two writers of two commands, payloads of 1, 2 and 4 bytes with lengths
  modulo 3, so that a length is right or too small; a pipe of three bytes, shorter than most
  frames. Both properties are proved for all values.
* `ClientSession`: one container, status interval 2, a heartbeat timeout of 1, TTL 1; a backoff
  of 1 that does not grow, since no property depends on its length. A timeout above the interval, as
  the default is (40 s against 5 s), never fires; `SilenceNoticed` says nothing of it. The
  `client_ttl` run has timeouts of 1 and 3, and a backoff that grows to 2. Of the ticks of the interval that
  fall into a report one is caught up with (tokio would make up for all of them, which only
  adds reports).
* `AutoTls`: certificates of three days that are renewed within three, two failures or
  crashes, two posts; two failed days exhaust the window that a third would renew in.

`CHECK_DEADLOCK FALSE` is set where a bounded environment may run out of
connections, visitors or edits, or where the system may end, so that it is rightly at
rest. `TypeOK` is an invariant of a run, or of a proof, or both: it is proved of
`UdpForwarder` and `ControlWire`; `ClientSession` and `AutoTls` state it for the reader.

### Fairness

* tokio runs every task that can go on: weak fairness of the steps of a report,
  of a cleanup, of the node-update task, of deploys and stops, of the insertion of a
  handle and of the stages of a data channel.
* A sender that waits on a full bounded mpsc channel is served in its turn, though
  others fill the slot again: strong fairness of the sends of Connected and
  Disconnected and of the end of a ghost channel.
* Clients report every 5 seconds (`client.rs:504, 596`): weak fairness of reports.
* The waits for docker have timeouts (`deploy.rs:124`, `211-221`), and a server whose
  client is gone notices it when a heartbeat cannot be written.
* The panel posts auto-check as long as it is open: weak fairness of AutoCheck. The
  README's "auto-check loop" is this one; without an open panel nothing redeploys.
* The tasks of the UDP relay run, and a forwarder whose service is silent reaches its
  timeout; both sides of the control wire run; time passes (`Tick`) and the client's
  loop and jobs go on. `select!` picks at random among the arms that are ready, so an arm
  that is ready again and again is taken: strong fairness of the heartbeat sleep, of a read
  that fails and of the shutdown. A report goes on while the server is not silent and docker
  answers. The ACME flow takes its next step or is over after 120 s.

Nothing is assumed of the network, of users, of restarts, of docker's success or of a
docker that hangs, of the certificate authority, of a server that is silent, or of a client
saving what it is sent.

## 4. Proofs

For every value of the constants that satisfies the assumptions in the modules
(disjoint `None`, capacities that are numbers, functions of the right type):

| Module | Theorems | Inductive invariant |
|---|---|---|
| `NodeRegistry_proofs` | TypeCorrect, SpoofCheckHolds, RegistryAlive, DigestsStable, IdentitiesKept | `IInv`: what has been bound, persisted, claimed or assigned was generated; between resolve and announce the uuid is bound to the channel's digest; a registry entry names a channel that has this very uuid; rows and queued updates agree with the bindings; a service has one connection; a fresh claim is what the service loaded or was assigned; a pending assignment renames only with cause |
| `Connections_proofs` | of `BridgePorts`: TypeCorrect, PoolPartitioned, NoPortLeaks, DistinctPorts; of `Connections`: Implements, CatalogPartitioned, CatalogNoLeak, CatalogDistinct, AllRoutesTracked, PathsDoNotCross | `IInv`: the pool's invariants and that a request in flight holds a reserved port no row has; `CInv`: `IInv`, types, `RoutesTracked`, that a stop between its routes and its record leaves no route behind unless it was overtaken (`StopClean`), and that what is routed or about to be still has its row with that port (`ServedHasRow`) |
| `RouteTable_proofs` | TypeCorrect, LongestPrefixWins, RoutesReachable, OrderIrrelevant | the loop invariant of `resolve` (best is the longest match among the visited entries) and that no route is under `/admin` |
| `DataChannel_proofs` | TypeCorrect, ChannelsFunded, PoolNeverFull | per channel an account: what is on its way, pooled or lost equals the initial channels plus one per taker (`Conserved`), and the pool exceeds the initial channels and the guests only by the early ones (`Surplus`); the queue of callbacks is exactly the loops that wait, each once |
| `UdpForwarder_proofs` | TypeCorrect, MapExact, UpImplements, DownImplements | `IInv`: a type per part of the state, with what a task past its read holds (the loop, the reader and the writer a datagram, a forwarder with an answer its number), and `MapIsExact` itself; `UpOrder`, `DownOrder`: the numbers of a peer rise from the end of the way to its start, within each place and from place to place |
| `ControlWire_proofs` | TypeCorrect, SentOnly, LinkImplements | `WInv`: buffer and pipe together are a stream of commands that lacks at most the front of its first and the end of its last (`Frames`), the commands of a writer are in its order (`Order`) and younger than what was handled (`Handled`), and unless torn or oversized the read begins where a command does (`Reading`) |
| `Deployment_proofs` | TypeCorrect, TablesAgree, ServedOnesRun | `DInv`: of a connection that is not upset one task at a time takes care, and row, tracker and routes are what that task has made of them up to its place (`Stage`), or what rests when there is none (`Rest`); `RInv` adds what is known of senders, channel numbers and docker jobs |
| `AutoTls_proofs` | ChallengesServed, BrokenOnlyByTearing, ExpiryExplained | `Owner`: which listener owns `http_port` in which state of the process (at most one, since the redirect listener may fail to bind), that a flow runs at startup or behind the redirect listener, and a check is due only when none runs; the token is in the map while it is validated; files that do not belong together are about to be mended, or a flow was torn and none has ended well since (`Mended`); the days a certificate lacks are paid for by lost days (`Paid`), and what is served is what is on disk or a restart is at hand (`Current`, `Live`) |

Why the strengthening is needed: BoundIdentity alone is not inductive, because the
entry is written two steps after the decision, with the bindings unlocked in
between; LongestPrefix says nothing about a search half done; Funded needs the
equality, since a channel that goes to the pool shrinks what is on its way without
serving anybody, and that it may only do so when nobody waits in turn needs the queue to
list every loop that waits.

The argument for `Connections`: each of its actions contains a step of `BridgePorts` or
leaves the pool alone (`StepImplements`), so `IInv` is inherited; `RoutesTracked` is
preserved because a step that removes a record removes its routes with it, or it is the second
half of a stop, whose first half removed them: `StopClean` carries this from one to the other,
for stops that were not overtaken. Only the three races of section 3 add to `stray`; `NoCrossTalk` is not inductive, since a deploy in flight holds a copy
of the rows, but `ServedHasRow` is, and with distinct rows it implies it.

The argument for `DataChannel`: each step of a channel moves one unit between the
stages of its own account and leaves the other accounts alone (`Ledger`), each step
of a loop that asks or is served changes the number of takers and what is on its
way by the same amount (`TakerStep`), and all other steps touch neither. The one
assumption that is not about types is `CapAssumption`: the bound of `data_ch_tx`
leaves room for the initial channels and one per loop and waiting visitor of the
pool's own listener. In the code these are 8 initial channels and at most 2050
visitors (a queue of 2048, one in the listener's hands and one in the pool's) against
a bound of 4096, so the assumption holds up to 2038 loops on one channel.

The argument for `UdpForwarder`: few actions touch a part of the state (the frame
lemmas), and each part keeps its type under those. `MapIsExact` holds because entry and
forwarder come and go in one step, under a write lock; that a reader with a datagram in
hand holds one (`ReaderType`) is what makes the new entry that of a peer.

The order in `UdpForwarder` needs more than queues that are first in, first out: a peer
has datagrams in five places at once (pipe, hands, queue), and forwarders that come and go
discard some. A number may only move from the least of one place to the next, or vanish
(`ChainMove`, `ChainShrink`), so that what is delivered exceeds all that was: a step of
`LossyLink` or a stutter.

The argument for `ControlWire`: the mutex makes writers take turns, so that the byte a
writer puts down adjoins the last one (`Contiguous`), and reading moves a byte within
the stream. A frame whose header was read at its place has its length and its bytes from
one command; where header or length went wrong, `torn` or `oversized` is set already.
What is decoded from a whole frame is newer than all that was handled from its writer,
what is decoded from others is not taken for anyone's command.

The argument for `Deployment`: `Agreement` only speaks of connections nobody works on, so the
inductive `DInv` says for each place of a task what it has done: a deploy that waits has
nothing in the tables, one that has recorded is tracked, one that has wired has all routes;
a stop undoes it in its order. The teardown of a node is in two steps, and what is left for the second (`Left`)
keeps a deploy out in between, since its own routes are in the way (`FullConflicts`).
Every interference that breaks this puts the connection into `upset` in the same step.
For `ServedRuns` an answer must be traced to its request: a stored sender belongs to a task
that waits on this very channel (`Senders`), channels are numbered (`Numbered`, `Latest`),
docker has no stop at hand for a connection that is served or being deployed (`Called`), so
that a container that was started (`Started`) is kept (`Kept`) until the channel is gone.

The proofs showed two things that the runs do not reach. A row can be deployed without
a node, when a PATCH overtakes a deploy: the types of a request that looked up
`reg[conn[c].node]` could not be proved. And the accept loops of a node can outlive its
deployments (section 3): `Kept` was not inductive for a node the row does not name, and
two nodes with one connection that reconnects show it.

`ServedOnesRun` assumes that docker does not fail, because with failures it is false
(section 3, Docker error). All other theorems assume only what the modules do.

Only model-checked: everything about liveness, since temporal reasoning under fairness and
ENABLED is out of the prover's reach (`StaysRegistered`, `RedeployedUnlessUpset`, `TasksEnd`,
`ServedUnlessUpset`, `StoppedEnds`, `ReaderReturns`, `ChannelCleansUp`,
`EveryCommandArrives`, `ShutdownEnds`, `OrphansStopped`, `SilenceNoticed`, `BootEnds`,
`TlsComesUp`), and `TimeoutIsSilence` of `ClientSession`, which has no proofs. Every other
property of a run is a theorem. No recursive definition is needed.

## 5. Not modelled

* **TCP bytes** of a data channel (`copy_bidirectional`) and `run_udp_connection_pool`;
  no service is of type Udp, so the latter never runs.
* **Handshake**: the challenge-response of a control channel is one step that succeeds
  or fails; hello, auth and ack frames are of fixed size and read once.
* **Command queue** of a channel (64 entries). The one send of a channel to itself
  (`server.rs:697`) happens on its first report, when no deploy can know it yet.
* **The order within a Disconnected.** `Deployment` applies the rows' part of a Disconnected
  (`main.rs:311-319`) in one step: the code reads the list of the node's connections and then
  sets each to pending, without a transaction. A stop or PATCH of the API whose own update
  falls between the list and the row's turn would be overwritten by "pending" on the old node.
* **More than one ghost per node.** In `Deployment` a node has at most one channel whose server
  task has not noticed its end; a machine that reconnects again before the first is noticed
  waits for it.
* **Release before delete.** DELETE of a port or a bridge (`api.rs:225-230, 281-284`) releases
  the port and then deletes the row; `BridgePorts` has both in one step. The API is one thread and
  alone reserves ports, so that nobody can take the port in between; what can come in between is
  the end of a deployment, which releases only and does so twice without effect, and a
  restart, which finds the row there as it does before the request.
* **Failing binds of Pingora** itself: it has its ports. The redirect listener may fail to bind.
* **Server heartbeats**: they appear as messages a client may receive.
* **Data of deployments**: host ports (`deploy.rs:73` always counts from
  `port_range_start`, so that two deployments on one node ask for the same ones),
  container names, the environment table (`db.rs:401` deletes before it inserts, without a
  transaction), how an image is pulled or built; `docker_results`, which nothing reads.
* **Image cache** of the client: its file is written and never consulted.
* **Database errors** other than violated constraints.
* **TLS details**: how certificates are read, changing `domain` or `staging` over
  existing files, file permissions.
* **Configuration parsing, transport, panel, docker search, the kdctc binary**: I/O or
  parsing without shared state. The settings that decide anything are initial states or
  constants of `AutoTls` and `ClientSession`.

## 6. Observations

Facts the models brought up that are no disagreement with a document:

* The reader of a UDP data channel can be locked out for good: it asks for a second
  read lock of `port_map` while it holds a guard (`client.rs:334, 359`), and a forwarder
  that asks for the write lock in between (`client.rs:408`) stands before it in the queue.
  Likewise when it holds the guard and waits for room in the queue of that forwarder.
* With both directions of a UDP channel full, everyone waits for the next one: the
  server's loop writes inside its `select!` arm and reads no answers meanwhile.
* A UDP forwarder that fails to send leaves its entry: the peer is not served any more
  until the data channel ends.
* The heartbeat timeout (40 s by default) is made anew by every status tick (5 s) and so
  never fires; the handshake has no timeout at all, and a shutdown is not seen in it. Nor is it
  seen while an arm of `run` reports: `docker ps` and the write have no timeout
  (`client.rs:520-527, 596-603`).
* A control command whose read is dropped by another arm of `select!` leaves the stream
  out of step; so does a payload of 64 KiB or more.
* An ACME flow that times out or is cut off between `cert.pem` and `key.pem` leaves a
  certificate that looks fresh, so that no renewal repairs it before the next one is due, and
  TLS cannot be served with it. A failed first issuance
  leaves the server without a renewal task until it is restarted.
* If another program has `http_port` when TLS comes up, the redirect listener ends with a line
  in the log and renewals fail, as nobody serves their tokens.
* TLS that is switched off in the panel while ACME is on comes back at the next start.
* A PATCH that clears the node of a connection, and that reads the row before a deploy ends
  and writes it afterwards, leaves a row that is deployed without a node; stopping it sends
  docker nothing and leaves its routes (`deploy.rs:201, 227`).
* Replacing an image by one of the same name nulls the image slot of its connections
  (`db.rs:249`); loading a git image of the same name again always fails, because its
  directory exists (`image.rs:33`).

## 7. Plan

Done: the core (`NodeRegistry`, `BridgePorts`, `RouteTable`, `DataChannel`, with proofs;
`Deployment` checked), then `Connections`, `UdpForwarder` and `AutoTls` (with proofs), `ControlWire`,
`ClientSession` and the abstract `LossyLink`. Then the proofs: the
refinements of `LossyLink`, `Deployment` and `ControlWire`, and the expiry in `AutoTls`.

What could follow:

1. `ClientSession`: `TimeoutIsSilence` from the order of the clocks in phase `up`
   (`sleeping <= status <= StatusInterval`, `sleeping <= quiet`).
2. `Deployment`: that a loop of a node the row does not name is always one that the
   teardown left, as an invariant of its own.
