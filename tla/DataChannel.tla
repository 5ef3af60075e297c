---------------------------- MODULE DataChannel ----------------------------
(***************************************************************************)
(* How a visitor of a pool port reaches the client.  An accept loop asks   *)
(* the control channel of its node for a data channel and queues a         *)
(* callback; the control channel sends CreateDataChannel; the client dials *)
(* back and says hello with the session key; the handshake looks the key   *)
(* up in control_channels and gives the connection to the oldest callback, *)
(* or to the channel's own pool if there is none.                          *)
(*                                                                         *)
(* One machine, whose control channels are the Links.  Data channels are   *)
(* interchangeable until one is handed over, so each stage they pass       *)
(* through is a counter.                                                   *)
(***************************************************************************)
EXTENDS Integers, Sequences, FiniteSets

CONSTANTS
  Links,       \* control channels of the machine, one per connection it makes
  Loops,       \* accept loops, one per deployed port and protocol
  UdpLoops,    \* the loops of spawn_port_udp_loop
  Ports,       \* pool ports
  None,        \* no control channel
  PoolSize,    \* TCP_POOL_SIZE, requested as soon as a channel is up
  PoolCap,     \* CHAN_SIZE * 2, the bound of data_ch_tx
  GuestCap,    \* CHAN_SIZE + 2: the queue of visitors, one before and one after it
  MaxVisits,   \* bound: visitors
  MaxFaults    \* bound: dials and writes that fail

ASSUME LinksAssumption == None \notin Links
ASSUME LoopsAssumption == IsFiniteSet(Loops) /\ UdpLoops \subseteq Loops
ASSUME PoolAssumption == PoolSize \in Nat /\ PoolCap \in Nat
ASSUME GuestAssumption == GuestCap \in Nat
ASSUME BoundsAssumption == MaxVisits \in Nat /\ MaxFaults \in Nat
\* 8 + 2050 + the loops of a channel are within 4096.
ASSUME CapAssumption == PoolSize + Cardinality(Loops) + GuestCap <= PoolCap

VARIABLES
  cur,        \* the control channel the client is on, or None
  task,       \* the server's task of each control channel
  handle,     \* its ControlChannelHandle: not in control_channels yet, in, out
  index,      \* uuid_index of the machine
  known,      \* whether the channel has been in the registry
  requests,   \* entries of data_ch_req
  creates,    \* CreateDataChannel commands on their way to the client
  dials,      \* run_data_channel tasks whose hello the server has not read
  found,      \* handshakes that have looked their key up
  pool,       \* entries of data_ch: channels nobody asked for
  poolUp,     \* whether run_tcp_connection_pool runs
  guests,     \* visitors of the pool's own listener that wait for a channel
  callbacks,  \* port_data_callbacks: the loops that wait, oldest first
  at, of, port, stopped,   \* each loop: place, channel, pool port, shutdown sent
  backlog,    \* visitors a pool port's listener has not accepted
  visits, faults,          \* counters for the bounds
  lost,       \* history: requested data channels that never reached a taker
  early       \* history: channels pooled while a loop was about to queue

linkVars == <<cur, task, handle, index, known>>
flowVars == <<requests, creates, dials, found>>
poolVars == <<pool, poolUp, guests>>
loopVars == <<callbacks, at, of, port, stopped>>
envVars == <<backlog, visits, faults>>
historyVars == <<lost, early>>
vars == <<linkVars, flowVars, poolVars, loopVars, envVars, historyVars>>

-----------------------------------------------------------------------------
\* A UDP loop that relays is in the body of an arm of its select!, where it sees no
\* shutdown.
Places == {"off", "accept", "requested", "waiting", "given", "serving", "relaying",
           "ended"}

\* Types of the data-channel machinery; the pool never outgrows its bound.
TypeOK ==
  /\ cur \in Links \cup {None}
  /\ task \in [Links -> {"off", "up", "closing", "over", "cleaned"}]
  /\ handle \in [Links -> {"none", "in", "out"}]
  /\ index \in Links \cup {None}
  /\ known \in [Links -> BOOLEAN]
  /\ requests \in [Links -> Nat] /\ creates \in [Links -> Nat]
  /\ dials \in [Links -> Nat] /\ found \in [Links -> Nat]
  /\ pool \in [Links -> 0..PoolCap] /\ poolUp \in [Links -> BOOLEAN]
  /\ guests \in [Links -> Nat]
  /\ callbacks \in [Links -> Seq(Loops)]
  /\ at \in [Loops -> Places] /\ of \in [Loops -> Links \cup {None}]
  /\ port \in [Loops -> Ports \cup {None}] /\ stopped \in [Loops -> BOOLEAN]
  /\ backlog \in [Ports -> Nat]
  /\ visits \in 0..MaxVisits /\ faults \in 0..MaxFaults
  /\ lost \in [Links -> Nat] /\ early \in [Links -> Nat]

Init ==
  /\ cur = None /\ index = None
  /\ task = [l \in Links |-> "off"] /\ handle = [l \in Links |-> "none"]
  /\ known = [l \in Links |-> FALSE]
  /\ requests = [l \in Links |-> 0] /\ creates = [l \in Links |-> 0]
  /\ dials = [l \in Links |-> 0] /\ found = [l \in Links |-> 0]
  /\ pool = [l \in Links |-> 0] /\ poolUp = [l \in Links |-> FALSE]
  /\ guests = [l \in Links |-> 0]
  /\ callbacks = [l \in Links |-> <<>>]
  /\ at = [d \in Loops |-> "off"] /\ of = [d \in Loops |-> None]
  /\ port = [d \in Loops |-> None] /\ stopped = [d \in Loops |-> FALSE]
  /\ backlog = [p \in Ports |-> 0]
  /\ visits = 0 /\ faults = 0
  /\ lost = [l \in Links |-> 0] /\ early = [l \in Links |-> 0]

Fault == faults < MaxFaults /\ faults' = faults + 1
Arrival == visits < MaxVisits /\ visits' = visits + 1

\* data_ch_req_tx.send succeeds until run has returned and dropped the receiver.
Requestable(l) == task[l] \in {"up", "closing"}

\* Bug: a taker asks for a data channel twice.
AskTwice(l) == [requests EXCEPT ![l] = @ + 2]

\* Bug: a taker does not ask, and counts on the pool's initial channels.
AskNot(l) == requests

\* One more data channel is requested.
Ask(l) == [requests EXCEPT ![l] = @ + 1]

-----------------------------------------------------------------------------
(* The control channel: its life, the handle map and the uuid index.       *)

\* The handshake succeeds: the task and the pool are spawned, PoolSize data
\* channels are requested.  The handle is not in control_channels yet.
Connect(l) ==
  /\ cur = None /\ task[l] = "off"
  /\ cur' = l
  /\ task' = [task EXCEPT ![l] = "up"]
  /\ requests' = [requests EXCEPT ![l] = PoolSize]
  /\ poolUp' = [poolUp EXCEPT ![l] = TRUE]
  /\ UNCHANGED <<handle, index, known, creates, dials, found, pool,
                 guests, loopVars, envVars, historyVars>>

\* The spawned task may have got anywhere by the time the handle is inserted.
InsertHandle(l) ==
  /\ task[l] # "off" /\ handle[l] = "none"
  /\ handle' = [handle EXCEPT ![l] = "in"]
  /\ UNCHANGED <<cur, task, index, known, flowVars, poolVars, loopVars,
                 envVars, historyVars>>

\* remove1 of a handle that is not in the map (yet) does nothing.
Removed(l) == [handle EXCEPT ![l] = IF @ = "in" THEN "out" ELSE @]

\* The client reports as soon as it is connected, every 5 seconds and on every
\* heartbeat, and what it has sent can still be read when it has gone.  A report
\* makes its channel the indexed one and evicts the handle of the one that was,
\* which goes on running: nothing is sent on its shutdown_tx.
ReadReport(l) ==
  /\ task[l] = "up"
  /\ known' = [known EXCEPT ![l] = TRUE]
  /\ index' = l
  /\ handle' = IF index \in Links \ {l} THEN Removed(index) ELSE handle
  /\ UNCHANGED <<cur, task, flowVars, poolVars, loopVars, envVars, historyVars>>

\* The client's run returns: commands it has not read are lost.  Its dials and
\* what it has written go on.
ClientDrop ==
  /\ cur # None
  /\ cur' = None
  /\ creates' = [creates EXCEPT ![cur] = 0]
  /\ lost' = [lost EXCEPT ![cur] = @ + creates[cur]]
  /\ UNCHANGED <<task, handle, index, known, requests, dials,
                 found, poolVars, loopVars, envVars, early>>

\* A read or a write on the control connection fails; run leaves its loop and
\* waits to announce Disconnected.  The client need not have noticed anything.
Break(l) ==
  /\ task[l] = "up"
  /\ task' = [task EXCEPT ![l] = "closing"]
  /\ UNCHANGED <<cur, handle, index, known, flowVars, poolVars,
                 loopVars, envVars, historyVars>>

\* run returns, with it the receiver of the requests goes.
RunOver(l) ==
  /\ task[l] = "closing"
  /\ task' = [task EXCEPT ![l] = "over"]
  /\ lost' = [lost EXCEPT ![l] = @ + requests[l]]
  /\ requests' = [requests EXCEPT ![l] = 0]
  /\ UNCHANGED <<cur, handle, index, known, creates, dials,
                 found, poolVars, loopVars, envVars, early>>

\* The cleanup: the index only if it is still ours, the handle always.
CleanUp(l) ==
  /\ task[l] = "over"
  /\ task' = [task EXCEPT ![l] = "cleaned"]
  /\ index' = IF known[l] /\ index = l THEN None ELSE index
  /\ handle' = Removed(l)
  /\ UNCHANGED <<cur, known, flowVars, poolVars, loopVars, envVars,
                 historyVars>>

-----------------------------------------------------------------------------
(* A data channel, from the request to its taker.                          *)

\* Bug: CreateDataChannel is written whether or not a request was received.
HasRequestAlways(l) == task[l] = "up"

HasRequest(l) == task[l] = "up" /\ requests[l] > 0

\* A request becomes a CreateDataChannel.  A client that is gone never reads it.
SendCreate(l) ==
  /\ HasRequest(l)
  /\ requests' = [requests EXCEPT ![l] = @ - 1]
  /\ IF cur = l
       THEN creates' = [creates EXCEPT ![l] = @ + 1] /\ UNCHANGED lost
       ELSE lost' = [lost EXCEPT ![l] = @ + 1] /\ UNCHANGED creates
  /\ UNCHANGED <<linkVars, dials, found, poolVars, loopVars, envVars,
                 early>>

\* The client spawns run_data_channel.
ReadCreate(l) ==
  /\ cur = l /\ creates[l] > 0
  /\ creates' = [creates EXCEPT ![l] = @ - 1]
  /\ dials' = [dials EXCEPT ![l] = @ + 1]
  /\ UNCHANGED <<linkVars, requests, found, poolVars, loopVars, envVars,
                 historyVars>>

\* Ten seconds of retries have passed, or the hello could not be written; the
\* server is not told.
DialFails(l) ==
  /\ dials[l] > 0 /\ Fault
  /\ dials' = [dials EXCEPT ![l] = @ - 1]
  /\ lost' = [lost EXCEPT ![l] = @ + 1]
  /\ UNCHANGED <<linkVars, requests, creates, found, poolVars, loopVars,
                 backlog, visits, early>>

\* The client has connected and written its hello.  get2 of the session key;
\* without a handle the connection is dropped.
Lookup(l) ==
  /\ dials[l] > 0
  /\ dials' = [dials EXCEPT ![l] = @ - 1]
  /\ IF handle[l] = "in"
       THEN found' = [found EXCEPT ![l] = @ + 1] /\ UNCHANGED lost
       ELSE lost' = [lost EXCEPT ![l] = @ + 1] /\ UNCHANGED found
  /\ UNCHANGED <<linkVars, requests, creates, poolVars, loopVars, envVars,
                 early>>

\* The oldest callback takes the connection.  port_data_pending, which comes
\* first in the code, is never filled.
GiveToLoop(l) ==
  /\ found[l] > 0 /\ callbacks[l] # <<>>
  /\ found' = [found EXCEPT ![l] = @ - 1]
  /\ callbacks' = [callbacks EXCEPT ![l] = Tail(@)]
  /\ at' = [at EXCEPT ![Head(callbacks[l])] = "given"]
  /\ UNCHANGED <<linkVars, requests, creates, dials, poolVars, of, port,
                 stopped, envVars, historyVars>>

Requested(l) == {d \in Loops : of[d] = l /\ at[d] = "requested"}

\* Bug: the pool is asked before the callbacks.
GiveToPoolAlways(l) == found[l] > 0

\* No callback is queued.
MayPool(l) == found[l] > 0 /\ callbacks[l] = <<>>

\* The connection goes to data_ch_tx, and waits there if it is full; once the
\* pool is gone the send fails.
GiveToPool(l) ==
  /\ MayPool(l)
  /\ poolUp[l] => pool[l] < PoolCap
  /\ found' = [found EXCEPT ![l] = @ - 1]
  /\ IF poolUp[l]
       THEN /\ pool' = [pool EXCEPT ![l] = @ + 1]
            /\ early' = [early EXCEPT ![l] = IF Requested(l) # {} THEN @ + 1 ELSE @]
            /\ UNCHANGED lost
       ELSE /\ lost' = [lost EXCEPT ![l] = @ + 1]
            /\ UNCHANGED <<pool, early>>
  /\ UNCHANGED <<linkVars, requests, creates, dials, poolUp, guests,
                 loopVars, envVars>>

-----------------------------------------------------------------------------
(* run_tcp_connection_pool, with a listener on an ephemeral local port.    *)

\* A visitor of that listener, which goes on if the pool has ended before the
\* channel: one more request.  It waits while the pool's queue is full.
Guest(l) ==
  /\ Requestable(l) /\ Arrival
  /\ poolUp[l] => guests[l] < GuestCap
  /\ requests' = Ask(l)
  /\ guests' = [guests EXCEPT ![l] = IF poolUp[l] THEN @ + 1 ELSE @]
  /\ UNCHANGED <<linkVars, creates, dials, found, pool, poolUp, loopVars,
                 backlog, faults, historyVars>>

\* StartForwardTcp(None) is written to the oldest pooled channel.
ServeGuest(l) ==
  /\ poolUp[l] /\ guests[l] > 0 /\ pool[l] > 0
  /\ pool' = [pool EXCEPT ![l] = @ - 1]
  /\ guests' = [guests EXCEPT ![l] = @ - 1]
  /\ UNCHANGED <<linkVars, flowVars, poolUp, loopVars, envVars, historyVars>>

\* A pooled channel turns out dead: another one is requested in its place; if
\* that is not possible, the pool ends.
PooledDead(l) ==
  /\ poolUp[l] /\ guests[l] > 0 /\ pool[l] > 0 /\ Fault
  /\ IF Requestable(l)
       THEN /\ requests' = Ask(l)
            /\ pool' = [pool EXCEPT ![l] = @ - 1]
            /\ UNCHANGED <<poolUp, guests>>
       ELSE /\ poolUp' = [poolUp EXCEPT ![l] = FALSE]
            /\ pool' = [pool EXCEPT ![l] = 0]
            /\ guests' = [guests EXCEPT ![l] = 0]
            /\ UNCHANGED requests
  /\ UNCHANGED <<linkVars, creates, dials, found, loopVars, backlog,
                 visits, historyVars>>

\* The pool ends when the listener has, on shutdown_tx, and its guests are served;
\* or when a guest waits and no handle is left that could send a channel, which an
\* eviction brings about under a channel that is up.
PoolEnds(l) ==
  /\ poolUp[l]
  /\ \/ guests[l] = 0 /\ task[l] \in {"over", "cleaned"}
     \/ guests[l] > 0 /\ pool[l] = 0 /\ handle[l] = "out" /\ found[l] = 0
  /\ poolUp' = [poolUp EXCEPT ![l] = FALSE]
  /\ pool' = [pool EXCEPT ![l] = 0]
  /\ guests' = [guests EXCEPT ![l] = 0]
  /\ UNCHANGED <<linkVars, flowVars, loopVars, envVars, historyVars>>

-----------------------------------------------------------------------------
(* Accept loops: spawn_port_accept_loop and spawn_port_udp_loop.           *)

SameKind(d, e) == (d \in UdpLoops) = (e \in UdpLoops)

\* The socket of another UDP loop on the port is still bound.
BindFails(d, p) ==
  \E e \in Loops : /\ {d, e} \subseteq UdpLoops
                   /\ port[e] = p /\ at[e] # "ended"

\* deploy_connection spawns a loop with the request sender and the callbacks it
\* took from a registry entry minutes ago.  It deploys a connection that is not
\* deployed; loops of a channel that was lost are not stopped.
Deploy(d, l, p) ==
  /\ at[d] = "off" /\ known[l]
  /\ \A e \in Loops : of[e] = l /\ port[e] = p /\ SameKind(d, e) => stopped[e]
  /\ of' = [of EXCEPT ![d] = l]
  /\ port' = [port EXCEPT ![d] = p]
  /\ at' = [at EXCEPT ![d] = IF BindFails(d, p) THEN "ended" ELSE "accept"]
  /\ UNCHANGED <<linkVars, flowVars, poolVars, callbacks, stopped, envVars,
                 historyVars>>

\* stop_connection sends shutdown to every loop on the port.
Stop(p) ==
  /\ \E d \in Loops : port[d] = p /\ ~stopped[d]
  /\ stopped' = [d \in Loops |-> stopped[d] \/ port[d] = p]
  /\ UNCHANGED <<linkVars, flowVars, poolVars, callbacks, at, of, port, envVars,
                 historyVars>>

\* The listener of a pool port is bound as long as kdcts runs.
Visit(p) ==
  /\ Arrival
  /\ backlog' = [backlog EXCEPT ![p] = @ + 1]
  /\ UNCHANGED <<linkVars, flowVars, poolVars, loopVars, faults, historyVars>>

\* The loop takes a visitor (a UDP loop needs none) and asks for a data channel.
\* If the channel is gone, it drops the visitor and ends.
Accept(d) ==
  /\ at[d] = "accept"
  /\ IF d \in UdpLoops
       THEN UNCHANGED backlog
       ELSE /\ backlog[port[d]] > 0
            /\ backlog' = [backlog EXCEPT ![port[d]] = @ - 1]
  /\ IF Requestable(of[d])
       THEN /\ requests' = Ask(of[d])
            /\ at' = [at EXCEPT ![d] = "requested"]
       ELSE /\ at' = [at EXCEPT ![d] = "ended"]
            /\ UNCHANGED requests
  /\ UNCHANGED <<linkVars, creates, dials, found, poolVars, callbacks,
                 of, port, stopped, visits, faults, historyVars>>

\* Only then does it queue the callback; it now sees no shutdown until the
\* callback is called.
Push(d) ==
  /\ at[d] = "requested"
  /\ callbacks' = [callbacks EXCEPT ![of[d]] = Append(@, d)]
  /\ at' = [at EXCEPT ![d] = "waiting"]
  /\ UNCHANGED <<linkVars, flowVars, poolVars, of, port, stopped, envVars,
                 historyVars>>

\* StartForwardTcp(local_port) or StartForwardUdp is written.
StartForward(d) ==
  /\ at[d] = "given"
  /\ at' = [at EXCEPT ![d] = "serving"]
  /\ UNCHANGED <<linkVars, flowVars, poolVars, callbacks, of, port, stopped,
                 envVars, historyVars>>

\* What a loop does after a visitor: a UDP loop has only one data channel.
Again(d) == [at EXCEPT ![d] = IF d \in UdpLoops THEN "ended" ELSE "accept"]

\* The write fails; the visitor is dropped.
StartForwardFails(d) ==
  /\ at[d] = "given" /\ Fault
  /\ at' = Again(d)
  /\ UNCHANGED <<linkVars, flowVars, poolVars, callbacks, of, port, stopped,
                 backlog, visits, historyVars>>

\* A UDP loop writes a datagram to the data channel, or reads the rest of a frame
\* whose first byte has come; the client decides when that is done.
Relay(d) ==
  /\ d \in UdpLoops
  /\ \/ at[d] = "serving" /\ at' = [at EXCEPT ![d] = "relaying"]
     \/ at[d] = "relaying" /\ at' = [at EXCEPT ![d] = "serving"]
  /\ UNCHANGED <<linkVars, flowVars, poolVars, callbacks, of, port, stopped,
                 envVars, historyVars>>

\* Either side of the copy ends; with it the data channel.
ForwardEnds(d) ==
  /\ at[d] \in {"serving", "relaying"}
  /\ at' = Again(d)
  /\ UNCHANGED <<linkVars, flowVars, poolVars, callbacks, of, port, stopped,
                 envVars, historyVars>>

\* Bug: only a TCP loop listens for the shutdown.
LoopShutdownTcp(d) ==
  /\ stopped[d] /\ d \notin UdpLoops /\ at[d] = "accept"
  /\ at' = [at EXCEPT ![d] = "ended"]
  /\ UNCHANGED <<linkVars, flowVars, poolVars, callbacks, of, port, stopped,
                 envVars, historyVars>>

\* select! sees the shutdown: a TCP loop between visitors, a UDP loop between
\* datagrams.
LoopShutdown(d) ==
  /\ stopped[d]
  /\ at[d] = IF d \in UdpLoops THEN "serving" ELSE "accept"
  /\ at' = [at EXCEPT ![d] = "ended"]
  /\ UNCHANGED <<linkVars, flowVars, poolVars, callbacks, of, port, stopped,
                 envVars, historyVars>>

-----------------------------------------------------------------------------
LinkNext(l) ==
  \/ Connect(l) \/ InsertHandle(l) \/ ReadReport(l)
  \/ Break(l) \/ RunOver(l) \/ CleanUp(l)
  \/ SendCreate(l) \/ ReadCreate(l) \/ DialFails(l)
  \/ Lookup(l) \/ GiveToLoop(l) \/ GiveToPool(l)
  \/ Guest(l) \/ ServeGuest(l) \/ PooledDead(l) \/ PoolEnds(l)

LoopNext(d) ==
  \/ Accept(d) \/ Push(d) \/ StartForward(d) \/ StartForwardFails(d)
  \/ Relay(d) \/ ForwardEnds(d) \/ LoopShutdown(d)

Next ==
  \/ ClientDrop
  \/ \E l \in Links : LinkNext(l)
  \/ \E d \in Loops : LoopNext(d)
  \/ \E d \in Loops, l \in Links, p \in Ports : Deploy(d, l, p)
  \/ \E p \in Ports : Stop(p) \/ Visit(p)

Spec == Init /\ [][Next]_vars

\* A data channel of the link moves on to its next stage.
Advance(l) ==
  SendCreate(l) \/ ReadCreate(l) \/ Lookup(l) \/ GiveToLoop(l) \/ GiveToPool(l)

\* A loop moves on to where it waits or forwards.
Settle(d) == (d \in UdpLoops /\ Accept(d)) \/ Push(d) \/ StartForward(d)

\* tokio runs every task that can go on, select! picks among the ready branches at
\* random, and a server whose client has gone notices it (a heartbeat or a command
\* cannot be written).  Nothing is assumed of visitors, copies,
\* datagrams and shutdowns.
Fairness ==
  /\ \A l \in Links :
       WF_vars(InsertHandle(l)) /\ WF_vars(cur # l /\ Break(l)) /\ WF_vars(Advance(l))
  /\ \A d \in Loops : WF_vars(Settle(d)) /\ SF_vars(LoopShutdown(d))

FairSpec == Spec /\ Fairness

-----------------------------------------------------------------------------
\* Data channels on their way, and the visitors and UDP loops they are for.
OnTheWay(l) == requests[l] + creates[l] + dials[l] + found[l]
Waiting(l) == {d \in Loops : of[d] = l /\ at[d] \in {"requested", "waiting"}}

\* Every visitor that waits for a data channel (server.rs:916-928) has one on its
\* way, except for those lost on the way and those that came between the request
\* and the callback and were pooled.
Funded ==
  \A l \in Links : poolUp[l] =>
    Cardinality(Waiting(l)) <= OnTheWay(l) + lost[l] + early[l]

\* A handshake never waits in data_ch_tx.send (server.rs:363): channels nobody asked
\* for cannot pile up beyond the initial ones and those of visitors that wait.
PoolHasRoom ==
  \A l \in Links : poolUp[l] /\ found[l] > 0 => pool[l] < PoolCap

\* What can keep a data channel from a visitor that waits on a control channel.
Upset(l) == task[l] # "up" \/ handle[l] = "out" \/ lost[l] > 0 \/ early[l] > 0

\* A loop that waits for a data channel (server.rs:929) gets it, as long as its
\* control channel is up, its handle has not been evicted, no data channel was
\* lost and none came before the callback was queued.
ServedUnlessUpset ==
  \A d \in Loops :
    at[d] = "waiting" ~> (at[d] # "waiting" \/ Upset(of[d]))

\* Where a loop may stay for good although it was told to stop: a TCP loop sees the
\* shutdown only after its visitor (server.rs:940), a UDP loop not while it relays
\* (server.rs:1011 and 1025), and neither while it waits for a data channel that does
\* not come (server.rs:929 and 991), because of one of the upsets.
Held(d) ==
  \/ at[d] = "serving" /\ d \notin UdpLoops
  \/ at[d] = "relaying"
  \/ at[d] = "waiting" /\ Upset(of[d])

\* A loop that is told to stop ends, whichever loops the port has and whether or
\* not their control channel is still there, unless it is held for good.
StoppedEnds == \A d \in Loops : stopped[d] ~> (at[d] = "ended" \/ []Held(d))
=============================================================================
