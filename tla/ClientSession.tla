--------------------------- MODULE ClientSession ---------------------------
(***************************************************************************)
(* The life of a client service: the loop that runs the control channel    *)
(* again and again, its backoff, the cache TTL that stops orphaned         *)
(* containers, the select loop of run with its two timers, the reports its *)
(* arms write while no other arm is polled, and the docker jobs, which     *)
(* outlive the connection they were asked for on.                          *)
(*                                                                         *)
(* Time is a step of Tick; every clock is kept as its age.  A container    *)
(* stands for itself and its image.  Messages are ControlWire's, their     *)
(* contents NodeRegistry's and Deployment's.  The image cache file is left *)
(* out: it is written and never consulted.                                 *)
(***************************************************************************)
EXTENDS Naturals, FiniteSets

CONSTANTS
  Containers,      \* container names
  Never,           \* None: no time
  Timeouts,        \* values heartbeat_timeout may have, 0 for off
  StatusInterval,  \* 5 s
  Ttl,             \* image_cache_ttl_seconds
  Short,           \* 3 s: a run that lasted longer resets the backoff
  MaxBackoff       \* retry_interval

ASSUME TimesAssumption ==
  /\ Timeouts \subseteq Nat /\ StatusInterval \in Nat \ {0}
  /\ Ttl \in Nat /\ Short \in Nat /\ MaxBackoff \in Nat \ {0} /\ Never \notin Nat

VARIABLES
  phase,           \* where the reconnect loop is, and run in it
  server,          \* "on", "silent" (it neither answers nor resets), "off"
  docker,          \* whether the docker daemon answers
  shutdown,        \* the handle's shutdown has been sent
  timeout,         \* heartbeat_timeout
  sleeping,        \* age of the heartbeat sleep of this iteration of select!
  status,          \* time since the last tick of status_interval
  ran,             \* time since start
  backoff, wait,   \* the next delay, what is left of this one
  disconnectedAt,  \* age of disconnected_at
  cleanupDone,
  tracked,         \* containers, shared with the jobs
  doomed,          \* tracked ones the cleanup has drained and not stopped yet
  jobs,            \* image_start and docker_stop tasks
  running,         \* containers docker runs
  quiet,           \* history: time since the server was last heard
  away,            \* history: time since the channel was last up
  missed           \* history: containers started after the one cleanup, or that
                   \* it failed to stop, or whose start and stop overlapped

loopVars == <<phase, ran, backoff, wait, disconnectedAt, cleanupDone>>
runVars == <<sleeping, status, quiet>>
envVars == <<server, docker, shutdown, timeout>>
dockerVars == <<tracked, doomed, jobs, running, missed>>
vars == <<loopVars, runVars, envVars, dockerVars, away>>

\* An age grows up to the first value past its limit.
Older(age, limit) == IF age <= limit THEN age + 1 ELSE age

\* An arm of the select! of run writes a report: it asks docker, then writes.
Reporting == phase \in {"asking", "writing"}

\* The control channel stands: run is in its select! or in the report of an arm.
Connected == phase = "up" \/ Reporting

Job == [kind : {"start", "stop"}, of : Containers, step : {"docker", "book"}]

\* Types of the session's state.
TypeOK ==
  /\ phase \in {"connect", "asking", "writing", "up", "failed", "cleaning", "check",
                "sleep", "ended"}
  /\ server \in {"on", "silent", "off"} /\ docker \in BOOLEAN /\ shutdown \in BOOLEAN
  /\ timeout \in Timeouts
  /\ sleeping \in 0..StatusInterval /\ status \in 0..StatusInterval
  /\ quiet \in 0..(StatusInterval + 1)
  /\ ran \in 0..(Short + 1) /\ backoff \in 1..MaxBackoff /\ wait \in 0..MaxBackoff
  /\ disconnectedAt \in (0..(Ttl + 1)) \cup {Never} /\ cleanupDone \in BOOLEAN
  /\ tracked \subseteq Containers /\ doomed \subseteq Containers
  /\ jobs \subseteq Job /\ running \subseteq Containers
  /\ away \in 0..(Ttl + 1)
  /\ missed \subseteq Containers

Init ==
  /\ phase = "connect" /\ server = "on" /\ docker = TRUE /\ shutdown = FALSE
  /\ timeout \in Timeouts
  /\ sleeping = 0 /\ status = 0 /\ quiet = 0
  /\ ran = 0 /\ backoff = 1 /\ wait = 0
  /\ disconnectedAt = Never /\ cleanupDone = FALSE
  /\ tracked = {} /\ doomed = {} /\ jobs = {} /\ running = {}
  /\ away = 0 /\ missed = {}

-----------------------------------------------------------------------------
(* Time, the server and the user.                                          *)

\* A timer that is due is served before time goes on; a connect, a handshake, a
\* report and a docker command take as long as they take.  The heartbeat sleep is
\* made anew when an arm is done, status_interval runs on (of the ticks missed
\* during a report one is caught up with).
Tick ==
  /\ phase \notin {"failed", "check", "ended"}
  /\ phase = "up" => status < StatusInterval /\ (timeout /= 0 => sleeping < timeout)
  /\ phase = "sleep" => wait > 0
  /\ wait' = IF phase = "sleep" THEN wait - 1 ELSE wait
  /\ status' = IF Connected /\ status < StatusInterval THEN status + 1 ELSE status
  /\ sleeping' = IF phase = "up" THEN sleeping + 1 ELSE sleeping
  /\ quiet' = IF Connected THEN Older(quiet, StatusInterval) ELSE quiet
  /\ away' = IF Connected THEN 0 ELSE Older(away, Ttl)
  /\ ran' = Older(ran, Short)
  /\ disconnectedAt' = IF disconnectedAt = Never THEN Never ELSE Older(disconnectedAt, Ttl)
  /\ UNCHANGED <<phase, backoff, cleanupDone, envVars, dockerVars>>

\* The server or the network to it changes.
ServerTurns(s) ==
  /\ server /= s /\ phase /= "ended"
  /\ server' = s
  /\ UNCHANGED <<loopVars, runVars, docker, shutdown, timeout, dockerVars, away>>

\* The docker daemon hangs, or answers again.
DockerTurns ==
  /\ phase /= "ended"
  /\ docker' = ~docker
  /\ UNCHANGED <<loopVars, runVars, server, shutdown, timeout, dockerVars, away>>

\* Client::run hands the shutdown on.
SendShutdown ==
  /\ ~shutdown /\ shutdown' = TRUE
  /\ UNCHANGED <<loopVars, runVars, server, docker, timeout, dockerVars, away>>

-----------------------------------------------------------------------------
(* run: connect, handshake, select.                                        *)

\* The handshake ends well and the first report is made; the first tick of
\* status_interval is due as soon as the select loop begins.
ConnectOk ==
  /\ phase = "connect" /\ server = "on"
  /\ phase' = "asking" /\ sleeping' = 0 /\ quiet' = 0 /\ status' = StatusInterval
  /\ away' = 0
  /\ UNCHANGED <<ran, backoff, wait, disconnectedAt, cleanupDone, envVars, dockerVars>>

\* Refused, reset or not authenticated.  A silent server is waited for.
ConnectFails ==
  /\ phase = "connect" /\ server \in {"on", "off"}
  /\ phase' = "failed"
  /\ UNCHANGED <<ran, backoff, wait, disconnectedAt, cleanupDone, runVars, envVars,
                 dockerVars, away>>

InFlight(c) == \E j \in jobs : j.of = c

\* Bug: the heartbeat sleep is pinned outside the loop and not reset.
HeardPinned == quiet' = 0 /\ UNCHANGED <<sleeping, status>>

\* A command ends the iteration: the next one makes a new heartbeat sleep.
Heard == sleeping' = 0 /\ quiet' = 0 /\ UNCHANGED status

\* Any command whose arm neither waits nor starts a docker job.
ReceiveOther ==
  /\ phase = "up" /\ server = "on" /\ Heard
  /\ UNCHANGED <<loopVars, envVars, dockerVars, away>>

\* HeartBeat is answered with a report; until it is written run neither reads nor
\* sees a timer or its shutdown.
ReceiveHeartBeat ==
  /\ phase = "up" /\ server = "on" /\ Heard
  /\ phase' = "asking"
  /\ UNCHANGED <<ran, backoff, wait, disconnectedAt, cleanupDone, envVars, dockerVars,
                 away>>

\* ImageStart or ImageStop: a task is spawned.
ReceiveJob(k, c) ==
  /\ phase = "up" /\ server = "on" /\ Heard
  /\ LET j == [kind |-> k, of |-> c, step |-> "docker"]
     IN j \notin jobs /\ jobs' = jobs \cup {j}
  /\ missed' = IF InFlight(c) THEN missed \cup {c} ELSE missed
  /\ UNCHANGED <<loopVars, envVars, away, tracked, doomed, running>>

\* status_interval: a report, in the same way.
StatusTick ==
  /\ phase = "up" /\ status = StatusInterval
  /\ status' = 0 /\ sleeping' = 0 /\ phase' = "asking"
  /\ UNCHANGED <<ran, backoff, wait, disconnectedAt, cleanupDone, quiet, envVars,
                 dockerVars, away>>

\* gather_node_status: `docker ps` has answered, with the writer's lock held.
AskDone ==
  /\ phase = "asking" /\ docker
  /\ phase' = "writing"
  /\ UNCHANGED <<ran, backoff, wait, disconnectedAt, cleanupDone, runVars, envVars,
                 dockerVars, away>>

\* The report is written, as far as a silent server's buffers take it; a failure to
\* write is only logged.
WriteDone ==
  /\ phase = "writing"
  /\ phase' = "up"
  /\ UNCHANGED <<ran, backoff, wait, disconnectedAt, cleanupDone, runVars, envVars,
                 dockerVars, away>>

\* run returns: its timers are gone.
RunEnds(p) ==
  /\ phase' = p /\ sleeping' = 0 /\ status' = 0 /\ quiet' = 0
  /\ UNCHANGED <<ran, backoff, wait, disconnectedAt, cleanupDone, envVars, dockerVars,
                 away>>

\* Bug: the guard of the arm is the wrong way round.
FiresWhenOff == phase = "up" /\ timeout = 0 /\ sleeping = timeout /\ RunEnds("failed")

\* The heartbeat sleep of this iteration ends before any other arm.
HeartbeatFires ==
  /\ phase = "up" /\ timeout /= 0 /\ sleeping = timeout
  /\ RunEnds("failed")

\* read_control_cmd fails: the connection was reset or closed; or the uuid a server
\* assigns cannot be saved.
ReadFails ==
  /\ phase = "up" /\ server \in {"off", "on"}
  /\ RunEnds("failed")

\* The shutdown arm: run returns Ok and the reconnect loop ends.
ShutdownArm == phase = "up" /\ shutdown /\ RunEnds("ended")

-----------------------------------------------------------------------------
(* The reconnect loop of ControlChannelHandle::new after a failed run.     *)

\* Bug: the deadline is only looked at after the very first failure.
FirstFailureOnly ==
  /\ phase = "failed"
  /\ disconnectedAt' = IF disconnectedAt = Never THEN 0 ELSE disconnectedAt
  /\ phase' = "check"
  /\ UNCHANGED <<tracked, doomed, ran, backoff, wait, cleanupDone, runVars, envVars,
                 jobs, running, missed, away>>

\* disconnected_at is set by the first failure there ever is.  Past the TTL, and
\* only once, the tracked containers are drained and stopped.
Failed ==
  /\ phase = "failed"
  /\ disconnectedAt' = IF disconnectedAt = Never THEN 0 ELSE disconnectedAt
  /\ IF ~cleanupDone /\ disconnectedAt' > Ttl
     THEN phase' = "cleaning" /\ doomed' = tracked /\ tracked' = {}
     ELSE phase' = "check" /\ UNCHANGED <<tracked, doomed>>
  /\ UNCHANGED <<ran, backoff, wait, cleanupDone, runVars, envVars,
                 jobs, running, missed, away>>

\* docker_stop and docker_rmi of one of them, whose failure goes unnoticed.
CleanOne(c) ==
  /\ phase = "cleaning" /\ docker /\ c \in doomed
  /\ doomed' = doomed \ {c}
  /\ \/ running' = running \ {c} /\ UNCHANGED missed
     \/ missed' = missed \cup {c} /\ UNCHANGED running
  /\ UNCHANGED <<loopVars, runVars, envVars, tracked, jobs, away>>

CleanDone ==
  /\ phase = "cleaning" /\ doomed = {}
  /\ phase' = "check" /\ cleanupDone' = TRUE
  /\ UNCHANGED <<ran, backoff, wait, disconnectedAt, runVars, envVars, dockerVars, away>>

\* Bug: shutdown_rx is only polled inside run.
CheckNoShutdown ==
  /\ phase = "check"
  /\ phase' = "sleep" /\ wait' = backoff /\ UNCHANGED backoff
  /\ UNCHANGED <<ran, disconnectedAt, cleanupDone, runVars, envVars, dockerVars, away>>

AtMost(n) == IF n < MaxBackoff THEN n ELSE MaxBackoff

\* try_recv of the shutdown, or the next delay of the backoff.
Check ==
  /\ phase = "check"
  /\ IF shutdown THEN phase' = "ended" /\ UNCHANGED <<backoff, wait>>
     ELSE LET d == IF ran > Short THEN 1 ELSE backoff
          IN phase' = "sleep" /\ wait' = d /\ backoff' = AtMost(3 * d)
  /\ UNCHANGED <<ran, disconnectedAt, cleanupDone, runVars, envVars, dockerVars, away>>

\* The delay is over: start is now, and run is called again.
Retry ==
  /\ phase = "sleep" /\ wait = 0
  /\ phase' = "connect" /\ ran' = 0
  /\ UNCHANGED <<backoff, wait, disconnectedAt, cleanupDone, runVars, envVars,
                 dockerVars, away>>

-----------------------------------------------------------------------------
(* Docker jobs: the docker commands, then the list of tracked containers   *)
(* (and the report, which nobody may be there to read).                    *)

Moves(j) == jobs' = (jobs \ {j}) \cup {[j EXCEPT !.step = "book"]}

\* image_start: an old container of the name goes, the image is pulled or built
\* if it is missing, the container runs; or one of these fails.
StartDocker(j) ==
  /\ docker /\ j \in jobs /\ j.kind = "start" /\ j.step = "docker"
  /\ \/ running' = running \cup {j.of} /\ Moves(j)
     \/ running' = running \ {j.of} /\ jobs' = jobs \ {j}
  /\ UNCHANGED <<loopVars, runVars, envVars, tracked, doomed, missed, away>>

\* The container is tracked.
StartBook(j) ==
  /\ j \in jobs /\ j.kind = "start" /\ j.step = "book"
  /\ jobs' = jobs \ {j} /\ tracked' = tracked \cup {j.of}
  /\ missed' = IF cleanupDone \/ phase = "cleaning" THEN missed \cup {j.of} ELSE missed
  /\ UNCHANGED <<loopVars, runVars, envVars, doomed, running, away>>

\* docker_stop succeeds, or fails and nothing changes.
StopDocker(j) ==
  /\ docker /\ j \in jobs /\ j.kind = "stop" /\ j.step = "docker"
  /\ \/ running' = running \ {j.of} /\ Moves(j)
     \/ jobs' = jobs \ {j} /\ UNCHANGED running
  /\ UNCHANGED <<loopVars, runVars, envVars, tracked, doomed, missed, away>>

\* Every entry of the container's name leaves the list.
StopBook(j) ==
  /\ j \in jobs /\ j.kind = "stop" /\ j.step = "book"
  /\ jobs' = jobs \ {j} /\ tracked' = tracked \ {j.of}
  /\ UNCHANGED <<loopVars, runVars, envVars, doomed, running, missed, away>>

-----------------------------------------------------------------------------
JobStep(j) == StartDocker(j) \/ StartBook(j) \/ StopDocker(j) \/ StopBook(j)

Next ==
  \/ Tick \/ DockerTurns \/ SendShutdown \/ ConnectOk \/ ConnectFails
  \/ ReceiveOther \/ ReceiveHeartBeat \/ StatusTick \/ AskDone \/ WriteDone
  \/ HeartbeatFires \/ ReadFails \/ ShutdownArm \/ Failed \/ CleanDone \/ Check \/ Retry
  \/ \E s \in {"on", "silent", "off"} : ServerTurns(s)
  \/ \E c \in Containers : CleanOne(c) \/ \E k \in {"start", "stop"} : ReceiveJob(k, c)
  \/ \E j \in jobs : StartDocker(j) \/ StartBook(j) \/ StopDocker(j) \/ StopBook(j)

Spec == Init /\ [][Next]_vars

\* Time passes and the client's tasks run; select! picks among the arms that are
\* ready at random.  A connection to a server that is off fails.  Nothing is assumed
\* of one that is silent, whose connection holds up the writer, nor of a docker
\* that hangs, nor that a command of docker succeeds.
Fairness ==
  /\ WF_vars(Tick) /\ WF_vars(ConnectFails) /\ WF_vars(StatusTick)
  /\ WF_vars(server /= "silent" /\ (AskDone \/ WriteDone))
  /\ SF_vars(HeartbeatFires) /\ SF_vars(server = "off" /\ ReadFails)
  /\ SF_vars(ShutdownArm)
  /\ WF_vars(Failed) /\ WF_vars(CleanDone) /\ WF_vars(Check) /\ WF_vars(Retry)
  /\ \A c \in Containers : WF_vars(CleanOne(c))
  /\ \A j \in Job : WF_vars(JobStep(j))

FairSpec == Spec /\ Fairness

-----------------------------------------------------------------------------
(* Properties.                                                             *)

\* Where run and the loop around it wait without a timeout and without polling the
\* shutdown: a handshake (client.rs:441-477), the `docker ps` of a report and the
\* write of it, whose lock and connection a silent server holds up (client.rs:520-527
\* and 596-603), and the `docker stop` of the cleanup (client.rs:684).
HeldUp ==
  \/ phase \in {"connect", "asking", "writing"} /\ server = "silent"
  \/ phase \in {"asking", "cleaning"} /\ ~docker

\* A shutdown ends the loop (client.rs:607, 697) wherever it falls, unless run is held
\* up again and again, or for good.
ShutdownEnds == (shutdown ~> phase = "ended") \/ []<>HeldUp

\* The server is off for good and docker answers: every container is stopped in the
\* end, but for those started after the one cleanup there is, those docker would not
\* stop, and those whose start and stop overlapped (client.rs:664-692).
OrphansStopped ==
  <>[](server = "off" /\ docker)
    => <>[](phase = "ended" \/ running \subseteq missed)

\* The heartbeat timeout only ends a channel whose server has been silent for that
\* long (client.rs:604).
TimeoutIsSilence == [][HeartbeatFires => quiet >= timeout]_vars

\* A silent server is noticed if the timeout is shorter than the status interval:
\* each tick of the interval starts a new sleep (client.rs:596, 604); unless the
\* reports take time again and again, or one of them for good, when little of the
\* interval is left for the sleep.
SilenceNoticed ==
  \/ (Connected /\ server = "silent" /\ timeout \in 1..(StatusInterval - 1))
       ~> (~Connected \/ server /= "silent")
  \/ []<><<Tick /\ Reporting>>_vars \/ <>[]Reporting

\* README.md:108: "The client keeps containers and images warm for
\* `image_cache_ttl_seconds`" on disconnect: the cleanup starts only when the
\* channel has been away that long.
WarmForTtl == [][phase /= "cleaning" /\ phase' = "cleaning" => away > Ttl]_vars
=============================================================================
