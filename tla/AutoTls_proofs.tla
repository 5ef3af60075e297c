--------------------------- MODULE AutoTls_proofs ---------------------------
(***************************************************************************)
(* Who owns http_port in which state of the process, when certificate and  *)
(* key do not belong together, and that no certificate expires unless its  *)
(* days were lost: for any life of a certificate, any renewal window and   *)
(* any number of failures, crashes, restarts and posts.                    *)
(***************************************************************************)
EXTENDS AutoTls, FiniteSetTheorems, TLAPS

\* The listener of each state of the process.  A flow runs at startup, or behind
\* the redirect listener, which may have failed to bind; a daily check is due there
\* only, and when no flow runs.
Owner ==
  /\ proc \in {"boot", "issue", "configure", "serve"}
  /\ proc = "boot" => bound = {}
  /\ proc = "issue" => bound = {"temp"}
  /\ proc = "configure" => bound = {}
  /\ proc = "serve" => IF live THEN bound \in {{}, {"redirect"}} ELSE bound = {"plain"}
  /\ https = "broken" => proc = "serve"
  /\ flow # "idle" => proc = "issue" \/ (proc = "serve" /\ live)
  /\ due => proc = "serve" /\ live /\ flow = "idle"

\* The authority is told to look when the token is in the map.
Token == flow = "validate" => challenge

\* Files that do not belong together are about to be mended by the flow, or one
\* ended before it could.
Mended == key /\ cert # NoCert /\ ~pair => torn \/ flow = "key"

IInv == Owner /\ Token /\ Mended /\ BrokenOnlyIfTorn

LEMMA InitInv == Init => IInv
  BY DEF Init, IInv, Owner, Token, Mended, BrokenOnlyIfTorn

\* A process that starts again owns nothing and runs nothing; what was being
\* written is torn.
LEMMA RestartsInv ==
  ASSUME IInv, Restarts
  PROVE  IInv'
  BY DEF Restarts, diskVars, IInv, Owner, Token, Mended, BrokenOnlyIfTorn

\* The end of a flow gives http_port back, and nothing runs behind it.
LEMMA FlowOverInv ==
  ASSUME Owner, BrokenOnlyIfTorn, NEW ok \in BOOLEAN, Running, FlowOver(ok),
         ok \/ (torn => torn')
  PROVE  Owner' /\ Token' /\ BrokenOnlyIfTorn'
  <1>1. CASE proc = "issue"
    BY <1>1 DEF FlowOver, Running, Owner, Token, BrokenOnlyIfTorn
  <1>2. CASE proc = "serve" /\ live
    <2>1. bound \ {"temp"} = bound  BY <1>2 DEF Owner
    <2>2. QED  BY <1>2, <2>1 DEF FlowOver, Running, Owner, Token, BrokenOnlyIfTorn
  <1>3. QED  BY <1>1, <1>2 DEF Running, Owner

\* A step within the flow leaves the listeners and the process as they are.
LEMMA GoesInv ==
  ASSUME Owner, BrokenOnlyIfTorn, Running, NEW step, Goes(step)
  PROVE  Owner' /\ BrokenOnlyIfTorn'
  BY DEF Goes, Running, procVars, histVars, Owner, BrokenOnlyIfTorn

LEMMA FlowStepInv ==
  ASSUME IInv, FlowStep
  PROVE  IInv'
  <1>1. CASE FlowFails
    <2>1. (torn => torn') /\ (flow = "key" => torn') /\ Running  BY <1>1 DEF FlowFails
    <2>2. Owner' /\ Token' /\ BrokenOnlyIfTorn'
      BY <1>1, <2>1, FlowOverInv DEF FlowFails, IInv
    <2>3. CASE UNCHANGED <<cert, key, pair>>
      BY <2>1, <2>2, <2>3 DEF IInv, Mended
    <2>5. CASE torn' = TRUE  BY <2>2, <2>5 DEF IInv, Mended
    <2>6. QED  BY <1>1, <2>3, <2>5 DEF FlowFails
  <1>2. CASE AccountUnreadable \/ TokenMissing
    <2>1. Running /\ FlowOver(FALSE) /\ torn' = torn
      BY <1>2 DEF AccountUnreadable, TokenMissing, Running
    <2>2. Owner' /\ Token' /\ BrokenOnlyIfTorn'
      BY <2>1, FlowOverInv DEF IInv
    <2>3. Mended'
      BY <1>2 DEF AccountUnreadable, TokenMissing, diskVars, IInv, Mended
    <2>4. QED  BY <2>2, <2>3 DEF IInv
  <1>3. CASE WriteKey
    <2>1. Running  BY <1>3 DEF WriteKey, Running
    <2>2. Owner' /\ Token' /\ BrokenOnlyIfTorn'
      BY <1>3, <2>1, FlowOverInv DEF WriteKey, IInv
    <2>3. Mended'  BY <1>3 DEF WriteKey, Mended
    <2>4. QED  BY <2>2, <2>3 DEF IInv
  <1>4. CASE \/ LoadAccount \/ CreateAccount \/ AccountWritten
             \/ Order \/ OrderAuthorized \/ Validated \/ Finalize \/ WriteCert
    <2>1. PICK step \in Steps : Goes(step)
      BY <1>4 DEF LoadAccount, CreateAccount, AccountWritten, Order, OrderAuthorized,
                  Validated, Finalize, WriteCert, Steps
    <2>2. Running
      BY <1>4 DEF LoadAccount, CreateAccount, AccountWritten, Order, OrderAuthorized,
                  Validated, Finalize, WriteCert, Running
    <2>3. Owner' /\ BrokenOnlyIfTorn'  BY <2>1, <2>2, GoesInv DEF IInv
    <2>4. Token'
      BY <1>4 DEF LoadAccount, CreateAccount, AccountWritten, Order, OrderAuthorized,
                  Validated, Finalize, WriteCert, Goes, Token
    <2>5. Mended'
      BY <1>4 DEF LoadAccount, CreateAccount, AccountWritten, Order, OrderAuthorized,
                  Validated, Finalize, WriteCert, Goes, histVars, diskVars, IInv, Mended
    <2>6. QED  BY <2>3, <2>4, <2>5 DEF IInv
  <1>5. QED  BY <1>1, <1>2, <1>3, <1>4 DEF FlowStep

LEMMA NextInv ==
  ASSUME IInv, [Next]_vars
  PROVE  IInv'
  <1>1. CASE Boot
    BY <1>1 DEF Boot, flowVars, diskVars, histVars, IInv, Owner, Token, Mended,
                BrokenOnlyIfTorn
  <1>2. CASE Configure
    <2>1. https' = "broken" => torn'
      BY <1>2 DEF Configure, PathsOk, histVars, IInv, Owner, Mended
    <2>2. Owner'
      BY <1>2 DEF Configure, flowVars, IInv, Owner
    <2>3. Token' /\ Mended'
      BY <1>2 DEF Configure, flowVars, diskVars, histVars, IInv, Token, Mended
    <2>4. QED  BY <2>1, <2>2, <2>3 DEF IInv, BrokenOnlyIfTorn
  <1>3. CASE Crash \/ DelayedRestart
    BY <1>3, RestartsInv DEF Crash, DelayedRestart
  <1>4. CASE FlowStep  BY <1>4, FlowStepInv
  <1>5. CASE Day
    <2>1. cert' # NoCert => cert # NoCert  BY <1>5, DaysAssumption DEF Day
    <2>2. QED
      BY <1>5, <2>1 DEF Day, HasTask, Running, flowVars, IInv, Owner, Token, Mended,
                        BrokenOnlyIfTorn
  <1>6. CASE Daily
    <2>1. Owner'  BY <1>6 DEF Daily, flowVars, IInv, Owner
    <2>2. Token' /\ BrokenOnlyIfTorn'
      BY <1>6 DEF Daily, flowVars, histVars, IInv, Token, BrokenOnlyIfTorn
    <2>3. Mended'  BY <1>6 DEF Daily, flowVars, diskVars, histVars, IInv, Owner, Mended
    <2>4. QED  BY <2>1, <2>2, <2>3 DEF IInv
  <1>7. CASE PostAcme \/ \E b \in BOOLEAN : PostTls(b)
    <2>1. /\ UNCHANGED <<flow, challenge, bound, proc, live, https, due, cert, key, pair,
                         torn>>
          /\ restarting => restarting'
      BY <1>7 DEF PostAcme, PostTls, flowVars, diskVars
    <2>2. QED  BY <2>1 DEF IInv, Owner, Token, Mended, BrokenOnlyIfTorn
  <1>8. CASE UNCHANGED vars
    BY <1>8 DEF vars, flowVars, diskVars, procVars, histVars, IInv, Owner, Token,
                Mended, BrokenOnlyIfTorn
  <1>9. QED
    BY <1>1, <1>2, <1>3, <1>4, <1>5, <1>6, <1>7, <1>8 DEF Next, FlowStep

-----------------------------------------------------------------------------
\* The parts are inductive together.
THEOREM Invariance == Spec => []IInv
  BY InitInv, NextInv, PTL DEF Spec

\* http_port has at most one owner; when the authority looks for the token it is in the
\* map, and the port is the startup flow's or, unless it could not bind, the redirect
\* listener's (acme.rs:270, proxy.rs:279).
THEOREM ChallengesServed == Spec => []ChallengeServed
  <1>1. ASSUME IInv PROVE ChallengeServed
    <2>1. bound = {} \/ \E x : bound = {x}  BY <1>1 DEF IInv, Owner
    <2>2. Cardinality(bound) <= 1
      <3>1. CASE bound = {}  BY <3>1, FS_EmptySet
      <3>2. ASSUME NEW x, bound = {x} PROVE Cardinality(bound) <= 1
        <4>1. Cardinality(bound) = 1  BY <3>2, FS_Singleton
        <4>2. QED  BY <4>1
      <3>3. QED  BY <2>1, <3>1, <3>2
    <2>3. ASSUME flow = "validate"
          PROVE  /\ challenge
                 /\ IF proc = "issue" THEN bound = {"temp"} ELSE bound \subseteq {"redirect"}
      BY <1>1, <2>3 DEF IInv, Owner, Token
    <2>4. QED  BY <2>2, <2>3 DEF ChallengeServed
  <1>2. QED  BY Invariance, <1>1, PTL

\* TLS is up with files that do not belong together only after a flow ended
\* between cert.pem and key.pem (acme.rs:328-333), or while the restart that loads the
\* next pair is under way.
THEOREM BrokenOnlyByTearing == Spec => []BrokenOnlyIfTorn
  <1>1. IInv => BrokenOnlyIfTorn  BY DEF IInv
  <1>2. QED  BY Invariance, <1>1, PTL
-----------------------------------------------------------------------------
(***************************************************************************)
(* How long a certificate lasts.  In the renewal window every day is paid  *)
(* for by a flow that failed, but for one day on which the check is still  *)
(* owed: it is due, its flow runs, or a process that starts will do it.    *)
(***************************************************************************)

Numbers ==
  /\ cert \in (0..Life) \cup {NoCert} /\ served \in (0..Life) \cup {NoCert}
  /\ missed \in 0..RenewWithin

Rested == proc \in {"configure", "serve"} /\ mgr /\ ~due /\ ~Running

\* The days left on disk.  A certificate that is being replaced is a new one.
Paid ==
  /\ ~torn /\ ~lapsed /\ cert # NoCert =>
       /\ cert + missed + 1 >= RenewWithin
       /\ Rested => cert + missed >= RenewWithin
  /\ flow = "key" => cert = Life

\* Pingora serves what is on disk, but while key.pem is still to be written: then
\* it serves the predecessor, which had a check to its credit.
Current ==
  proc = "serve" /\ https = "up" /\ mgr /\ ~restarting /\ ~torn /\ ~lapsed =>
    \/ served = cert
    \/ flow = "key" /\ served # NoCert /\ served + missed + 1 >= RenewWithin

\* TLS that is up with a certificate of ACME's has one on disk, and a renewal task.
Live ==
  /\ https = "up" => proc = "serve" /\ live
  /\ https = "up" /\ mgr => cert # NoCert

DInv == Numbers /\ Paid /\ Current /\ Live

LEMMA DayNumbers ==
  /\ Life \in Nat /\ RenewWithin \in Nat /\ 1 <= RenewWithin /\ RenewWithin <= Life
  /\ NoCert \notin Nat /\ NoCert \notin 0..Life /\ Life \in 0..Life
  BY DaysAssumption

LEMMA InitDInv == Init => DInv
  BY DayNumbers DEF Init, DInv, Numbers, Paid, Current, Live, Rested

\* A failed flow counts; with RenewWithin failures all days are paid for.
LEMMA FailCounts ==
  ASSUME Numbers, missed' = IF missed < RenewWithin THEN missed + 1 ELSE missed
  PROVE  /\ missed' \in 0..RenewWithin /\ missed' >= missed
         /\ \A d \in Nat : d + missed + 1 >= RenewWithin => d + missed' >= RenewWithin
  BY DayNumbers DEF Numbers

LEMMA RestartsDInv ==
  ASSUME DInv, Restarts
  PROVE  DInv'
  BY DEF Restarts, diskVars, DInv, Numbers, Paid, Current, Live, Rested

LEMMA BootDInv ==
  ASSUME DInv, Boot
  PROVE  DInv'
  <1>1. UNCHANGED <<cert, served, missed, torn, lapsed, https, live>> /\ proc' # "serve"
    BY DEF Boot, diskVars, histVars
  <1>2. Numbers' /\ Current' /\ Live'
    BY <1>1 DEF Boot, DInv, Numbers, Current, Live
  <1>3. flow' # "key" \/ flow' = flow  BY DEF Boot, flowVars
  <1>4. ASSUME Rested', cert # NoCert PROVE cert >= RenewWithin
    <2>1. ~NeedsRenew  BY <1>4 DEF Boot, Rested
    <2>2. QED  BY <1>4, <2>1, DayNumbers DEF NeedsRenew, DInv, Numbers
  <1>5. Paid'
    BY <1>1, <1>3, <1>4, DayNumbers DEF DInv, Paid, Numbers
  <1>6. QED  BY <1>2, <1>5 DEF DInv

LEMMA ConfigureDInv ==
  ASSUME DInv, Configure
  PROVE  DInv'
  <1>1. /\ UNCHANGED <<cert, missed, torn, lapsed, flow, mgr, due>>
        /\ proc = "configure" /\ proc' = "serve"
    BY DEF Configure, diskVars, flowVars
  <1>2. served' \in {cert, NoCert}  BY DEF Configure
  <1>3. https' = "up" => live'  BY DEF Configure
  <1>4. https' = "up" /\ mgr' => served' = cert /\ cert # NoCert
    BY DEF Configure, PathsOk
  <1>5. Rested' => Rested  BY <1>1 DEF Rested, Running
  <1>6. QED
    BY <1>1, <1>2, <1>3, <1>4, <1>5 DEF DInv, Numbers, Paid, Current, Live

\* A step within the flow that leaves the certificate alone.
LEMMA GoesDInv ==
  ASSUME DInv, Running, NEW step \in Steps \ {"idle", "key"}, Goes(step), flow # "key",
         UNCHANGED cert
  PROVE  DInv'
  <1>1. /\ UNCHANGED <<cert, served, missed, torn, lapsed, https, live, proc, mgr, due,
                       restarting>>
        /\ flow' # "key" /\ flow' # "idle"
    BY DEF Goes, procVars, histVars
  <1>2. ~Rested'  BY <1>1 DEF Rested, Running
  <1>3. QED  BY <1>1, <1>2 DEF DInv, Numbers, Paid, Current, Live

LEMMA WriteCertDInv ==
  ASSUME DInv, WriteCert
  PROVE  DInv'
  <1>1. /\ UNCHANGED <<served, missed, torn, lapsed, https, live, proc, mgr, due, restarting>>
        /\ flow = "cert" /\ flow' = "key" /\ cert' = Life
    BY DEF WriteCert, Goes, procVars, histVars
  <1>2. Numbers'  BY <1>1, DayNumbers DEF DInv, Numbers
  <1>3. Life + missed >= RenewWithin /\ missed \in Nat  BY DayNumbers DEF DInv, Numbers
  <1>4. Paid'  BY <1>1, <1>3, DayNumbers DEF Paid
  <1>5. Current'  BY <1>1 DEF DInv, Current, Paid, Live
  <1>6. Live'  BY <1>1, DayNumbers DEF DInv, Live
  <1>7. QED  BY <1>2, <1>4, <1>5, <1>6 DEF DInv

\* What the end of a flow leaves alone.
LEMMA FlowOverFrame ==
  ASSUME NEW ok \in BOOLEAN, FlowOver(ok)
  PROVE  /\ UNCHANGED <<served, https, live, mgr, due>> /\ flow' = "idle"
         /\ proc' = proc \/ (proc = "issue" /\ proc' = "configure")
         /\ restarting => restarting'
         /\ ok /\ proc = "serve" => restarting'
         /\ ~ok /\ lapsed => lapsed'
  BY DEF FlowOver, procVars

LEMMA FlowLostDInv ==
  ASSUME IInv, DInv, Running, FlowOver(FALSE), torn => torn',
         \/ UNCHANGED cert /\ (flow = "key" => torn')
         \/ cert' = Life /\ torn'
  PROVE  DInv'
  <1>1. /\ UNCHANGED <<served, https, live, mgr, due>> /\ flow' = "idle"
        /\ proc' = proc \/ (proc = "issue" /\ proc' = "configure")
        /\ restarting => restarting'
        /\ lapsed => lapsed'
    BY FlowOverFrame
  <1>2. missed' = IF missed < RenewWithin THEN missed + 1 ELSE missed
    BY DEF FlowOver
  <1>3. /\ missed' \in 0..RenewWithin /\ missed' >= missed
        /\ \A d \in Nat : d + missed + 1 >= RenewWithin => d + missed' >= RenewWithin
    BY <1>2, FailCounts DEF DInv
  <1>4. Numbers'  BY <1>1, <1>3, DayNumbers DEF DInv, Numbers
  <1>5. Paid'
    <2>1. ASSUME ~torn', ~lapsed', cert' # NoCert PROVE cert' + missed' >= RenewWithin
      <3>1. UNCHANGED cert /\ ~torn /\ ~lapsed  BY <1>1, <2>1
      <3>2. cert \in Nat /\ cert + missed + 1 >= RenewWithin
        BY <2>1, <3>1 DEF DInv, Numbers, Paid
      <3>3. QED  BY <1>3, <3>1, <3>2
    <2>2. cert' # NoCert => cert' \in Nat /\ missed' \in Nat
      BY <1>4, DayNumbers DEF Numbers
    <2>3. QED  BY <1>1, <2>1, <2>2, DayNumbers DEF Paid
  <1>6. Live'
    <2>1. https = "up" => proc = "serve" /\ live  BY DEF DInv, Live
    <2>2. cert # NoCert => cert' # NoCert  BY DayNumbers
    <2>3. QED  BY <1>1, <2>1, <2>2 DEF DInv, Live
  <1>7. Current'
    <2>1. SUFFICES ASSUME proc' = "serve", https' = "up", mgr', ~restarting', ~torn', ~lapsed'
                   PROVE  served' = cert'
      BY DEF Current
    <2>2. UNCHANGED cert /\ flow # "key" /\ proc = "serve" /\ ~restarting /\ ~torn /\ ~lapsed
      BY <1>1, <2>1
    <2>3. QED  BY <1>1, <2>1, <2>2 DEF DInv, Current
  <1>8. QED  BY <1>4, <1>5, <1>6, <1>7 DEF DInv

LEMMA WriteKeyDInv ==
  ASSUME DInv, WriteKey
  PROVE  DInv'
  <1>1. /\ UNCHANGED <<served, https, live, mgr, due>> /\ flow' = "idle"
        /\ proc' = proc \/ (proc = "issue" /\ proc' = "configure")
        /\ proc = "serve" => restarting'
    BY FlowOverFrame DEF WriteKey
  <1>2. missed' = 0 /\ UNCHANGED cert /\ cert = Life
    BY DEF WriteKey, FlowOver, DInv, Paid
  <1>3. Numbers'  BY <1>1, <1>2, DayNumbers DEF DInv, Numbers
  <1>4. Paid'  BY <1>1, <1>2, DayNumbers DEF Paid
  <1>5. Current' /\ Live'  BY <1>1, <1>2 DEF DInv, Current, Live
  <1>6. QED  BY <1>3, <1>4, <1>5 DEF DInv

LEMMA FlowStepDInv ==
  ASSUME IInv, DInv, FlowStep
  PROVE  DInv'
  <1>1. CASE FlowFails
    <2>1. /\ Running /\ FlowOver(FALSE) /\ (torn => torn')
          /\ \/ UNCHANGED cert /\ (flow = "key" => torn')
             \/ cert' = Life /\ torn'
      BY <1>1 DEF FlowFails
    <2>2. QED  BY <2>1, FlowLostDInv
  <1>2. CASE AccountUnreadable \/ TokenMissing
    <2>1. /\ Running /\ FlowOver(FALSE) /\ torn' = torn
          /\ UNCHANGED cert /\ flow # "key"
      BY <1>2 DEF AccountUnreadable, TokenMissing, diskVars, Running
    <2>2. QED  BY <2>1, FlowLostDInv
  <1>3. CASE \/ LoadAccount \/ CreateAccount \/ AccountWritten \/ Order \/ OrderAuthorized
             \/ Validated \/ Finalize
    <2>1. PICK step \in Steps \ {"idle", "key"} : Goes(step)
      BY <1>3 DEF LoadAccount, CreateAccount, AccountWritten, Order, OrderAuthorized,
                  Validated, Finalize, Steps
    <2>2. Running /\ flow # "key" /\ UNCHANGED cert
      BY <1>3 DEF LoadAccount, CreateAccount, AccountWritten, Order, OrderAuthorized,
                  Validated, Finalize, Running, diskVars
    <2>3. QED  BY <2>1, <2>2, GoesDInv
  <1>4. QED  BY <1>1, <1>2, <1>3, WriteCertDInv, WriteKeyDInv DEF FlowStep

\* A day shortens the certificate on disk and the one that is served alike, and
\* the check is owed again.
LEMMA DayDInv ==
  ASSUME DInv, Day
  PROVE  DInv'
  <1>1. /\ UNCHANGED <<flow, missed, torn, https, live, proc, mgr, restarting>>
        /\ proc = "serve" /\ ~due /\ ~Running /\ flow = "idle"
        /\ cert' = (IF cert \in 1..Life THEN cert - 1 ELSE cert)
        /\ served' = (IF served \in 1..Life THEN served - 1 ELSE served)
    BY DEF Day, flowVars, Running
  <1>2. /\ lapsed => lapsed'
        /\ live /\ mgr => due'
        /\ ~(live /\ mgr) => lapsed'
    BY DEF Day, HasTask
  <1>3. Numbers'  BY <1>1, DayNumbers DEF DInv, Numbers
  <1>4. cert' # NoCert <=> cert # NoCert  BY <1>1, DayNumbers DEF DInv, Numbers
  <1>5. Paid'
    <2>1. ASSUME ~torn', ~lapsed', cert' # NoCert
          PROVE  cert' + missed' + 1 >= RenewWithin /\ ~Rested'
      <3>1. live /\ mgr /\ due' /\ ~lapsed  BY <1>2, <2>1
      <3>2. Rested  BY <1>1, <3>1 DEF Rested
      <3>3. cert \in 0..Life /\ missed \in Nat /\ cert + missed >= RenewWithin
        BY <1>1, <1>4, <2>1, <3>1, <3>2 DEF DInv, Numbers, Paid
      <3>4. cert' + missed + 1 >= RenewWithin  BY <1>1, <3>3, DayNumbers
      <3>5. QED  BY <1>1, <3>1, <3>4 DEF Rested
    <2>2. QED  BY <1>1, <2>1 DEF Paid
  <1>6. Current'  BY <1>1, <1>2 DEF DInv, Current
  <1>7. Live'  BY <1>1, <1>4 DEF DInv, Live
  <1>8. QED  BY <1>3, <1>5, <1>6, <1>7 DEF DInv

LEMMA DailyDInv ==
  ASSUME IInv, DInv, Daily
  PROVE  DInv'
  <1>1. /\ UNCHANGED <<cert, served, missed, torn, lapsed, https, live, proc, mgr, restarting>>
        /\ flow = "idle" /\ flow' # "key"
    BY DEF Daily, diskVars, histVars, flowVars, IInv, Owner
  <1>2. ASSUME Rested', cert # NoCert PROVE cert >= RenewWithin
    <2>1. ~NeedsRenew  BY <1>2 DEF Daily, Rested, Running
    <2>2. QED  BY <1>2, <2>1, DayNumbers DEF NeedsRenew, DInv, Numbers
  <1>3. Paid'  BY <1>1, <1>2, DayNumbers DEF DInv, Paid, Numbers
  <1>4. Numbers' /\ Current' /\ Live'  BY <1>1 DEF DInv, Numbers, Current, Live
  <1>5. QED  BY <1>3, <1>4 DEF DInv

LEMMA PostDInv ==
  ASSUME DInv, PostAcme \/ \E b \in BOOLEAN : PostTls(b)
  PROVE  DInv'
  <1>1. /\ UNCHANGED <<cert, served, missed, torn, lapsed, https, live, proc, mgr, due, flow>>
        /\ restarting => restarting'
    BY DEF PostAcme, PostTls, diskVars, flowVars
  <1>2. QED  BY <1>1 DEF DInv, Numbers, Paid, Current, Live, Rested, Running

LEMMA NextDInv ==
  ASSUME IInv, DInv, [Next]_vars
  PROVE  DInv'
  <1>1. CASE Crash \/ DelayedRestart
    BY <1>1, RestartsDInv DEF Crash, DelayedRestart
  <1>2. CASE UNCHANGED vars
    BY <1>2 DEF vars, diskVars, flowVars, procVars, histVars, DInv, Numbers, Paid,
                Current, Live, Rested, Running
  <1>3. CASE FlowStep  BY <1>3, FlowStepDInv
  <1>4. QED
    BY <1>1, <1>2, <1>3, BootDInv, ConfigureDInv, DayDInv, DailyDInv, PostDInv
    DEF Next, FlowStep

-----------------------------------------------------------------------------
\* The certificate Pingora serves under ACME only runs out after flows failed on
\* every day of the renewal window but one, or a flow was torn, or it aged with no
\* renewal task, or when the restart that loads its successor is under way; for any
\* life of a certificate and any renewal window (acme.rs:355-380, main.rs:165).
THEOREM ExpiryExplained == Spec => []NeverExpires
  <1>1. ASSUME DInv PROVE NeverExpires
    <2>1. SUFFICES ASSUME https = "up", mgr, served = 0, ~restarting, ~torn, ~lapsed
                   PROVE  missed >= RenewWithin - 1
      BY DEF NeverExpires
    <2>2. proc = "serve" /\ cert # NoCert  BY <1>1, <2>1 DEF DInv, Live
    <2>3. served + missed + 1 >= RenewWithin
      BY <1>1, <2>1, <2>2 DEF DInv, Current, Paid
    <2>4. missed \in Nat /\ RenewWithin \in Nat  BY <1>1, DayNumbers DEF DInv, Numbers
    <2>5. QED  BY <2>1, <2>3, <2>4
  <1>2. QED  BY InitDInv, NextDInv, Invariance, <1>1, PTL DEF Spec
=============================================================================
