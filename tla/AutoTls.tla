------------------------------ MODULE AutoTls ------------------------------
(***************************************************************************)
(* TLS of kdcts: the settings that outlive the process, the decisions of   *)
(* start_server, the ACME flow (at startup behind a listener of its own,   *)
(* later behind the redirect listener), the daily renewal, and the         *)
(* restarts that the panel, a renewal or a crash cause in the middle of    *)
(* it.  On disk: the account, cert.pem with its days left, key.pem.        *)
(*                                                                         *)
(* The certificate authority and Pingora are modelled from their use: the  *)
(* authority answers or fails at every step; Pingora loads the files once, *)
(* and cannot serve TLS when certificate and key do not belong together.   *)
(***************************************************************************)
EXTENDS Naturals, FiniteSets

CONSTANTS
  NoCert,      \* there is no cert.pem
  Life,        \* days a new certificate is valid
  RenewWithin, \* RENEW_WITHIN_DAYS
  MaxFaults,   \* bound: failures of the flow, and crashes
  MaxPosts     \* bound: settings posted by the panel

ASSUME DaysAssumption ==
  Life \in Nat /\ RenewWithin \in 1..Life /\ NoCert \notin Nat
ASSUME BoundsAssumption == MaxFaults \in Nat /\ MaxPosts \in Nat

VARIABLES
  domain, toml, manual,  \* server.toml: domain, [server.acme] enabled, own key files
  acmeKey, email,        \* database: acme_enabled, acme_email
  tlsEnabled,            \* database: tls_enabled
  account, cert, key,    \* state_dir: account.json, days left in cert.pem, key.pem
  pair,                  \* cert.pem and key.pem belong together
  proc,                  \* the process: "boot", "issue", "configure", "serve"
  mgr,                   \* it has an AcmeManager
  flow,                  \* where run_acme_flow is
  challenge,             \* the challenge map has the order's token
  bound,                 \* listeners that own http_port
  configurable, live,    \* tls_configurable, tls_live
  https,                 \* the TLS listener: "off", "up", "broken"
  served,                \* days left in the certificate Pingora loaded
  due,                   \* the daily tick of the renewal task
  restarting,            \* a delayed_restart thread runs
  faults, posts,         \* counters for the bounds
  missed,                \* history: flows that failed since the last that did not
  lapsed,                \* history: the certificate aged with no renewal task
  torn                   \* history: a flow ended while it was replacing the files,
                         \* and none has succeeded since

confVars == <<domain, toml, manual>>
dbVars == <<acmeKey, email, tlsEnabled>>
diskVars == <<account, cert, key, pair>>
flowVars == <<flow, challenge>>
procVars == <<proc, mgr, configurable, live, https, served, due, restarting>>
histVars == <<faults, posts, missed, lapsed, torn>>
vars == <<confVars, dbVars, diskVars, flowVars, bound, procVars, histVars>>

Steps == {"idle", "begin", "account", "order", "validate", "finalize", "cert", "key"}

\* Types of the settings, the files and the process.
TypeOK ==
  /\ {domain, toml, manual, email, tlsEnabled, key, pair, mgr, challenge, live, due,
      configurable, restarting, lapsed, torn} \subseteq BOOLEAN
  /\ acmeKey \in {"absent", "true", "false"}
  /\ account \in {"none", "torn", "ok"} /\ cert \in (0..Life) \cup {NoCert}
  /\ proc \in {"boot", "issue", "configure", "serve"} /\ flow \in Steps
  /\ bound \subseteq {"temp", "plain", "redirect"}
  /\ https \in {"off", "up", "broken"} /\ served \in (0..Life) \cup {NoCert}
  /\ faults \in 0..MaxFaults /\ posts \in 0..MaxPosts
  /\ missed \in 0..RenewWithin

Init ==
  /\ domain \in BOOLEAN /\ toml \in BOOLEAN /\ manual \in BOOLEAN
  /\ acmeKey = "absent" /\ email = FALSE /\ tlsEnabled = FALSE
  /\ account = "none" /\ cert = NoCert /\ key = FALSE /\ pair = FALSE
  /\ proc = "boot" /\ mgr = FALSE /\ flow = "idle" /\ challenge = FALSE
  /\ bound = {} /\ configurable = FALSE /\ live = FALSE /\ https = "off" /\ served = NoCert
  /\ due = FALSE /\ restarting = FALSE
  /\ faults = 0 /\ posts = 0 /\ missed = 0 /\ lapsed = FALSE /\ torn = FALSE

Fault == faults < MaxFaults /\ faults' = faults + 1
Post == posts < MaxPosts /\ posts' = posts + 1

-----------------------------------------------------------------------------
(* start_server.                                                           *)

\* Once the panel has written acme_enabled the database decides, with the e-mail
\* of server.toml to fall back on; ACME needs a domain and an e-mail.
AcmeOn ==
  /\ domain
  /\ IF acmeKey = "absent" THEN toml ELSE acmeKey = "true"
  /\ email \/ toml

\* Bug: only a missing certificate is issued.
NeedsIssue == cert = NoCert

\* cert_needs_issue_or_renew
NeedsRenew == cert = NoCert \/ cert < RenewWithin

\* The configuration is read; if it is time, the flow starts with a listener of
\* its own.
Boot ==
  /\ proc = "boot"
  /\ mgr' = AcmeOn
  /\ IF AcmeOn /\ NeedsRenew
     THEN /\ proc' = "issue" /\ flow' = "begin"
          /\ challenge' = FALSE /\ bound' = bound \cup {"temp"}
     ELSE proc' = "configure" /\ UNCHANGED <<flowVars, bound>>
  /\ UNCHANGED <<confVars, dbVars, diskVars, configurable, live, https, served, due,
                 restarting, histVars>>

PathsOk == IF mgr THEN cert /= NoCert /\ key ELSE manual

\* Bug: turning the toggle on is left to the panel.
NotForced == tlsEnabled

\* ACME turns the toggle on once there are files.
Forced == tlsEnabled \/ (mgr /\ PathsOk)

\* The TLS decisions, then run_proxy: TLS and the redirect listener, or plain
\* HTTP on http_port.  If somebody else has http_port, the redirect listener ends
\* with an error in the log, and TLS goes on without it.
Configure ==
  /\ proc = "configure"
  /\ tlsEnabled' = Forced
  /\ configurable' = (domain /\ PathsOk)
  /\ live' = (Forced /\ configurable')
  /\ https' = IF ~live' THEN "off" ELSE IF mgr /\ ~pair THEN "broken" ELSE "up"
  /\ served' = IF live' /\ mgr THEN cert ELSE NoCert
  /\ \/ bound' = bound \cup {IF live' THEN "redirect" ELSE "plain"} /\ UNCHANGED faults
     \/ live' /\ Fault /\ UNCHANGED bound
  /\ proc' = "serve"
  /\ UNCHANGED <<confVars, acmeKey, email, diskVars, flowVars, mgr, due, restarting,
                 posts, missed, lapsed, torn>>

\* The process image is replaced, or a new process started: disk and database
\* stay.  A file that was being written is torn.
Restarts ==
  /\ proc' = "boot" /\ mgr' = FALSE /\ flow' = "idle" /\ challenge' = FALSE
  /\ bound' = {} /\ configurable' = FALSE /\ live' = FALSE /\ https' = "off" /\ served' = NoCert
  /\ due' = FALSE /\ restarting' = FALSE
  /\ torn' = (torn \/ flow = "key")
  /\ UNCHANGED <<confVars, dbVars, diskVars, posts, missed, lapsed>>

Crash == Fault /\ Restarts

\* delayed_restart's thread, 500 ms after a post, or the renewal task's self_restart.
DelayedRestart == restarting /\ Restarts /\ UNCHANGED faults

-----------------------------------------------------------------------------
(* obtain_or_renew.  At every await it may fail or run into its timeout.   *)

Running == flow /= "idle"

\* Bug: start_server is never told.
FlowOverSilent(ok) ==
  /\ flow' = "idle" /\ challenge' = FALSE
  /\ bound' = bound \ {"temp"}
  /\ restarting' = (restarting \/ (ok /\ proc = "serve"))
  /\ missed' = IF ok THEN 0 ELSE IF missed < RenewWithin THEN missed + 1 ELSE missed
  /\ lapsed' = (lapsed /\ ~ok)
  /\ UNCHANGED <<confVars, dbVars, proc, mgr, configurable, live, https, served, due,
                 posts>>

\* The listener stops and the challenges are cleared.  At startup start_server
\* goes on; in the background the renewal task waits for the next day, or
\* restarts the process.
FlowOver(ok) ==
  /\ flow' = "idle" /\ challenge' = FALSE
  /\ bound' = bound \ {"temp"}
  /\ proc' = IF proc = "issue" THEN "configure" ELSE proc
  /\ restarting' = (restarting \/ (ok /\ proc = "serve"))
  /\ missed' = IF ok THEN 0 ELSE IF missed < RenewWithin THEN missed + 1 ELSE missed
  /\ lapsed' = (lapsed /\ ~ok)
  /\ UNCHANGED <<confVars, dbVars, mgr, configurable, live, https, served, due, posts>>

\* The authority refuses, an order stays pending, or 120 s are over.  A write that
\* has begun is finished by its thread; the next one is not begun.
FlowFails ==
  /\ Running /\ Fault
  /\ FlowOver(FALSE)
  /\ account' = IF flow = "account" THEN "ok" ELSE account
  /\ \/ UNCHANGED <<cert, key, pair>> /\ torn' = (torn \/ flow = "key")
     \/ flow = "cert" /\ cert' = Life /\ pair' = FALSE /\ torn' = TRUE /\ UNCHANGED key
     \/ flow = "key" /\ key' = TRUE /\ pair' = TRUE /\ torn' = TRUE /\ UNCHANGED cert

\* Credentials that cannot be parsed fail every flow.
AccountUnreadable ==
  /\ flow = "begin" /\ account = "torn"
  /\ FlowOver(FALSE) /\ UNCHANGED <<diskVars, faults, torn>>

Goes(step) ==
  /\ flow' = step
  /\ UNCHANGED <<confVars, dbVars, bound, procVars, histVars>>

LoadAccount ==
  /\ flow = "begin" /\ account = "ok" /\ Goes("order")
  /\ UNCHANGED <<diskVars, challenge>>

\* A new account's credentials are written in place.
CreateAccount ==
  /\ flow = "begin" /\ account = "none" /\ Goes("account")
  /\ account' = "torn" /\ UNCHANGED <<cert, key, pair, challenge>>

AccountWritten ==
  /\ flow = "account" /\ Goes("order")
  /\ account' = "ok" /\ UNCHANGED <<cert, key, pair, challenge>>

\* Bug: the authority is told before the token is in the map.
OrderReadyFirst ==
  /\ flow = "order" /\ Goes("validate")
  /\ UNCHANGED <<diskVars, challenge>>

\* The token is in the map before the authority is told to look.
Order ==
  /\ flow = "order" /\ Goes("validate")
  /\ challenge' = TRUE /\ UNCHANGED diskVars

\* The authorization of an earlier order is still valid.
OrderAuthorized == flow = "order" /\ Goes("finalize") /\ UNCHANGED <<diskVars, challenge>>

\* Whoever owns http_port finds the token: the startup flow's own listener, or the
\* redirect listener; Pingora's plain listener knows of no challenges.
TokenServed == challenge /\ bound \cap {"temp", "redirect"} /= {}

\* The authority does not find the token, and the order becomes Invalid.
TokenMissing ==
  /\ flow = "validate" /\ ~TokenServed
  /\ FlowOver(FALSE) /\ UNCHANGED <<diskVars, faults, torn>>

\* The authority found the token, and the order became Ready.
Validated ==
  /\ flow = "validate" /\ TokenServed
  /\ Goes("finalize") /\ UNCHANGED <<diskVars, challenge>>

\* finalize returns the private key, certificate the chain.
Finalize == flow = "finalize" /\ Goes("cert") /\ UNCHANGED <<diskVars, challenge>>

\* cert.pem is replaced first, ...
WriteCert ==
  /\ flow = "cert" /\ Goes("key")
  /\ cert' = Life /\ pair' = FALSE /\ UNCHANGED <<account, key, challenge>>

\* Bug: the private key of another order is written.
WriteKeyStale ==
  /\ flow = "key" /\ FlowOver(TRUE)
  /\ key' = TRUE /\ torn' = FALSE /\ UNCHANGED <<account, cert, pair, faults>>

\* ... key.pem second.
WriteKey ==
  /\ flow = "key" /\ FlowOver(TRUE)
  /\ key' = TRUE /\ pair' = TRUE /\ torn' = FALSE /\ UNCHANGED <<account, cert, faults>>

-----------------------------------------------------------------------------
(* The renewal task and the days.                                          *)

HasTask == proc = "serve" /\ live /\ mgr

\* A day goes by; the task's daily check and the flow are over by then.
Day ==
  /\ proc = "serve" /\ ~due /\ ~Running /\ ~restarting
  /\ cert' = IF cert \in 1..Life THEN cert - 1 ELSE cert
  /\ served' = IF served \in 1..Life THEN served - 1 ELSE served
  /\ due' = HasTask /\ lapsed' = (lapsed \/ ~HasTask)
  /\ UNCHANGED <<confVars, dbVars, account, key, pair, flowVars, bound, proc, mgr,
                 configurable, live, https, restarting, faults, posts, missed, torn>>

\* The daily check: with few days left the flow runs, its challenges served by
\* the redirect listener.
Daily ==
  /\ due /\ proc = "serve" /\ due' = FALSE
  /\ IF NeedsRenew THEN flow' = "begin" /\ challenge' = FALSE
     ELSE UNCHANGED flowVars
  /\ UNCHANGED <<confVars, dbVars, diskVars, bound, proc, mgr, configurable, live, https,
                 served, restarting, histVars>>

-----------------------------------------------------------------------------
(* The panel.                                                              *)

\* POST /api/settings: whether TLS can be turned on was decided at startup.
PostTls(want) ==
  /\ proc = "serve" /\ Post
  /\ want => configurable
  /\ tlsEnabled' = want
  /\ restarting' = (restarting \/ want /= live)
  /\ UNCHANGED <<confVars, acmeKey, email, diskVars, flowVars, bound, proc, mgr,
                 configurable, live, https, served, due, faults, missed, lapsed, torn>>

\* POST /api/settings/acme: every field may be left out, and always a restart.
PostAcme ==
  /\ proc = "serve" /\ Post
  /\ acmeKey' \in {acmeKey, "true", "false"} /\ email' \in BOOLEAN
  /\ restarting' = TRUE
  /\ UNCHANGED <<confVars, tlsEnabled, diskVars, flowVars, bound, proc, mgr,
                 configurable, live, https, served, due, faults, missed, lapsed, torn>>

-----------------------------------------------------------------------------
Next ==
  \/ Boot \/ Configure \/ Crash \/ DelayedRestart
  \/ FlowFails \/ AccountUnreadable \/ LoadAccount \/ CreateAccount \/ AccountWritten
  \/ Order \/ OrderAuthorized \/ TokenMissing \/ Validated \/ Finalize \/ WriteCert \/ WriteKey
  \/ Day \/ Daily \/ PostAcme
  \/ \E b \in BOOLEAN : PostTls(b)

Spec == Init /\ [][Next]_vars

\* The process runs.  The flow takes its next step or, at the latest after 120 s,
\* fails; crashes, posts and days need not come.
FlowStep ==
  \/ FlowFails \/ AccountUnreadable \/ LoadAccount \/ CreateAccount \/ AccountWritten
  \/ Order \/ OrderAuthorized \/ TokenMissing \/ Validated \/ Finalize \/ WriteCert \/ WriteKey

Fairness ==
  /\ WF_vars(Boot) /\ WF_vars(Configure) /\ WF_vars(DelayedRestart)
  /\ WF_vars(Daily) /\ WF_vars(FlowStep)

FairSpec == Spec /\ Fairness

-----------------------------------------------------------------------------
(* Properties.                                                             *)

\* While the authority may look at the challenge, the token is in the map and the
\* owner of http_port serves it: at startup the flow's own listener, later the redirect
\* listener, if it could bind, and never Pingora's (acme.rs:270, proxy.rs:279).
\* http_port has one owner at a time: the startup flow's listener is gone before the
\* proxy binds, and a renewal binds nothing (acme.rs:123, proxy.rs:184).
ChallengeServed ==
  /\ Cardinality(bound) <= 1
  /\ flow = "validate" =>
       /\ challenge
       /\ IF proc = "issue" THEN bound = {"temp"} ELSE bound \subseteq {"redirect"}

\* TLS that cannot be served comes only from a flow that ended between replacing
\* cert.pem and key.pem (acme.rs:328-333) and has had no successor that the restart
\* under way would load.
BrokenOnlyIfTorn == https = "broken" => torn \/ restarting

\* The certificate Pingora serves under ACME only runs out after a flow failed on
\* every day of the renewal window, or one was torn, or it aged while ACME was off;
\* or the restart that loads its successor is under way (acme.rs:355-380, main.rs:165).
NeverExpires ==
  https = "up" /\ mgr /\ served = 0 =>
    restarting \/ missed >= RenewWithin - 1 \/ torn \/ lapsed

\* Pingora has what it needs: files that belong together, or http_port.
Serves == proc = "serve" /\ (https = "up" \/ "plain" \in bound)

\* Every start ends with a proxy that serves (main.rs:165, proxy.rs:168-229), whatever
\* the authority does and whoever has the port of the redirect listener, but for TLS
\* files that a flow left torn.
BootEnds == proc /= "serve" ~> Serves \/ torn

\* ACME that is on brings TLS up, unless a flow failed or was torn.
TlsComesUp == (proc = "boot" /\ AcmeOn) ~> https = "up" \/ missed > 0 \/ torn
=============================================================================
