----------------------------- MODULE RouteTable -----------------------------
(***************************************************************************)
(* The route table of the reverse proxy (kdcts/src/proxy.rs): set and      *)
(* remove_by_port, and how upstream_peer finds the peer of a request.      *)
(*                                                                         *)
(* A path is a sequence of characters.  resolve walks over a HashMap, in   *)
(* an order the model leaves open: one Visit per entry, in any order.  The *)
(* request holds the table's read lock meanwhile, so the table does not    *)
(* change under it.                                                        *)
(***************************************************************************)
EXTENDS Naturals, Sequences, FiniteSets

CONSTANTS
  Chars,        \* characters
  Paths,        \* paths of routes and of requests
  Ports,        \* pool ports that routes lead to
  Hosts,        \* what a request can name as its host
  Domain,       \* the configured domain, or None to accept every host
  AdminPrefix,  \* "/admin"
  AdminSlash,   \* "/admin/"
  MaxRoutes,    \* bound: size of the table
  None, NotFound, Panel

ASSUME RouteAssumption ==
  /\ Paths \subseteq Seq(Chars)
  /\ AdminPrefix \in Paths /\ AdminSlash \in Paths
  /\ Domain \in Hosts \cup {None}
  /\ MaxRoutes \in Nat
  /\ None \notin Paths /\ None \notin Ports
  /\ NotFound \notin Ports /\ Panel \notin Ports /\ NotFound # Panel

VARIABLES
  routes,       \* path -> port (None: no such entry)
  pc,           \* of the request being served
  host, path,   \* of that request
  todo,         \* entries that resolve has not visited yet
  best,         \* the best entry so far
  peer          \* the outcome

request == <<pc, host, path, todo, best, peer>>
vars == <<routes, request>>

TypeOK ==
  /\ routes \in [Paths -> Ports \cup {None}]
  /\ pc \in {"idle", "scan", "done"}
  /\ host \in Hosts /\ path \in Paths
  /\ todo \in SUBSET Paths
  /\ best \in Paths \cup {None}
  /\ peer \in Ports \cup {None, NotFound, Panel}

\* str::starts_with
StartsWith(p, r) == Len(r) <= Len(p) /\ SubSeq(p, 1, Len(r)) = r

is_admin_path(p) == p = AdminPrefix \/ StartsWith(p, AdminSlash)

Entries == {r \in Paths : routes[r] # None}

Init ==
  /\ routes = [p \in Paths |-> None]
  /\ pc = "idle"
  /\ host \in Hosts /\ path \in Paths
  /\ todo = {} /\ best = None /\ peer = None

-----------------------------------------------------------------------------

\* Bug: the reserved prefix is not refused.
MaySetAny(p) == routes[p] = None

\* Refused: a path under /admin, and one that is taken.
MaySet(p) == ~is_admin_path(p) /\ routes[p] = None

Set(p, port) ==
  /\ pc = "idle"
  /\ MaySet(p)
  /\ Cardinality(Entries) < MaxRoutes
  /\ routes' = [routes EXCEPT ![p] = port]
  /\ UNCHANGED request

RemoveByPort(port) ==
  /\ pc = "idle"
  /\ routes' = [p \in Paths |-> IF routes[p] = port THEN None ELSE routes[p]]
  /\ UNCHANGED request

Answer(x) == pc' = "done" /\ peer' = x /\ UNCHANGED <<todo, best>>

\* A request for another host, for the panel, for the exact path of a route, or
\* one that resolve has to search for.
Request(h, p) ==
  /\ pc = "idle"
  /\ host' = h /\ path' = p
  /\ \/ /\ Domain # None /\ h # Domain
        /\ Answer(NotFound)
     \/ /\ Domain \in {None, h} /\ is_admin_path(p)
        /\ Answer(Panel)
     \/ /\ Domain \in {None, h} /\ ~is_admin_path(p) /\ routes[p] # None
        /\ Answer(routes[p])
     \/ /\ Domain \in {None, h} /\ ~is_admin_path(p) /\ routes[p] = None
        /\ pc' = "scan" /\ todo' = Entries /\ UNCHANGED <<best, peer>>
  /\ UNCHANGED routes

\* Bug: the first match stays the best.
BetterFirst(r) == StartsWith(path, r) /\ best = None

\* A match replaces a shorter one, or none at all.
Better(r) == StartsWith(path, r) /\ (best = None \/ Len(r) > Len(best))

Visit(r) ==
  /\ pc = "scan" /\ r \in todo
  /\ todo' = todo \ {r}
  /\ best' = IF Better(r) THEN r ELSE best
  /\ UNCHANGED <<routes, pc, host, path, peer>>

Found == IF best = None THEN NotFound ELSE routes[best]

Finish ==
  /\ pc = "scan" /\ todo = {}
  /\ pc' = "done" /\ peer' = Found
  /\ UNCHANGED <<routes, host, path, todo, best>>

\* The connection is handed to the peer and the lock released.
Respond ==
  /\ pc = "done"
  /\ pc' = "idle" /\ best' = None /\ peer' = None
  /\ UNCHANGED <<routes, host, path, todo>>

Next ==
  \/ \E p \in Paths, port \in Ports : Set(p, port)
  \/ \E port \in Ports : RemoveByPort(port)
  \/ \E h \in Hosts, p \in Paths : Request(h, p)
  \/ \E r \in Paths : Visit(r)
  \/ Finish
  \/ Respond

Spec == Init /\ [][Next]_vars

-----------------------------------------------------------------------------
(***************************************************************************)
(* Properties.                                                             *)
(***************************************************************************)

\* r is the longest route that is a prefix of p.
IsLongest(r, p) ==
  /\ r \in Entries /\ StartsWith(p, r)
  /\ \A t \in Entries : StartsWith(p, t) => Len(t) <= Len(r)

ForApp == Domain \in {None, host} /\ ~is_admin_path(path)

\* Whatever the order of the HashMap, upstream_peer answers with the longest route
\* that is a prefix of the path, and with 404 only if there is none: "longest-
\* prefix matching on the route table".
LongestPrefix ==
  (pc = "done" /\ ForApp) =>
    IF peer = NotFound
      THEN \A r \in Entries : ~StartsWith(path, r)
      ELSE \E r \in Entries : IsLongest(r, path) /\ peer = routes[r]

\* A path that was given a route is served by that route: set refuses what
\* upstream_peer would send to the panel, and no other route hides it.
OwnPath ==
  (pc = "done" /\ Domain \in {None, host} /\ routes[path] # None)
    => peer = routes[path]
=============================================================================
