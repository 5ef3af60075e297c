-------------------------- MODULE RouteTable_proofs --------------------------
(***************************************************************************)
(* RouteTable's invariants for every set of paths, ports and hosts, every  *)
(* domain, and every order in which resolve meets the entries.             *)
(***************************************************************************)
EXTENDS RouteTable, TLAPS

\* set has kept the reserved prefix out of the table.
NoAdminRoute == \A r \in Entries : ~is_admin_path(r)

Visited == Entries \ todo

\* The loop invariant of resolve: best is the longest match among the entries
\* visited so far.
ScanInv ==
  /\ pc = "idle" => best = None
  /\ pc = "scan" =>
       /\ ForApp
       /\ routes[path] = None
       /\ todo \subseteq Entries
       /\ best = None => \A r \in Visited : ~StartsWith(path, r)
       /\ best # None =>
            /\ best \in Visited /\ StartsWith(path, best)
            /\ \A r \in Visited : StartsWith(path, r) => Len(r) <= Len(best)

IInv == TypeOK /\ NoAdminRoute /\ ScanInv /\ LongestPrefix /\ OwnPath

-----------------------------------------------------------------------------

\* The lengths of paths are natural numbers.
LEMMA PathLen == \A p \in Paths : Len(p) \in Nat
<1> SUFFICES ASSUME NEW p \in Paths PROVE Len(p) \in Nat
  OBVIOUS
<1>1. p \in Seq(Chars)
  BY RouteAssumption
<1> QED
  BY <1>1

\* A path is a prefix of itself.
LEMMA PrefixSelf == \A p \in Paths : StartsWith(p, p)
<1> SUFFICES ASSUME NEW p \in Paths PROVE StartsWith(p, p)
  OBVIOUS
<1>1. p \in Seq(Chars)
  BY RouteAssumption
<1>2. SubSeq(p, 1, Len(p)) = p
  BY <1>1
<1> QED
  BY <1>1, <1>2 DEF StartsWith

\* At most one entry is the longest prefix: two of the same length are equal.
LEMMA LongestUnique ==
  ASSUME NEW p \in Paths, NEW r \in Paths, NEW t \in Paths,
         IsLongest(r, p), IsLongest(t, p)
  PROVE  r = t
<1>1. Len(r) <= Len(t) /\ Len(t) <= Len(r)
  BY DEF IsLongest
<1>2. Len(r) = Len(t)
  BY <1>1, PathLen
<1> QED
  BY <1>2 DEF IsLongest, StartsWith

\* The table is empty and no request is being served.
LEMMA InitInv == Init => IInv
<1> SUFFICES ASSUME Init PROVE IInv
  OBVIOUS
<1>1. TypeOK
  BY DEF Init, TypeOK
<1>2. Entries = {}
  BY DEF Init, Entries
<1> QED
  BY <1>1, <1>2 DEF Init, IInv, NoAdminRoute, ScanInv, LongestPrefix, OwnPath

\* Types, one step per action.
LEMMA TypeStep == IInv /\ [Next]_vars => TypeOK'
<1> SUFFICES ASSUME IInv, [Next]_vars PROVE TypeOK'
  OBVIOUS
<1> USE DEF IInv
<1>1. ASSUME NEW p \in Paths, NEW port \in Ports, Set(p, port) PROVE TypeOK'
  BY <1>1 DEF TypeOK, Set, request
<1>2. ASSUME NEW port \in Ports, RemoveByPort(port) PROVE TypeOK'
  BY <1>2 DEF TypeOK, RemoveByPort, request
<1>3. ASSUME NEW h \in Hosts, NEW p \in Paths, Request(h, p) PROVE TypeOK'
  BY <1>3 DEF TypeOK, Request, Answer, Entries
<1>4. ASSUME NEW r \in Paths, Visit(r) PROVE TypeOK'
  BY <1>4 DEF TypeOK, Visit
<1>5. CASE Finish
  BY <1>5 DEF TypeOK, Finish, Found
<1>6. CASE Respond
  BY <1>6 DEF TypeOK, Respond
<1>7. CASE UNCHANGED vars
  BY <1>7 DEF TypeOK, vars, request
<1> QED
  BY <1>1, <1>2, <1>3, <1>4, <1>5, <1>6, <1>7 DEF Next

\* A step that leaves the table alone leaves its entries alone.
LEMMA SameEntries ==
  ASSUME UNCHANGED routes PROVE Entries' = Entries
  BY DEF Entries

\* What a search has found: the entry that Visit ended with, or nothing.
LEMMA FinishCorrect ==
  ASSUME IInv, Finish PROVE LongestPrefix' /\ OwnPath'
<1>1. /\ pc = "scan" /\ todo = {} /\ pc' = "done" /\ peer' = Found
      /\ UNCHANGED <<routes, host, path, todo, best>>
  BY DEF Finish
<1>2. Visited = Entries /\ Entries' = Entries
  BY <1>1, SameEntries DEF Visited
<1>3. CASE best = None
  BY <1>1, <1>2, <1>3 DEF IInv, ScanInv, Found, LongestPrefix, OwnPath
<1>4. CASE best # None
  <2>1. IsLongest(best, path)
    BY <1>1, <1>2, <1>4 DEF IInv, ScanInv, IsLongest
  <2>2. peer' = routes[best] /\ peer' # NotFound /\ best \in Entries
    BY <1>1, <1>4, <2>1, RouteAssumption
    DEF Found, IInv, TypeOK, IsLongest, Entries
  <2>3. LongestPrefix'
    BY <1>1, <1>2, <2>1, <2>2 DEF LongestPrefix, IsLongest
  <2>4. OwnPath'
    BY <1>1 DEF IInv, ScanInv, OwnPath
  <2> QED
    BY <2>3, <2>4
<1> QED
  BY <1>3, <1>4

\* A request that is answered without a search.
LEMMA RequestCorrect ==
  ASSUME IInv, NEW h \in Hosts, NEW p \in Paths, Request(h, p)
  PROVE  ScanInv' /\ LongestPrefix' /\ OwnPath'
<1> USE DEF IInv
<1>1. /\ pc = "idle" /\ best = None /\ host' = h /\ path' = p
      /\ UNCHANGED routes /\ Entries' = Entries
  BY SameEntries DEF Request, ScanInv
<1>2. CASE Domain # None /\ h # Domain /\ Answer(NotFound)
  BY <1>1, <1>2 DEF Answer, ScanInv, LongestPrefix, OwnPath, ForApp
<1>3. CASE is_admin_path(p) /\ Answer(Panel)
  <2>1. routes[p] = None
    BY <1>3 DEF NoAdminRoute, Entries
  <2>2. ~ForApp'
    BY <1>1, <1>3 DEF ForApp, is_admin_path, StartsWith
  <2> QED
    BY <1>1, <1>3, <2>1, <2>2 DEF Answer, ScanInv, LongestPrefix, OwnPath
<1>4. CASE routes[p] # None /\ Answer(routes[p])
  <2>1. p \in Entries /\ routes[p] \in Ports /\ routes[p] # NotFound
    BY <1>4, RouteAssumption DEF Entries, TypeOK
  <2>2. IsLongest(p, p)
    BY <2>1, PrefixSelf DEF IsLongest, StartsWith
  <2> QED
    BY <1>1, <1>4, <2>1, <2>2
    DEF Answer, ScanInv, LongestPrefix, OwnPath, IsLongest
<1>5. CASE /\ Domain \in {None, h} /\ ~is_admin_path(p) /\ routes[p] = None
           /\ pc' = "scan" /\ todo' = Entries /\ UNCHANGED <<best, peer>>
  <2>1. ForApp'
    BY <1>1, <1>5 DEF ForApp, is_admin_path, StartsWith
  <2>2. Visited' = {}
    BY <1>1, <1>5 DEF Visited
  <2> QED
    BY <1>1, <1>5, <2>1, <2>2 DEF ScanInv, LongestPrefix, OwnPath
<1> QED
  BY <1>2, <1>3, <1>4, <1>5 DEF Request

\* One turn of the loop keeps the loop invariant.
LEMMA VisitCorrect ==
  ASSUME IInv, NEW r \in Paths, Visit(r) PROVE ScanInv'
<1> USE DEF IInv
<1>1. /\ pc = "scan" /\ pc' = "scan" /\ r \in todo
      /\ todo' = todo \ {r}
      /\ best' = IF Better(r) THEN r ELSE best
      /\ UNCHANGED <<routes, host, path, peer>>
  BY DEF Visit
<1>2. ForApp' /\ routes'[path'] = None /\ todo' \subseteq Entries'
  BY <1>1, SameEntries DEF ScanInv, ForApp, is_admin_path, StartsWith
<1>3. Visited' = Visited \cup {r} /\ Visited \subseteq Paths /\ None \notin Paths
  BY <1>1, SameEntries, RouteAssumption DEF Visited, ScanInv, Entries
<1>4. CASE Better(r)
  <2>1. best' = r /\ StartsWith(path, r)
    BY <1>1, <1>4 DEF Better
  <2>2. ASSUME NEW t \in Visited', StartsWith(path, t) PROVE Len(t) <= Len(r)
    <3>1. CASE t = r
      BY <3>1, PathLen
    <3>2. CASE t # r
      <4>1. t \in Visited /\ best # None
        BY <1>1, <1>3, <2>2, <3>2 DEF ScanInv
      <4>2. Len(t) <= Len(best) /\ Len(best) < Len(r) /\ best \in Paths
        BY <1>1, <1>3, <1>4, <2>2, <4>1, PathLen DEF ScanInv, Better
      <4> QED
        BY <1>3, <4>1, <4>2, PathLen
    <3> QED
      BY <3>1, <3>2
  <2> QED
    BY <1>1, <1>2, <1>3, <2>1, <2>2 DEF ScanInv, StartsWith
<1>5. CASE ~Better(r)
  <2>1. StartsWith(path, r) => best # None /\ Len(r) <= Len(best)
    <3>1. best # None => best \in Paths
      BY DEF TypeOK
    <3> QED
      BY <1>5, <3>1, PathLen DEF Better
  <2> QED
    BY <1>1, <1>2, <1>3, <1>5, <2>1 DEF ScanInv, StartsWith
<1> QED
  BY <1>4, <1>5

\* Every action keeps the rest of the invariant.
LEMMA SearchStep ==
  IInv /\ [Next]_vars => NoAdminRoute' /\ ScanInv' /\ LongestPrefix' /\ OwnPath'
<1> SUFFICES ASSUME IInv, [Next]_vars
             PROVE  NoAdminRoute' /\ ScanInv' /\ LongestPrefix' /\ OwnPath'
  OBVIOUS
<1> USE DEF IInv
<1>1. ASSUME UNCHANGED routes PROVE NoAdminRoute'
  BY <1>1, SameEntries DEF NoAdminRoute
<1>2. ASSUME pc' = "idle", best' = None
      PROVE  ScanInv' /\ LongestPrefix' /\ OwnPath'
  BY <1>2 DEF ScanInv, LongestPrefix, OwnPath
<1>3. ASSUME NEW p \in Paths, NEW port \in Ports, Set(p, port)
      PROVE  NoAdminRoute' /\ ScanInv' /\ LongestPrefix' /\ OwnPath'
  <2>1. pc' = "idle" /\ best' = None
    BY <1>3 DEF Set, request, ScanInv
  <2>2. NoAdminRoute'
    BY <1>3 DEF Set, MaySet, NoAdminRoute, Entries, TypeOK
  <2> QED
    BY <1>2, <2>1, <2>2
<1>4. ASSUME NEW port \in Ports, RemoveByPort(port)
      PROVE  NoAdminRoute' /\ ScanInv' /\ LongestPrefix' /\ OwnPath'
  <2>1. pc' = "idle" /\ best' = None
    BY <1>4 DEF RemoveByPort, request, ScanInv
  <2>2. NoAdminRoute'
    BY <1>4 DEF RemoveByPort, NoAdminRoute, Entries, TypeOK
  <2> QED
    BY <1>2, <2>1, <2>2
<1>5. ASSUME NEW h \in Hosts, NEW p \in Paths, Request(h, p)
      PROVE  NoAdminRoute' /\ ScanInv' /\ LongestPrefix' /\ OwnPath'
  BY <1>1, <1>5, RequestCorrect DEF Request
<1>6. ASSUME NEW r \in Paths, Visit(r)
      PROVE  NoAdminRoute' /\ ScanInv' /\ LongestPrefix' /\ OwnPath'
  BY <1>1, <1>6, VisitCorrect DEF Visit, LongestPrefix, OwnPath
<1>7. CASE Finish
  BY <1>1, <1>7, FinishCorrect DEF Finish, ScanInv
<1>8. CASE Respond
  BY <1>1, <1>2, <1>8 DEF Respond
<1>9. CASE UNCHANGED vars
  BY <1>1, <1>9, SameEntries DEF vars, request, ScanInv, LongestPrefix, OwnPath,
     ForApp, Visited, IsLongest, StartsWith, is_admin_path
<1> QED
  BY <1>3, <1>4, <1>5, <1>6, <1>7, <1>8, <1>9 DEF Next

-----------------------------------------------------------------------------

\* The inductive invariant of the route table and its search.
THEOREM Invariance == Spec => []IInv
<1>1. Init => IInv
  BY InitInv
<1>2. IInv /\ [Next]_vars => IInv'
  BY TypeStep, SearchStep DEF IInv
<1> QED
  BY <1>1, <1>2, PTL DEF Spec

\* Every variable keeps its type: upstream_peer ends in 404, the panel or a port.
THEOREM TypeCorrect == Spec => []TypeOK
<1>1. IInv => TypeOK
  BY DEF IInv
<1> QED
  BY <1>1, Invariance, PTL

\* resolve answers with the longest matching route for every table, every path and
\* every iteration order of the HashMap.
THEOREM LongestPrefixWins == Spec => []LongestPrefix
<1>1. IInv => LongestPrefix
  BY DEF IInv
<1> QED
  BY <1>1, Invariance, PTL

\* A route set is a route served, at least at its own path: the panel's prefix
\* and the routes around it never hide it.
THEOREM RoutesReachable == Spec => []OwnPath
<1>1. IInv => OwnPath
  BY DEF IInv
<1> QED
  BY <1>1, Invariance, PTL

\* Two searches for the same path in the same table agree, although each meets the
\* entries in an order of its own: the longest prefix is unique.
THEOREM OrderIrrelevant ==
  \A p, r, t \in Paths : IsLongest(r, p) /\ IsLongest(t, p) => routes[r] = routes[t]
  BY LongestUnique
=============================================================================
