------------------------- MODULE NodeRegistry_proofs -------------------------
(***************************************************************************)
(* The safety of node identity for every set of machines, services and     *)
(* channels, whichever services share a machine or a digest, and any       *)
(* number of restarts and lost files.                                      *)
(***************************************************************************)
EXTENDS NodeRegistry, TLAPS

\* A uuid that is bound, persisted, claimed or assigned has been generated, so a
\* fresh one is none of these.
Generated ==
  /\ \A u \in Uuids : bindings[u] # None => u \in used
  /\ \A m \in Machines : file[m] # None => file[m] \in used
  /\ \A s \in Services : slot[s] # None => slot[s] \in used
  /\ \A c \in Chans : uuid[c] # None => uuid[c] \in used
  /\ \A c \in Chans : assign[c] # None => assign[c] \in used

\* Between resolving a report and announcing it, the uuid is bound to the
\* channel's digest, and it is the channel's own if it has one already.
Resolved ==
  \A c \in Chans : pc[c] \in {"upsert", "announce"} =>
    /\ uuid[c] # None /\ bindings[uuid[c]] = Digest(c)
    /\ node_uuid[c] \in {None, uuid[c]}

\* A channel's own uuid is bound to its digest, and its task is alive.
Identified ==
  \A c \in Chans :
    /\ node_uuid[c] # None =>
         /\ bindings[node_uuid[c]] = Digest(c)
         /\ pc[c] \in {"idle", "upsert", "announce", "cleanup"}
    /\ pc[c] = "cleanup" => node_uuid[c] # None

\* An entry of the registry names a channel that has this very uuid.
Registered ==
  \A u \in Uuids : clients[u] # None => node_uuid[clients[u]] = u

\* Announcements on their way and the rows of client_nodes agree with bindings.
Recorded ==
  /\ \A u \in Uuids : db_digest[u] # None => bindings[u] = db_digest[u]
  /\ \A i \in 1..Len(updates) :
       updates[i].type = "Connected" => bindings[updates[i].uuid] = updates[i].digest

\* A service has one connection at a time.
OneLink ==
  \A c, d \in Chans :
    link[c] = "up" /\ link[d] = "up" /\ OwnerOf[c] = OwnerOf[d] => c = d

\* Until its first report is resolved, a live channel's claim is the uuid its
\* service holds.
Claim ==
  \A c \in Chans :
    link[c] = "up" /\ node_uuid[c] = None /\ pc[c] \in {"idle", "resolve"}
      => uuid[c] = slot[OwnerOf[c]]

\* A channel that announces itself, or that is back in its loop with a uuid to
\* send, has its identity.
Assigned ==
  \A c \in Chans :
    /\ pc[c] = "announce" => node_uuid[c] # None
    /\ assign[c] # None =>
         /\ link[c] = "up"
         /\ pc[c] \in {"idle", "upsert", "announce"}
         /\ pc[c] = "idle" => node_uuid[c] # None

\* A service that is told another uuid than it has may not keep the one it has.
Renaming ==
  \A c \in Chans : assign[c] # None /\ slot[OwnerOf[c]] # None
    => bindings[slot[OwnerOf[c]]] \notin {Digest(c), None}

IInv ==
  /\ TypeOK
  /\ Generated
  /\ Resolved
  /\ Identified
  /\ Registered
  /\ Recorded
  /\ OneLink
  /\ Claim
  /\ Assigned
  /\ Renaming

-----------------------------------------------------------------------------

\* Uuid::new_v4 yields a uuid nobody has seen.
LEMMA FreshIsNew ==
  ASSUME TypeOK, used # Uuids PROVE FreshUuid \in Uuids \ used
<1>1. \E u \in Uuids : u \notin used
  BY DEF TypeOK
<1> QED
  BY <1>1 DEF FreshUuid

\* Nothing is known of anyone in the initial state.
LEMMA InitInv == Init => IInv
<1> SUFFICES ASSUME Init PROVE IInv
  OBVIOUS
<1>1. TypeOK
  <2>1. restarts \in 0..MaxRestarts /\ losses \in 0..MaxLosses
    BY RegistryAssumption DEF Init
  <2>2. /\ file \in [Machines -> Uuids \cup {None}]
        /\ slot \in [Services -> Uuids \cup {None}]
        /\ assign \in [Chans -> Uuids \cup {None}]
        /\ uuid \in [Chans -> Uuids \cup {None}]
        /\ node_uuid \in [Chans -> Uuids \cup {None}]
    BY DEF Init
  <2>3. /\ bindings \in [Uuids -> Digests \cup {None}]
        /\ clients \in [Uuids -> Chans \cup {None}]
        /\ db_digest \in [Uuids -> Digests \cup {None}]
        /\ db_status \in [Uuids -> {"online", "offline"}]
    BY DEF Init
  <2>4. /\ link \in [Chans -> {"none", "up", "late", "down"}]
        /\ pc \in [Chans -> PCs]
        /\ online \in [Chans -> SUBSET Uuids]
    BY DEF Init, PCs
  <2>5. updates \in Seq(Events) /\ used \in SUBSET Uuids
    BY DEF Init
  <2> QED
    BY <2>1, <2>2, <2>3, <2>4, <2>5 DEF TypeOK
<1>2. Generated /\ Resolved /\ Identified /\ Registered /\ Recorded
  BY DEF Init, Generated, Resolved, Identified, Registered, Recorded
<1>3. OneLink /\ Claim /\ Assigned /\ Renaming
  BY DEF Init, OneLink, Claim, Assigned, Renaming
<1> QED
  BY <1>1, <1>2, <1>3 DEF IInv

\* The channels' digests are digests.
LEMMA DigestType == \A c \in Chans :
  /\ OwnerOf[c] \in Services /\ MachineOf[OwnerOf[c]] \in Machines
  /\ Digest(c) \in Digests
  BY RegistryAssumption DEF Digest

\* What resolving a first report comes to, whichever way it goes: the uuid is one
\* that has been generated and is now bound to the channel's digest; no binding is
\* replaced; and the client is told a uuid only if its claim was empty or owned by
\* another digest.
LEMMA Decision ==
  ASSUME TypeOK, Generated, NEW c \in Chans, Decide(c)
  PROVE  /\ \E x \in used' : /\ uuid' = [uuid EXCEPT ![c] = x]
                             /\ bindings'[x] = Digest(c)
                             /\ assign' \in {assign, [assign EXCEPT ![c] = x],
                                             [assign EXCEPT ![c] = None]}
         /\ \A u \in Uuids : bindings[u] # None => bindings'[u] = bindings[u]
         /\ \A u \in Uuids : bindings'[u] # None => u \in used'
         /\ bindings' \in [Uuids -> Digests \cup {None}]
         /\ used \subseteq used' /\ used' \in SUBSET Uuids
         /\ assign'[c] # None /\ assign[c] = None =>
              /\ link[c] = "up"
              /\ uuid[c] # None => bindings[uuid[c]] \notin {Digest(c), None}
<1>1. Digest(c) \in Digests /\ None \notin Digests /\ None \notin Uuids
  BY DigestType, RegistryAssumption
<1>2. CASE /\ uuid[c] # None /\ bindings[uuid[c]] \in {Digest(c), None}
           /\ AcceptClaim(c)
  <2>1. uuid[c] \in used /\ uuid[c] \in Uuids /\ uuid' = [uuid EXCEPT ![c] = uuid[c]]
    BY <1>2 DEF AcceptClaim, Generated, TypeOK
  <2> QED
    BY <1>1, <1>2, <2>1 DEF AcceptClaim, Generated, TypeOK
<1>3. CASE uuid[c] = None /\ RestoreSolo(c)
  <2>1. PICK u \in SoloOffline(c) :
          /\ uuid' = [uuid EXCEPT ![c] = u]
          /\ assign' = [assign EXCEPT ![c] = IF link[c] = "up" THEN u ELSE None]
    BY <1>3 DEF RestoreSolo
  <2>2. u \in Uuids /\ bindings[u] = Digest(c) /\ u \in used
    BY <1>1 DEF SoloOffline, BoundTo, Generated
  <2>3. UNCHANGED <<bindings, used>>
    BY <1>3 DEF RestoreSolo
  <2> QED
    BY <1>1, <1>3, <2>1, <2>2, <2>3 DEF Generated, TypeOK
<1>4. CASE /\ uuid[c] # None => bindings[uuid[c]] \notin {Digest(c), None}
           /\ AssignFresh(c)
  <2> DEFINE f == FreshUuid
  <2>1. f \in Uuids \ used
    BY <1>4, FreshIsNew DEF AssignFresh
  <2>2. /\ uuid' = [uuid EXCEPT ![c] = f]
        /\ bindings' = [bindings EXCEPT ![f] = Digest(c)]
        /\ assign' = [assign EXCEPT ![c] = IF link[c] = "up" THEN f ELSE None]
        /\ used' = used \cup {f}
    BY <1>4 DEF AssignFresh
  <2> HIDE DEF f
  <2>3. bindings[f] = None /\ \A u \in Uuids : bindings[u] # None => u \in used
    BY <2>1 DEF Generated
  <2>4. /\ bindings' \in [Uuids -> Digests \cup {None}] /\ bindings'[f] = Digest(c)
        /\ \A u \in Uuids \ {f} : bindings'[u] = bindings[u]
    BY <1>1, <2>1, <2>2 DEF TypeOK
  <2>5. f \in used' /\ used \subseteq used' /\ used' \in SUBSET Uuids
    BY <2>1, <2>2 DEF TypeOK
  <2>6. assign' \in {assign, [assign EXCEPT ![c] = f], [assign EXCEPT ![c] = None]}
    BY <2>2
  <2>7. assign'[c] # None /\ assign[c] = None => link[c] = "up"
    BY <2>2 DEF TypeOK
  <2>8. /\ \A u \in Uuids : bindings[u] # None => bindings'[u] = bindings[u]
        /\ \A u \in Uuids : bindings'[u] # None => u \in used'
    BY <2>3, <2>4, <2>5
  <2> QED
    BY <1>4, <2>2, <2>4, <2>5, <2>6, <2>7, <2>8
<1> QED
  BY <1>2, <1>3, <1>4 DEF Decide

\* Types, one step per action.
LEMMA TypeStep == IInv /\ [Next]_vars => TypeOK'
<1> SUFFICES ASSUME TypeOK, Generated, Resolved, Identified, [Next]_vars
             PROVE  TypeOK'
  BY DEF IInv
<1>1. ASSUME NEW m \in Machines, NEW x \in Uuids \cup {None}, StartClient(m, x)
      PROVE  TypeOK'
  BY <1>1, RegistryAssumption
  DEF TypeOK, StartClient, localVars, sharedVars, dbVars
<1>2. ASSUME NEW c \in Chans, Connect(c) PROVE TypeOK'
  BY <1>2, DigestType DEF TypeOK, PCs, Connect, sharedVars, dbVars, boundVars
<1>3. ASSUME NEW c \in Chans, SaveAssigned(c) PROVE TypeOK'
  BY <1>3, DigestType
  DEF TypeOK, SaveAssigned, localVars, sharedVars, dbVars, boundVars
<1>4. ASSUME NEW c \in Chans, ClientDrop(c) PROVE TypeOK'
  BY <1>4 DEF TypeOK, ClientDrop, localVars, sharedVars, dbVars, boundVars
<1>5. ASSUME NEW c \in Chans, ReadReport(c) PROVE TypeOK'
  BY <1>5 DEF TypeOK, PCs, ReadReport, sharedVars, dbVars, boundVars
<1>6. ASSUME NEW c \in Chans, Resolve(c) PROVE TypeOK'
  <2>1. PICK x \in used' : /\ uuid' = [uuid EXCEPT ![c] = x]
                           /\ assign' \in {assign, [assign EXCEPT ![c] = x],
                                           [assign EXCEPT ![c] = None]}
    BY <1>6, Decision DEF Resolve
  <2>2. /\ bindings' \in [Uuids -> Digests \cup {None}]
        /\ used' \in SUBSET Uuids
    BY <1>6, Decision DEF Resolve
  <2>3. x \in Uuids
    BY <2>2
  <2> QED
    BY <1>6, <2>1, <2>2, <2>3 DEF TypeOK, PCs, Resolve, dbVars
<1>7. ASSUME NEW c \in Chans, RegisterClient(c) PROVE TypeOK'
  <2>1. uuid[c] \in Uuids
    BY <1>7 DEF TypeOK, RegisterClient, Resolved
  <2> QED
    BY <1>7, <2>1
    DEF TypeOK, PCs, RegisterClient, Upsert, clientVars, dbVars, boundVars
<1>8. ASSUME NEW c \in Chans, AnnounceConnected(c) PROVE TypeOK'
  <2>1. uuid[c] \in Uuids
    BY <1>8 DEF TypeOK, AnnounceConnected, Resolved
  <2>2. Connected(c) \in Events
    BY <2>1, DigestType DEF Connected, Events
  <2>3. updates' \in Seq(Events)
    BY <1>8, <2>2 DEF TypeOK, AnnounceConnected
  <2> QED
    BY <1>8, <2>3
    DEF TypeOK, PCs, AnnounceConnected, clientVars, sharedVars, dbVars, boundVars
<1>9. ASSUME NEW c \in Chans, AnnounceDisconnected(c) PROVE TypeOK'
  <2>1. updates' \in Seq(Events)
    <3>1. CASE node_uuid[c] # None /\ updates' = Append(updates, Disconnected(c))
      <4>1. Disconnected(c) \in Events
        BY <3>1, DigestType DEF TypeOK, Disconnected, Events
      <4> QED
        BY <3>1, <4>1 DEF TypeOK
    <3> QED
      BY <1>9, <3>1 DEF TypeOK, AnnounceDisconnected, Farewell
  <2>2. pc' \in [Chans -> PCs]
    BY <1>9 DEF TypeOK, PCs, AnnounceDisconnected, Farewell
  <2> QED
    BY <1>9, <2>1, <2>2 DEF TypeOK, AnnounceDisconnected, clientVars, sharedVars,
       dbVars, boundVars
<1>10. ASSUME NEW c \in Chans, CleanRegistry(c) PROVE TypeOK'
  BY <1>10
  DEF TypeOK, PCs, CleanRegistry, Remove, clientVars, dbVars, boundVars
<1>11. CASE ApplyUpdate
  <2>1. Head(updates) \in Events /\ updates' \in Seq(Events)
    BY <1>11 DEF TypeOK, ApplyUpdate
  <2>2. /\ db_digest' \in [Uuids -> Digests \cup {None}]
        /\ db_status' \in [Uuids -> {"online", "offline"}]
    BY <1>11, <2>1 DEF TypeOK, ApplyUpdate, Apply, Events
  <2> QED
    BY <1>11, <2>1, <2>2
    DEF TypeOK, ApplyUpdate, clientVars, localVars, sharedVars, boundVars
<1>12. CASE Restart
  <2>1. restarts' \in 0..MaxRestarts
    BY <1>12, RegistryAssumption DEF TypeOK, Restart
  <2>2. pc' \in [Chans -> PCs] /\ link' \in [Chans -> {"none", "up", "late", "down"}]
    BY <1>12 DEF TypeOK, PCs, Restart
  <2>3. updates' \in Seq(Events)
    BY <1>12 DEF Restart
  <2> QED
    BY <1>12, <2>1, <2>2, <2>3 DEF TypeOK, Restart
<1>13. CASE UNCHANGED vars
  BY <1>13 DEF TypeOK, vars, clientVars, localVars, sharedVars, dbVars, boundVars
<1> QED
  BY <1>1, <1>2, <1>3, <1>4, <1>5, <1>6, <1>7, <1>8, <1>9, <1>10, <1>11, <1>12,
     <1>13 DEF Next, ReportStep, CloseStep

\* A binding that exists does not change in this step.
BindingsKept == \A u \in Uuids : bindings[u] # None => bindings'[u] = bindings[u]

\* While kdcts runs, bindings only grow.
LEMMA Kept == IInv /\ [Next]_vars /\ ~Restart => BindingsKept /\ used \subseteq used'
<1> SUFFICES ASSUME IInv, [Next]_vars, ~Restart
             PROVE  BindingsKept /\ used \subseteq used'
  OBVIOUS
<1>1. ASSUME NEW c \in Chans, Resolve(c) PROVE BindingsKept /\ used \subseteq used'
  BY <1>1, Decision DEF IInv, Resolve, BindingsKept
<1>2. ASSUME UNCHANGED <<bindings, used>> PROVE BindingsKept /\ used \subseteq used'
  BY <1>2 DEF BindingsKept
<1> QED
  BY <1>1, <1>2 DEF Next, ReportStep, CloseStep, vars, StartClient, Connect,
     SaveAssigned, ClientDrop, ReadReport, RegisterClient, AnnounceConnected,
     AnnounceDisconnected, CleanRegistry, ApplyUpdate, sharedVars, boundVars

\* Uuids in circulation have been generated.
LEMMA GeneratedStep == IInv /\ [Next]_vars => Generated'
<1> SUFFICES ASSUME TypeOK, Generated, Identified, Recorded, [Next]_vars
             PROVE  Generated'
  BY DEF IInv
<1>1. ASSUME NEW m \in Machines, NEW x \in Uuids \cup {None}, StartClient(m, x)
      PROVE  Generated'
  BY <1>1 DEF TypeOK, Generated, StartClient, localVars, sharedVars
<1>2. ASSUME NEW c \in Chans, Connect(c) PROVE Generated'
  BY <1>2, DigestType DEF TypeOK, Generated, Connect, sharedVars, boundVars
<1>3. ASSUME NEW c \in Chans, SaveAssigned(c) PROVE Generated'
  BY <1>3, DigestType
  DEF TypeOK, Generated, SaveAssigned, localVars, sharedVars, boundVars
<1>4. ASSUME NEW c \in Chans, ClientDrop(c) PROVE Generated'
  BY <1>4 DEF TypeOK, Generated, ClientDrop, localVars, sharedVars, boundVars
<1>5. ASSUME NEW c \in Chans, ReadReport(c) PROVE Generated'
  <2>1. node_uuid[c] # None => node_uuid[c] \in used
    BY DigestType, RegistryAssumption DEF TypeOK, Generated, Identified
  <2> QED
    BY <1>5, <2>1 DEF TypeOK, Generated, ReadReport, sharedVars, boundVars
<1>6. ASSUME NEW c \in Chans, Resolve(c) PROVE Generated'
  <2>1. PICK x \in used' : /\ uuid' = [uuid EXCEPT ![c] = x]
                           /\ assign' \in {assign, [assign EXCEPT ![c] = x],
                                           [assign EXCEPT ![c] = None]}
    BY <1>6, Decision DEF Resolve
  <2>2. /\ \A u \in Uuids : bindings'[u] # None => u \in used'
        /\ used \subseteq used' /\ UNCHANGED <<file, slot>>
    BY <1>6, Decision DEF Resolve
  <2> QED
    BY <2>1, <2>2 DEF TypeOK, Generated
<1>7. ASSUME NEW c \in Chans, AnnounceConnected(c) \/ AnnounceDisconnected(c)
      PROVE  Generated'
  BY <1>7 DEF TypeOK, Generated, AnnounceConnected, AnnounceDisconnected,
     clientVars, sharedVars, boundVars
<1>8. ASSUME UNCHANGED <<bindings, file, slot, uuid, assign, used>> PROVE Generated'
  BY <1>8 DEF Generated
<1>9. CASE Restart
  <2>1. bindings' = db_digest /\ UNCHANGED <<file, slot, used>>
    BY <1>9 DEF Restart
  <2>2. \A c \in Chans : uuid'[c] = None /\ assign'[c] = None
    BY <1>9 DEF Restart
  <2> QED
    BY <2>1, <2>2 DEF Generated, Recorded
<1> QED
  BY <1>1, <1>2, <1>3, <1>4, <1>5, <1>6, <1>7, <1>8, <1>9 DEF Next, ReportStep,
     CloseStep, vars, RegisterClient, CleanRegistry, ApplyUpdate, clientVars,
     localVars, sharedVars, boundVars

\* The channels' uuids, one step per action that moves a channel.
LEMMA ChannelStep == IInv /\ [Next]_vars => Resolved' /\ Identified'
<1> SUFFICES ASSUME TypeOK, Generated, Resolved, Identified, [Next]_vars
             PROVE  Resolved' /\ Identified'
  BY DEF IInv
<1>1. ASSUME NEW c \in Chans, Connect(c) PROVE Resolved' /\ Identified'
  BY <1>1 DEF TypeOK, Connect, sharedVars, Resolved, Identified, Digest
<1>2. ASSUME NEW c \in Chans, ReadReport(c) PROVE Resolved' /\ Identified'
  BY <1>2 DEF TypeOK, ReadReport, sharedVars, Resolved, Identified, Digest
<1>3. ASSUME NEW c \in Chans, Resolve(c) PROVE Resolved' /\ Identified'
  <2>1. PICK x \in used' : /\ uuid' = [uuid EXCEPT ![c] = x]
                           /\ bindings'[x] = Digest(c)
    BY <1>3, Decision DEF Resolve
  <2>2. BindingsKept /\ used' \subseteq Uuids
    BY <1>3, Decision DEF Resolve, BindingsKept
  <2>3. /\ node_uuid[c] = None /\ UNCHANGED node_uuid
        /\ pc' = [pc EXCEPT ![c] = "upsert"]
    BY <1>3 DEF Resolve, Identified
  <2>4. \A d \in Chans : Digest(d)' = Digest(d) /\ Digest(d) # None
    BY DigestType, RegistryAssumption DEF Digest
  <2>5. Resolved'
    <3> SUFFICES ASSUME NEW d \in Chans, pc'[d] \in {"upsert", "announce"}
                 PROVE  /\ uuid'[d] # None /\ bindings'[uuid'[d]] = Digest(d)
                        /\ node_uuid'[d] \in {None, uuid'[d]}
      BY <2>4 DEF Resolved
    <3>1. CASE d = c
      BY <2>1, <2>2, <2>3, <3>1, RegistryAssumption DEF TypeOK
    <3>2. CASE d # c
      <4>1. /\ uuid[d] # None /\ bindings[uuid[d]] = Digest(d)
            /\ node_uuid[d] \in {None, uuid[d]} /\ uuid'[d] = uuid[d]
        BY <2>1, <2>3, <3>2 DEF TypeOK, Resolved
      <4> QED
        BY <2>2, <2>3, <2>4, <4>1 DEF TypeOK, BindingsKept
    <3> QED
      BY <3>1, <3>2
  <2>6. Identified'
    BY <2>2, <2>3, <2>4 DEF TypeOK, Identified, BindingsKept
  <2> QED
    BY <2>5, <2>6
<1>4. ASSUME NEW c \in Chans, RegisterClient(c) PROVE Resolved' /\ Identified'
  BY <1>4 DEF TypeOK, RegisterClient, Upsert, Resolved, Identified, Digest
<1>5. ASSUME NEW c \in Chans, AnnounceConnected(c) PROVE Resolved' /\ Identified'
  BY <1>5 DEF TypeOK, AnnounceConnected, sharedVars, Resolved, Identified, Digest
<1>6. ASSUME NEW c \in Chans, AnnounceDisconnected(c)
      PROVE  Resolved' /\ Identified'
  <2>1. /\ UNCHANGED <<bindings, node_uuid>>
        /\ \A d \in Chans \ {c} : pc'[d] = pc[d] /\ uuid'[d] = uuid[d]
    BY <1>6 DEF TypeOK, AnnounceDisconnected, Farewell, sharedVars
  <2>2. pc'[c] = IF node_uuid[c] # None THEN "cleanup" ELSE "gone"
    BY <1>6 DEF TypeOK, AnnounceDisconnected, Farewell
  <2>3. Resolved'
    BY <2>1, <2>2 DEF Resolved, Digest
  <2>4. Identified'
    BY <2>1, <2>2 DEF Identified, Digest
  <2> QED
    BY <2>3, <2>4
<1>7. ASSUME NEW c \in Chans, CleanRegistry(c) PROVE Resolved' /\ Identified'
  BY <1>7 DEF TypeOK, CleanRegistry, Resolved, Identified, Digest
<1>8. CASE Restart
  BY <1>8 DEF TypeOK, Restart, Resolved, Identified
<1>9. CASE UNCHANGED vars
  BY <1>9 DEF vars, localVars, sharedVars, Resolved, Identified, Digest
<1>10. ASSUME NEW c \in Chans, SaveAssigned(c) \/ ClientDrop(c)
       PROVE  Resolved' /\ Identified'
  BY <1>10 DEF SaveAssigned, ClientDrop, localVars, sharedVars, Resolved,
     Identified, Digest
<1>11. ASSUME NEW m \in Machines, NEW x \in Uuids \cup {None}, StartClient(m, x)
       PROVE  Resolved' /\ Identified'
  BY <1>11 DEF StartClient, localVars, sharedVars, Resolved, Identified, Digest
<1>12. CASE ApplyUpdate
  BY <1>12 DEF ApplyUpdate, localVars, sharedVars, Resolved, Identified, Digest
<1> QED
  BY <1>1, <1>2, <1>3, <1>4, <1>5, <1>6, <1>7, <1>8, <1>9, <1>10, <1>11, <1>12
  DEF Next, ReportStep, CloseStep

\* Who is in the registry: an entry goes with the channel's own uuid.
LEMMA RegisteredStep == IInv /\ [Next]_vars => Registered'
<1> SUFFICES ASSUME TypeOK, Resolved, Identified, Registered, [Next]_vars
             PROVE  Registered'
  BY DEF IInv
<1>1. ASSUME UNCHANGED <<clients, node_uuid>> PROVE Registered'
  BY <1>1 DEF Registered
<1>2. ASSUME NEW c \in Chans, RegisterClient(c) PROVE Registered'
  <2>1. /\ uuid[c] \in Uuids /\ node_uuid[c] \in {None, uuid[c]}
        /\ clients' = [clients EXCEPT ![uuid[c]] = c]
        /\ node_uuid' = [node_uuid EXCEPT ![c] = uuid[c]]
    BY <1>2 DEF TypeOK, RegisterClient, Upsert, Resolved
  <2> QED
    BY <2>1, RegistryAssumption DEF TypeOK, Registered
<1>3. ASSUME NEW c \in Chans, CleanRegistry(c) PROVE Registered'
  <2>1. /\ node_uuid[c] \in Uuids
        /\ clients' = [clients EXCEPT ![node_uuid[c]] = None]
        /\ node_uuid' = [node_uuid EXCEPT ![c] = None]
    BY <1>3 DEF TypeOK, CleanRegistry, Remove, Identified
  <2> QED
    BY <2>1 DEF TypeOK, Registered
<1>4. CASE Restart
  BY <1>4 DEF Restart, Registered
<1> QED
  BY <1>1, <1>2, <1>3, <1>4 DEF Next, ReportStep, CloseStep, vars, StartClient,
     Connect, SaveAssigned, ClientDrop, ReadReport, Resolve, AnnounceConnected,
     AnnounceDisconnected, ApplyUpdate, localVars, sharedVars

\* What is announced and recorded agrees with what is bound.
LEMMA RecordedStep == IInv /\ [Next]_vars => Recorded'
<1> SUFFICES ASSUME IInv, TypeOK, Resolved, Recorded, [Next]_vars
             PROVE  Recorded'
  BY DEF IInv
<1>1. ASSUME ~Restart, UNCHANGED <<updates, db_digest>> PROVE Recorded'
  <2>1. BindingsKept
    BY <1>1, Kept
  <2>2. \A i \in 1..Len(updates) : updates[i] \in Events
    BY DEF TypeOK
  <2>3. \A i \in 1..Len(updates) :
          updates[i].uuid \in Uuids /\ updates[i].digest \in Digests
    BY <2>2 DEF Events
  <2> QED
    BY <1>1, <2>1, <2>3, RegistryAssumption DEF Recorded, BindingsKept
<1>2. ASSUME NEW c \in Chans, AnnounceConnected(c) PROVE Recorded'
  <2>1. /\ updates' = Append(updates, Connected(c))
        /\ UNCHANGED <<bindings, db_digest>>
    BY <1>2 DEF AnnounceConnected, sharedVars, dbVars
  <2>2. bindings[Connected(c).uuid] = Connected(c).digest
    BY <1>2 DEF AnnounceConnected, Resolved, Connected
  <2> HIDE DEF Connected
  <2>3. \A i \in 1..Len(updates') :
          \/ updates'[i] = updates[i] /\ i \in 1..Len(updates)
          \/ updates'[i] = Connected(c)
    BY <2>1 DEF TypeOK
  <2> QED
    BY <2>1, <2>2, <2>3 DEF Recorded
<1>3. ASSUME NEW c \in Chans, AnnounceDisconnected(c) PROVE Recorded'
  <2>1. UNCHANGED <<bindings, db_digest>>
    BY <1>3 DEF AnnounceDisconnected, sharedVars, dbVars
  <2>2. CASE updates' = Append(updates, Disconnected(c))
    <3>1. Disconnected(c).type # "Connected"
      BY DEF Disconnected
    <3>2. \A i \in 1..Len(updates') :
            \/ updates'[i] = updates[i] /\ i \in 1..Len(updates)
            \/ updates'[i] = Disconnected(c)
      BY <2>2 DEF TypeOK
    <3> QED
      BY <2>1, <3>1, <3>2 DEF Recorded
  <2>3. CASE updates' = updates
    BY <2>1, <2>3 DEF Recorded
  <2> QED
    BY <1>3, <2>2, <2>3 DEF AnnounceDisconnected, Farewell
<1>4. CASE ApplyUpdate
  <2> DEFINE e == Head(updates)
  <2>1. /\ UNCHANGED bindings /\ updates' = Tail(updates) /\ updates # <<>>
        /\ db_digest' = IF e.type = "Connected"
                          THEN [db_digest EXCEPT ![e.uuid] = e.digest] ELSE db_digest
    BY <1>4 DEF ApplyUpdate, Apply, sharedVars
  <2>2. e = updates[1] /\ 1 \in 1..Len(updates) /\ e \in Events
    BY <2>1 DEF TypeOK
  <2>3. e.type = "Connected" => bindings[e.uuid] = e.digest
    BY <2>2 DEF Recorded
  <2>4. \A i \in 1..Len(updates') : updates'[i] = updates[i+1] /\ i+1 \in 1..Len(updates)
    BY <2>1 DEF TypeOK
  <2> HIDE DEF e
  <2>5. \A u \in Uuids : db_digest'[u] # None => bindings[u] = db_digest'[u]
    BY <2>1, <2>2, <2>3 DEF Recorded, TypeOK
  <2>6. ASSUME NEW i \in 1..Len(updates'), updates'[i].type = "Connected"
        PROVE  bindings[updates'[i].uuid] = updates'[i].digest
    BY <2>4, <2>6 DEF Recorded
  <2> QED
    BY <2>1, <2>5, <2>6 DEF Recorded
<1>5. CASE Restart
  <2>1. bindings' = db_digest /\ db_digest' = db_digest /\ Len(updates') = 0
    BY <1>5 DEF Restart
  <2> QED
    BY <2>1 DEF Recorded
<1>6. CASE UNCHANGED vars
  BY <1>6 DEF vars, sharedVars, dbVars, Recorded
<1> QED
  BY <1>1, <1>2, <1>3, <1>4, <1>5, <1>6 DEF Next, ReportStep, CloseStep,
     StartClient, Connect, SaveAssigned, ClientDrop, ReadReport, Resolve,
     RegisterClient, CleanRegistry, dbVars

\* The client's half: one connection, whose claim is what the service holds.
LEMMA LinkStep == IInv /\ [Next]_vars => OneLink' /\ Claim'
<1> SUFFICES ASSUME TypeOK, Generated, OneLink, Claim, Assigned, [Next]_vars
             PROVE  OneLink' /\ Claim'
  BY DEF IInv
<1>1. ASSUME NEW m \in Machines, NEW x \in Uuids \cup {None}, StartClient(m, x)
      PROVE  OneLink' /\ Claim'
  BY <1>1, DigestType
  DEF TypeOK, StartClient, Offline, localVars, OneLink, Claim
<1>2. ASSUME NEW c \in Chans, Connect(c) PROVE OneLink' /\ Claim'
  BY <1>2, DigestType DEF TypeOK, Connect, Offline, OneLink, Claim
<1>3. ASSUME NEW c \in Chans, SaveAssigned(c) PROVE OneLink' /\ Claim'
  <2>1. node_uuid[c] # None
    BY <1>3 DEF SaveAssigned, Assigned
  <2> QED
    BY <1>3, <2>1, DigestType DEF TypeOK, SaveAssigned, localVars, OneLink, Claim
<1>4. ASSUME NEW c \in Chans, ClientDrop(c) PROVE OneLink' /\ Claim'
  BY <1>4 DEF TypeOK, ClientDrop, localVars, OneLink, Claim
<1>5. ASSUME NEW c \in Chans, ReadReport(c) PROVE OneLink' /\ Claim'
  BY <1>5 DEF TypeOK, ReadReport, OneLink, Claim
<1>6. ASSUME NEW c \in Chans, Resolve(c) PROVE OneLink' /\ Claim'
  <2>1. PICK x : uuid' = [uuid EXCEPT ![c] = x]
    BY <1>6, Decision DEF Resolve
  <2> QED
    BY <1>6, <2>1 DEF TypeOK, Resolve, OneLink, Claim
<1>7. ASSUME NEW c \in Chans, RegisterClient(c) PROVE OneLink' /\ Claim'
  BY <1>7
  DEF TypeOK, RegisterClient, Upsert, clientVars, OneLink, Claim
<1>8. ASSUME NEW c \in Chans, AnnounceConnected(c) PROVE OneLink' /\ Claim'
  <2>1. node_uuid[c] # None
    BY <1>8 DEF AnnounceConnected, Assigned
  <2> QED
    BY <1>8, <2>1 DEF TypeOK, AnnounceConnected, clientVars, OneLink, Claim
<1>9. ASSUME NEW c \in Chans, AnnounceDisconnected(c) \/ CleanRegistry(c)
      PROVE  OneLink' /\ Claim'
  <2>1. CASE AnnounceDisconnected(c)
    BY <2>1 DEF TypeOK, AnnounceDisconnected, Farewell, clientVars, OneLink, Claim
  <2>2. CASE CleanRegistry(c)
    BY <2>2 DEF TypeOK, CleanRegistry, clientVars, OneLink, Claim
  <2> QED
    BY <1>9, <2>1, <2>2
<1>10. CASE ApplyUpdate \/ UNCHANGED vars
  BY <1>10 DEF ApplyUpdate, vars, clientVars, localVars, OneLink, Claim
<1>11. CASE Restart
  BY <1>11 DEF TypeOK, Restart, OneLink, Claim
<1> QED
  BY <1>1, <1>2, <1>3, <1>4, <1>5, <1>6, <1>7, <1>8, <1>9, <1>10, <1>11
  DEF Next, ReportStep, CloseStep

\* When a uuid is on its way to a client.
LEMMA AssignedStep == IInv /\ [Next]_vars => Assigned'
<1> SUFFICES ASSUME TypeOK, Generated, Resolved, Identified, Assigned, [Next]_vars
             PROVE  Assigned'
  BY DEF IInv
<1>1. ASSUME UNCHANGED <<pc, link, assign, node_uuid>> PROVE Assigned'
  BY <1>1 DEF Assigned
<1>2. ASSUME NEW c \in Chans, Connect(c) PROVE Assigned'
  BY <1>2 DEF TypeOK, Connect, Assigned
<1>3. ASSUME NEW c \in Chans, SaveAssigned(c) PROVE Assigned'
  BY <1>3 DEF TypeOK, SaveAssigned, localVars, Assigned
<1>4. ASSUME NEW c \in Chans, ClientDrop(c) PROVE Assigned'
  BY <1>4 DEF TypeOK, ClientDrop, localVars, Assigned
<1>5. ASSUME NEW c \in Chans, ReadReport(c) PROVE Assigned'
  BY <1>5 DEF TypeOK, ReadReport, Assigned
<1>6. ASSUME NEW c \in Chans, Resolve(c) PROVE Assigned'
  <2>1. assign[c] = None
    BY <1>6 DEF Resolve, Assigned
  <2>2. assign'[c] # None => link[c] = "up"
    BY <1>6, <2>1, Decision DEF Resolve
  <2>3. PICK x \in used' : assign' \in {assign, [assign EXCEPT ![c] = x],
                                        [assign EXCEPT ![c] = None]}
    BY <1>6, Decision DEF Resolve
  <2> QED
    BY <1>6, <2>2, <2>3 DEF TypeOK, Resolve, Assigned
<1>7. ASSUME NEW c \in Chans, RegisterClient(c) PROVE Assigned'
  BY <1>7 DEF TypeOK, RegisterClient, Upsert, Resolved, clientVars, Assigned
<1>8. ASSUME NEW c \in Chans, AnnounceConnected(c) PROVE Assigned'
  BY <1>8 DEF TypeOK, AnnounceConnected, clientVars, Assigned
<1>9. ASSUME NEW c \in Chans, AnnounceDisconnected(c) \/ CleanRegistry(c)
      PROVE  Assigned'
  BY <1>9 DEF TypeOK, AnnounceDisconnected, Farewell, CleanRegistry, clientVars,
     Assigned
<1>10. CASE Restart
  BY <1>10 DEF TypeOK, Restart, Assigned
<1> QED
  BY <1>1, <1>2, <1>3, <1>4, <1>5, <1>6, <1>7, <1>8, <1>9, <1>10
  DEF Next, ReportStep, CloseStep, StartClient, ApplyUpdate, vars, clientVars,
      localVars

\* Why a service is renamed stays true until it is.
LEMMA RenamingStep == IInv /\ [Next]_vars => Renaming'
<1> SUFFICES ASSUME IInv, TypeOK, Generated, Identified, OneLink, Claim, Assigned,
                    Renaming, [Next]_vars
             PROVE  Renaming'
  BY DEF IInv
<1> DEFINE Owned(c) == bindings[slot[OwnerOf[c]]] \notin {Digest(c), None}
<1>1. ASSUME NEW m \in Machines, NEW x \in Uuids \cup {None}, StartClient(m, x)
      PROVE  Renaming'
  <2>1. \A c \in Chans : assign[c] # None => MachineOf[OwnerOf[c]] # m
    BY <1>1, DigestType DEF StartClient, Offline, Assigned
  <2>2. /\ UNCHANGED <<bindings, assign>>
        /\ \A s \in Services : MachineOf[s] # m => slot'[s] = slot[s]
    BY <1>1 DEF StartClient, sharedVars
  <2> QED
    BY <2>1, <2>2, DigestType DEF TypeOK, Renaming, Digest
<1>2. ASSUME NEW c \in Chans, SaveAssigned(c) PROVE Renaming'
  <2>1. \A d \in Chans : assign'[d] # None => OwnerOf[d] # OwnerOf[c]
    BY <1>2 DEF TypeOK, SaveAssigned, Assigned, OneLink
  <2>2. /\ UNCHANGED bindings
        /\ assign' = [assign EXCEPT ![c] = None]
        /\ slot' = [slot EXCEPT ![OwnerOf[c]] = assign[c]]
    BY <1>2 DEF SaveAssigned, sharedVars
  <2> QED
    BY <2>1, <2>2, DigestType DEF TypeOK, Renaming, Digest
<1>3. ASSUME NEW c \in Chans, ClientDrop(c) PROVE Renaming'
  BY <1>3 DEF TypeOK, ClientDrop, sharedVars, Renaming, Digest
<1>4. ASSUME NEW c \in Chans, Resolve(c) PROVE Renaming'
  <2> SUFFICES ASSUME NEW d \in Chans, assign'[d] # None, slot[OwnerOf[d]] # None
               PROVE  bindings'[slot[OwnerOf[d]]] \notin {Digest(d), None}
    BY <1>4 DEF Resolve, Renaming, Digest
  <2>1. slot[OwnerOf[d]] \in Uuids
    BY DigestType DEF TypeOK
  <2>2. BindingsKept
    BY <1>4, Decision DEF Resolve, BindingsKept
  <2>3. Owned(d)
    <3>1. CASE d = c
      <4>1. assign[c] = None /\ node_uuid[c] = None
        BY <1>4 DEF Resolve, Assigned, Identified
      <4>2. /\ link[c] = "up"
            /\ uuid[c] # None => bindings[uuid[c]] \notin {Digest(c), None}
        BY <1>4, <3>1, <4>1, Decision DEF Resolve
      <4>3. uuid[c] = slot[OwnerOf[c]]
        BY <1>4, <4>1, <4>2 DEF Resolve, Claim
      <4> QED
        BY <3>1, <4>2, <4>3
    <3>2. CASE d # c
      <4>1. PICK x \in used' : assign' \in {assign, [assign EXCEPT ![c] = x],
                                            [assign EXCEPT ![c] = None]}
        BY <1>4, Decision DEF Resolve
      <4>2. assign[d] # None
        BY <3>2, <4>1 DEF TypeOK
      <4> QED
        BY <4>2 DEF Renaming
    <3> QED
      BY <3>1, <3>2
  <2> QED
    BY <2>1, <2>2, <2>3 DEF BindingsKept
<1>5. CASE Restart
  BY <1>5 DEF Restart, Renaming
<1>6. ASSUME UNCHANGED <<bindings, assign, slot>> PROVE Renaming'
  BY <1>6 DEF Renaming, Digest
<1> QED
  BY <1>1, <1>2, <1>3, <1>4, <1>5, <1>6 DEF Next, ReportStep, CloseStep, Connect,
     ReadReport, RegisterClient, AnnounceConnected, AnnounceDisconnected,
     CleanRegistry, ApplyUpdate, vars, clientVars, sharedVars

-----------------------------------------------------------------------------

\* The inductive invariant of node identity.
THEOREM Invariance == Spec => []IInv
<1>1. Init => IInv
  BY InitInv
<1>2. IInv /\ [Next]_vars => IInv'
  BY TypeStep, GeneratedStep, ChannelStep, RegisteredStep, RecordedStep, LinkStep,
     AssignedStep, RenamingStep DEF IInv
<1> QED
  BY <1>1, <1>2, PTL DEF Spec

\* Every variable keeps its type: a node update always carries a uuid.
THEOREM TypeCorrect == Spec => []TypeOK
<1>1. IInv => TypeOK
  BY DEF IInv
<1> QED
  BY <1>1, Invariance, PTL

\* The registry never hands out, under a uuid, a channel that authenticated with
\* another digest than the one the uuid is bound to.
THEOREM SpoofCheckHolds == Spec => []BoundIdentity
<1>1. IInv => BoundIdentity
  <2> SUFFICES ASSUME IInv, NEW u \in Uuids, clients[u] # None
               PROVE  bindings[u] = Digest(clients[u])
    BY DEF BoundIdentity
  <2>1. clients[u] \in Chans /\ node_uuid[clients[u]] = u /\ u # None
    BY RegistryAssumption DEF IInv, TypeOK, Registered
  <2> QED
    BY <2>1 DEF IInv, Identified
<1> QED
  BY <1>1, Invariance, PTL

\* The registry never keeps a channel whose task has ended.
THEOREM RegistryAlive == Spec => []NoDeadEntry
<1>1. IInv => NoDeadEntry
  <2> SUFFICES ASSUME IInv, NEW u \in Uuids, clients[u] # None
               PROVE  pc[clients[u]] \notin {"unused", "gone"}
    BY DEF NoDeadEntry
  <2>1. clients[u] \in Chans /\ node_uuid[clients[u]] = u /\ u # None
    BY RegistryAssumption DEF IInv, TypeOK, Registered
  <2> QED
    BY <2>1 DEF IInv, Identified
<1> QED
  BY <1>1, Invariance, PTL

\* Only ApplyUpdate writes digests, and an announcement agrees with the binding,
\* which agrees with the row.
LEMMA DigestStep ==
  IInv /\ [Next]_vars
    => \A u \in Uuids : db_digest[u] # None => db_digest'[u] = db_digest[u]
<1> SUFFICES ASSUME TypeOK, Recorded, [Next]_vars, NEW u \in Uuids,
                    db_digest[u] # None
             PROVE  db_digest'[u] = db_digest[u]
  BY DEF IInv
<1>1. CASE ApplyUpdate
  <2> DEFINE e == Head(updates)
  <2>1. /\ updates # <<>>
        /\ db_digest' = IF e.type = "Connected"
                          THEN [db_digest EXCEPT ![e.uuid] = e.digest] ELSE db_digest
    BY <1>1 DEF ApplyUpdate, Apply
  <2>2. e = updates[1] /\ 1 \in 1..Len(updates)
    BY <2>1 DEF TypeOK
  <2>3. e.type = "Connected" => bindings[e.uuid] = e.digest
    BY <2>2 DEF Recorded
  <2> HIDE DEF e
  <2> QED
    BY <2>1, <2>3 DEF TypeOK, Recorded
<1> QED
  BY <1>1 DEF Next, ReportStep, CloseStep, vars, StartClient, Connect,
     SaveAssigned, ClientDrop, ReadReport, Resolve, RegisterClient,
     AnnounceConnected, AnnounceDisconnected, CleanRegistry, Restart, dbVars

\* The digest in a row of client_nodes never changes, restarts included: what
\* load_bindings reads back is what the spoof check has enforced.
THEOREM DigestsStable == Spec => DigestStable
  BY Invariance, DigestStep, PTL DEF Spec, DigestStable

\* Whoever saves an assigned uuid over another one has lost the claim to it.
LEMMA IdentityStep ==
  IInv => \A c \in Chans :
            (SaveAssigned(c) /\ slot[OwnerOf[c]] \notin {None, assign[c]})
              => bindings[slot[OwnerOf[c]]] \notin {Digest(c), None}
  BY DEF IInv, SaveAssigned, Renaming

\* The server renames a service only if another digest owns the uuid it has,
\* however many services of its machine write the same file.
THEOREM IdentitiesKept == Spec => IdentityKept
  BY Invariance, IdentityStep, PTL DEF Spec, IdentityKept
=============================================================================
