------------------------ MODULE DataChannel_proofs ------------------------
(***************************************************************************)
(* The accounts of the data channels balance, for any number of control    *)
(* channels, loops and visitors: what is requested is on its way, pooled,  *)
(* taken or lost.                                                          *)
(***************************************************************************)
EXTENDS DataChannel, FiniteSetTheorems, SequenceTheorems, TLAPS

\* A loop that was started knows its channel and its port.
Started ==
  \A d \in Loops :
    IF at[d] = "off" THEN of[d] = None
                     ELSE of[d] \in Links /\ port[d] \in Ports

\* Nothing has happened on a channel that is not connected yet.
Fresh ==
  \A l \in Links : task[l] = "off" =>
    /\ ~known[l] /\ ~poolUp[l]
    /\ requests[l] = 0 /\ creates[l] = 0 /\ dials[l] = 0 /\ found[l] = 0
    /\ pool[l] = 0 /\ guests[l] = 0 /\ lost[l] = 0

\* The client is on a channel that is connected.
Present == cur \in Links => task[cur] # "off"

\* A loop's channel has been in the registry.
Registered == \A d \in Loops : of[d] \in Links => known[of[d]]

\* The callbacks of a channel are of its own loops that wait ...
Queued ==
  \A l \in Links : \A i \in 1..Len(callbacks[l]) :
    of[callbacks[l][i]] = l /\ at[callbacks[l][i]] = "waiting"

\* ... each queued once ...
Once ==
  \A l \in Links : \A i, j \in 1..Len(callbacks[l]) :
    callbacks[l][i] = callbacks[l][j] => i = j

\* ... and every loop that waits is queued.
Listed ==
  \A d \in Loops : at[d] = "waiting" =>
    \E i \in 1..Len(callbacks[of[d]]) : callbacks[of[d]][i] = d

\* The account of a channel: what was requested is on its way, pooled or lost;
\* PoolSize requests were made at the start, one by every taker that waits.
Conserved(l) ==
  OnTheWay(l) + pool[l] + lost[l]
    = PoolSize + Cardinality(Waiting(l)) + guests[l]

\* The pool exceeds the initial channels only by those that came early.
Surplus(l) == pool[l] <= PoolSize + guests[l] + early[l]

Balanced == \A l \in Links : poolUp[l] => Conserved(l) /\ Surplus(l)

Guests == \A l \in Links : guests[l] <= GuestCap

IInv ==
  /\ TypeOK /\ Started /\ Fresh /\ Present /\ Registered
  /\ Queued /\ Once /\ Listed
  /\ Balanced /\ Guests

-----------------------------------------------------------------------------
\* The takers of a channel can be counted, and there are at most as many as loops.
LEMMA WaitingFinite ==
  ASSUME NEW l \in Links
  PROVE  /\ IsFiniteSet(Waiting(l))
         /\ Cardinality(Waiting(l)) \in Nat
         /\ Cardinality(Waiting(l)) <= Cardinality(Loops)
         /\ Cardinality(Loops) \in Nat
<1>1. Waiting(l) \subseteq Loops
  BY DEF Waiting
<1> QED
  BY <1>1, LoopsAssumption, FS_Subset, FS_CardinalityType

\* Initially nothing is up and nobody waits.
LEMMA InitHolds == Init => IInv
<1> SUFFICES ASSUME Init PROVE IInv
  OBVIOUS
<1>1. TypeOK
  BY PoolAssumption, BoundsAssumption DEF Init, TypeOK, Places
<1>2. Started /\ Fresh /\ Present /\ Registered /\ Queued /\ Once /\ Listed
  BY LinksAssumption DEF Init, Started, Fresh, Present, Registered, Queued, Once, Listed
<1>3. Balanced /\ Guests
  BY GuestAssumption DEF Init, Balanced, Guests
<1> QED
  BY <1>1, <1>2, <1>3 DEF IInv

\* A step that leaves the loops alone leaves the queues and the takers alone.
LEMMA LoopsKept ==
  ASSUME IInv, UNCHANGED loopVars
  PROVE  /\ Started' /\ Queued' /\ Once' /\ Listed'
         /\ \A l \in Links : Waiting(l)' = Waiting(l)
BY DEF IInv, loopVars, Started, Queued, Once, Listed, Waiting

\* A step that does not concern channel k.
Same(k) ==
  /\ task'[k] = task[k] /\ known'[k] = known[k] /\ poolUp'[k] = poolUp[k]
  /\ requests'[k] = requests[k] /\ creates'[k] = creates[k]
  /\ dials'[k] = dials[k] /\ found'[k] = found[k]
  /\ pool'[k] = pool[k] /\ guests'[k] = guests[k]
  /\ lost'[k] = lost[k] /\ early'[k] = early[k]

\* The counters of a channel are numbers.
Numbers(l) ==
  /\ requests[l] \in Nat /\ creates[l] \in Nat /\ dials[l] \in Nat
  /\ found[l] \in Nat /\ pool[l] \in Nat /\ guests[l] \in Nat
  /\ lost[l] \in Nat /\ early[l] \in Nat /\ visits \in Nat

\* They are functions of the channels.
Functional ==
  /\ requests \in [Links -> Nat] /\ creates \in [Links -> Nat]
  /\ dials \in [Links -> Nat] /\ found \in [Links -> Nat]
  /\ pool \in [Links -> 0..PoolCap] /\ guests \in [Links -> Nat]
  /\ lost \in [Links -> Nat] /\ early \in [Links -> Nat]
  /\ poolUp \in [Links -> BOOLEAN] /\ known \in [Links -> BOOLEAN]
  /\ task \in [Links -> {"off", "up", "closing", "over", "cleaned"}]
  /\ handle \in [Links -> {"none", "in", "out"}]

LEMMA Typed ==
  ASSUME TypeOK
  PROVE  Functional /\ \A l \in Links : Numbers(l)
<1>1. Functional
  BY DEF TypeOK, Functional
<1>2. visits \in Nat
  BY BoundsAssumption DEF TypeOK
<1> QED
  BY <1>1, <1>2, PoolAssumption DEF Functional, Numbers

LEMMA TypedNext ==
  ASSUME TypeOK'
  PROVE  \A l \in Links : Numbers(l)'
<1>1. Functional'
  BY DEF TypeOK, Functional
<1>2. visits' \in Nat
  BY BoundsAssumption DEF TypeOK
<1> QED
  BY <1>1, <1>2, PoolAssumption DEF Functional, Numbers

\* What the invariant says of one channel.
LEMMA Account ==
  ASSUME IInv, NEW l \in Links
  PROVE  /\ poolUp[l] => Conserved(l) /\ Surplus(l)
         /\ guests[l] <= GuestCap
         /\ task[l] = "off" => requests[l] = 0 /\ creates[l] = 0 /\ dials[l] = 0
                                 /\ found[l] = 0 /\ guests[l] = 0 /\ ~poolUp[l]
         /\ Cardinality(Waiting(l)) \in Nat
         /\ Numbers(l) /\ Functional /\ TypeOK
<1>1. TypeOK /\ Fresh /\ Balanced /\ Guests
  BY DEF IInv
<1>2. Numbers(l) /\ Functional
  BY <1>1, Typed
<1>3. Cardinality(Waiting(l)) \in Nat
  BY WaitingFinite
<1> QED
  BY <1>1, <1>2, <1>3 DEF Fresh, Balanced, Guests

\* A step of one channel that leaves the loops alone has to balance its own account.
LEMMA Ledger ==
  ASSUME IInv, TypeOK', UNCHANGED loopVars,
         NEW l \in Links, \A k \in Links \ {l} : Same(k),
         task'[l] # "off", known[l] => known'[l], cur' \in {cur, l, None},
         visits <= visits', guests'[l] <= GuestCap,
         poolUp'[l] =>
           /\ OnTheWay(l)' + pool'[l] + lost'[l]
                = PoolSize + Cardinality(Waiting(l)) + guests'[l]
           /\ pool'[l] <= PoolSize + guests'[l] + early'[l]
  PROVE  IInv'
<1> USE DEF IInv
<1>1. /\ Started' /\ Queued' /\ Once' /\ Listed'
      /\ \A k \in Links : Waiting(k)' = Waiting(k)
  BY LoopsKept
<1>2. Fresh'
  BY DEF Fresh, Same
<1>3. Registered' /\ Present'
  BY LinksAssumption DEF Registered, Present, Same, loopVars
<1>4. Guests'
  <2>1. Guests /\ visits \in Nat /\ visits' \in Nat /\ \A k \in Links : guests[k] \in Nat
    BY Typed, BoundsAssumption DEF Numbers, TypeOK
  <2> QED
    BY <2>1 DEF Guests, Same
<1>5. Balanced'
  <2> SUFFICES ASSUME NEW k \in Links, poolUp'[k]
               PROVE  Conserved(k)' /\ Surplus(k)'
    BY DEF Balanced
  <2>1. CASE k = l
    BY <2>1, <1>1 DEF Conserved, Surplus
  <2>2. CASE k # l
    BY <2>2, <1>1 DEF Conserved, Surplus, Balanced, Same, OnTheWay
  <2> QED
    BY <2>1, <2>2
<1> QED
  BY <1>1, <1>2, <1>3, <1>4, <1>5

\* The initial requests are the pool's; nobody can have waited before.
LEMMA ConnectKeeps ==
  ASSUME IInv, NEW l \in Links, Connect(l)
  PROVE  IInv'
<1>0. /\ poolUp[l] => Conserved(l) /\ Surplus(l)
      /\ guests[l] <= GuestCap
      /\ Numbers(l) /\ Functional /\ TypeOK
      /\ Cardinality(Waiting(l)) \in Nat
  BY Account
<1>1. TypeOK'
  <2>1. cur' \in Links \cup {None}
    BY <1>0, PoolAssumption DEF TypeOK, Connect
  <2>2. task' \in [Links -> {"off", "up", "closing", "over", "cleaned"}]
    BY <1>0, PoolAssumption DEF Functional, Numbers, Connect
  <2>3. requests' \in [Links -> Nat]
    BY <1>0, PoolAssumption DEF Functional, Numbers, Connect
  <2>4. poolUp' \in [Links -> BOOLEAN]
    BY <1>0, PoolAssumption DEF Functional, Numbers, Connect
  <2> QED
    BY <1>0, <2>1, <2>2, <2>3, <2>4 DEF TypeOK, Connect, envVars, historyVars, loopVars
<1>2. UNCHANGED loopVars /\ \A k \in Links \ {l} : Same(k)
  BY <1>0 DEF Functional, Same, Connect, envVars, historyVars, loopVars
<1>3. task'[l] # "off" /\ (known[l] => known'[l]) /\ cur' \in {cur, l, None}
  BY <1>0, Account DEF Functional, Numbers, Connect, envVars, historyVars
<1>4. /\ requests'[l] = PoolSize
      /\ poolUp'[l] = TRUE
      /\ creates'[l] = creates[l]
      /\ dials'[l] = dials[l]
      /\ found'[l] = found[l]
      /\ pool'[l] = pool[l]
      /\ guests'[l] = guests[l]
      /\ lost'[l] = lost[l]
      /\ early'[l] = early[l]
  BY <1>0 DEF Functional, Numbers, Connect, envVars, historyVars
<1>5. visits <= visits' /\ guests'[l] <= GuestCap
  BY <1>0, <1>4 DEF Numbers, Functional, Connect, envVars, historyVars
<1>6. poolUp'[l] =>
        /\ OnTheWay(l)' + pool'[l] + lost'[l]
             = PoolSize + Cardinality(Waiting(l)) + guests'[l]
        /\ pool'[l] <= PoolSize + guests'[l] + early'[l]
  <2>1. Waiting(l) = {}
    BY DEF IInv, Waiting, Registered, Fresh, Connect
  <2>2. /\ creates[l] = 0 /\ dials[l] = 0 /\ found[l] = 0
        /\ pool[l] = 0 /\ guests[l] = 0 /\ lost[l] = 0
    BY DEF IInv, Fresh, Connect
  <2> QED
    BY <1>0, <1>4, <2>1, <2>2, FS_EmptySet, PoolAssumption DEF OnTheWay, Numbers
<1> QED
  BY <1>1, <1>2, <1>3, <1>5, <1>6, Ledger

LEMMA InsertHandleKeeps ==
  ASSUME IInv, NEW l \in Links, InsertHandle(l)
  PROVE  IInv'
<1>0. /\ poolUp[l] => Conserved(l) /\ Surplus(l)
      /\ guests[l] <= GuestCap
      /\ Numbers(l) /\ Functional /\ TypeOK
      /\ Cardinality(Waiting(l)) \in Nat
  BY Account
<1>1. TypeOK'
  <2>1. handle' \in [Links -> {"none", "in", "out"}]
    BY <1>0, PoolAssumption DEF Functional, Numbers, InsertHandle
  <2> QED
    BY <1>0, <2>1 DEF TypeOK, InsertHandle, flowVars, poolVars, envVars, historyVars, loopVars
<1>2. UNCHANGED loopVars /\ \A k \in Links \ {l} : Same(k)
  BY <1>0 DEF Functional, Same, InsertHandle, flowVars, poolVars, envVars, historyVars, loopVars
<1>3. task'[l] # "off" /\ (known[l] => known'[l]) /\ cur' \in {cur, l, None}
  BY <1>0, Account DEF Functional, Numbers, InsertHandle, flowVars, poolVars, envVars, historyVars
<1>4. /\ requests'[l] = requests[l]
      /\ creates'[l] = creates[l]
      /\ dials'[l] = dials[l]
      /\ found'[l] = found[l]
      /\ pool'[l] = pool[l]
      /\ (poolUp'[l] => poolUp[l])
      /\ guests'[l] = guests[l]
      /\ lost'[l] = lost[l]
      /\ early'[l] = early[l]
  BY <1>0 DEF Functional, Numbers, InsertHandle, flowVars, poolVars, envVars, historyVars
<1>5. visits <= visits' /\ guests'[l] <= GuestCap
  BY <1>0, <1>4 DEF Numbers, Functional, InsertHandle, flowVars, poolVars, envVars, historyVars
<1>6. poolUp'[l] =>
        /\ OnTheWay(l)' + pool'[l] + lost'[l]
             = PoolSize + Cardinality(Waiting(l)) + guests'[l]
        /\ pool'[l] <= PoolSize + guests'[l] + early'[l]
  <2>1. /\ poolUp'[l] =>
             /\ requests[l] + creates[l] + dials[l] + found[l] + pool[l] + lost[l]
                  = PoolSize + Cardinality(Waiting(l)) + guests[l]
             /\ pool[l] <= PoolSize + guests[l] + early[l]
        /\ OnTheWay(l)' = requests'[l] + creates'[l] + dials'[l] + found'[l]
        /\ Cardinality(Waiting(l)) \in Nat /\ Numbers(l)
    BY <1>0, <1>4 DEF OnTheWay, Conserved, Surplus
  <2>2. poolUp'[l] =>
          (requests[l] + creates[l] + dials[l] + found[l]) + pool[l] + lost[l]
            = PoolSize + Cardinality(Waiting(l)) + guests[l]
    BY <1>4, <2>1, PoolAssumption DEF Numbers
  <2>3. poolUp'[l] => pool[l] <= PoolSize + guests[l] + early[l]
    BY <1>4, <2>1, PoolAssumption DEF Numbers
  <2> QED
    BY <1>4, <2>1, <2>2, <2>3
<1> QED
  BY <1>1, <1>2, <1>3, <1>5, <1>6, Ledger

LEMMA ReadReportKeeps ==
  ASSUME IInv, NEW l \in Links, ReadReport(l)
  PROVE  IInv'
<1>0. /\ poolUp[l] => Conserved(l) /\ Surplus(l)
      /\ guests[l] <= GuestCap
      /\ Numbers(l) /\ Functional /\ TypeOK
      /\ Cardinality(Waiting(l)) \in Nat
  BY Account
<1>1. TypeOK'
  <2>1. known' \in [Links -> BOOLEAN]
    BY <1>0, PoolAssumption DEF Functional, Numbers, ReadReport, Removed
  <2>2. index' \in Links \cup {None}
    BY <1>0, PoolAssumption DEF TypeOK, ReadReport, Removed
  <2>3. handle' \in [Links -> {"none", "in", "out"}]
    BY <1>0, PoolAssumption DEF Functional, Numbers, ReadReport, Removed
  <2> QED
    BY <1>0, <2>1, <2>2, <2>3 DEF TypeOK, ReadReport, Removed, flowVars, poolVars, envVars, historyVars, loopVars
<1>2. UNCHANGED loopVars /\ \A k \in Links \ {l} : Same(k)
  BY <1>0 DEF Functional, Same, ReadReport, Removed, flowVars, poolVars, envVars, historyVars, loopVars
<1>3. task'[l] # "off" /\ (known[l] => known'[l]) /\ cur' \in {cur, l, None}
  BY <1>0, Account DEF Functional, Numbers, ReadReport, Removed, flowVars, poolVars, envVars, historyVars
<1>4. /\ requests'[l] = requests[l]
      /\ creates'[l] = creates[l]
      /\ dials'[l] = dials[l]
      /\ found'[l] = found[l]
      /\ pool'[l] = pool[l]
      /\ (poolUp'[l] => poolUp[l])
      /\ guests'[l] = guests[l]
      /\ lost'[l] = lost[l]
      /\ early'[l] = early[l]
  BY <1>0 DEF Functional, Numbers, ReadReport, Removed, flowVars, poolVars, envVars, historyVars
<1>5. visits <= visits' /\ guests'[l] <= GuestCap
  BY <1>0, <1>4 DEF Numbers, Functional, ReadReport, Removed, flowVars, poolVars, envVars, historyVars
<1>6. poolUp'[l] =>
        /\ OnTheWay(l)' + pool'[l] + lost'[l]
             = PoolSize + Cardinality(Waiting(l)) + guests'[l]
        /\ pool'[l] <= PoolSize + guests'[l] + early'[l]
  <2>1. /\ poolUp'[l] =>
             /\ requests[l] + creates[l] + dials[l] + found[l] + pool[l] + lost[l]
                  = PoolSize + Cardinality(Waiting(l)) + guests[l]
             /\ pool[l] <= PoolSize + guests[l] + early[l]
        /\ OnTheWay(l)' = requests'[l] + creates'[l] + dials'[l] + found'[l]
        /\ Cardinality(Waiting(l)) \in Nat /\ Numbers(l)
    BY <1>0, <1>4 DEF OnTheWay, Conserved, Surplus
  <2>2. poolUp'[l] =>
          (requests[l] + creates[l] + dials[l] + found[l]) + pool[l] + lost[l]
            = PoolSize + Cardinality(Waiting(l)) + guests[l]
    BY <1>4, <2>1, PoolAssumption DEF Numbers
  <2>3. poolUp'[l] => pool[l] <= PoolSize + guests[l] + early[l]
    BY <1>4, <2>1, PoolAssumption DEF Numbers
  <2> QED
    BY <1>4, <2>1, <2>2, <2>3
<1> QED
  BY <1>1, <1>2, <1>3, <1>5, <1>6, Ledger

LEMMA BreakKeeps ==
  ASSUME IInv, NEW l \in Links, Break(l)
  PROVE  IInv'
<1>0. /\ poolUp[l] => Conserved(l) /\ Surplus(l)
      /\ guests[l] <= GuestCap
      /\ Numbers(l) /\ Functional /\ TypeOK
      /\ Cardinality(Waiting(l)) \in Nat
  BY Account
<1>1. TypeOK'
  <2>1. task' \in [Links -> {"off", "up", "closing", "over", "cleaned"}]
    BY <1>0, PoolAssumption DEF Functional, Numbers, Break
  <2> QED
    BY <1>0, <2>1 DEF TypeOK, Break, flowVars, poolVars, envVars, historyVars, loopVars
<1>2. UNCHANGED loopVars /\ \A k \in Links \ {l} : Same(k)
  BY <1>0 DEF Functional, Same, Break, flowVars, poolVars, envVars, historyVars, loopVars
<1>3. task'[l] # "off" /\ (known[l] => known'[l]) /\ cur' \in {cur, l, None}
  BY <1>0, Account DEF Functional, Numbers, Break, flowVars, poolVars, envVars, historyVars
<1>4. /\ requests'[l] = requests[l]
      /\ creates'[l] = creates[l]
      /\ dials'[l] = dials[l]
      /\ found'[l] = found[l]
      /\ pool'[l] = pool[l]
      /\ (poolUp'[l] => poolUp[l])
      /\ guests'[l] = guests[l]
      /\ lost'[l] = lost[l]
      /\ early'[l] = early[l]
  BY <1>0 DEF Functional, Numbers, Break, flowVars, poolVars, envVars, historyVars
<1>5. visits <= visits' /\ guests'[l] <= GuestCap
  BY <1>0, <1>4 DEF Numbers, Functional, Break, flowVars, poolVars, envVars, historyVars
<1>6. poolUp'[l] =>
        /\ OnTheWay(l)' + pool'[l] + lost'[l]
             = PoolSize + Cardinality(Waiting(l)) + guests'[l]
        /\ pool'[l] <= PoolSize + guests'[l] + early'[l]
  <2>1. /\ poolUp'[l] =>
             /\ requests[l] + creates[l] + dials[l] + found[l] + pool[l] + lost[l]
                  = PoolSize + Cardinality(Waiting(l)) + guests[l]
             /\ pool[l] <= PoolSize + guests[l] + early[l]
        /\ OnTheWay(l)' = requests'[l] + creates'[l] + dials'[l] + found'[l]
        /\ Cardinality(Waiting(l)) \in Nat /\ Numbers(l)
    BY <1>0, <1>4 DEF OnTheWay, Conserved, Surplus
  <2>2. poolUp'[l] =>
          (requests[l] + creates[l] + dials[l] + found[l]) + pool[l] + lost[l]
            = PoolSize + Cardinality(Waiting(l)) + guests[l]
    BY <1>4, <2>1, PoolAssumption DEF Numbers
  <2>3. poolUp'[l] => pool[l] <= PoolSize + guests[l] + early[l]
    BY <1>4, <2>1, PoolAssumption DEF Numbers
  <2> QED
    BY <1>4, <2>1, <2>2, <2>3
<1> QED
  BY <1>1, <1>2, <1>3, <1>5, <1>6, Ledger

\* The requests that are left are lost.
LEMMA RunOverKeeps ==
  ASSUME IInv, NEW l \in Links, RunOver(l)
  PROVE  IInv'
<1>0. /\ poolUp[l] => Conserved(l) /\ Surplus(l)
      /\ guests[l] <= GuestCap
      /\ Numbers(l) /\ Functional /\ TypeOK
      /\ Cardinality(Waiting(l)) \in Nat
  BY Account
<1>1. TypeOK'
  <2>1. task' \in [Links -> {"off", "up", "closing", "over", "cleaned"}]
    BY <1>0, PoolAssumption DEF Functional, Numbers, RunOver
  <2>2. requests' \in [Links -> Nat]
    BY <1>0, PoolAssumption DEF Functional, Numbers, RunOver
  <2>3. lost' \in [Links -> Nat]
    BY <1>0, PoolAssumption DEF Functional, Numbers, RunOver
  <2> QED
    BY <1>0, <2>1, <2>2, <2>3 DEF TypeOK, RunOver, poolVars, envVars, loopVars
<1>2. UNCHANGED loopVars /\ \A k \in Links \ {l} : Same(k)
  BY <1>0 DEF Functional, Same, RunOver, poolVars, envVars, loopVars
<1>3. task'[l] # "off" /\ (known[l] => known'[l]) /\ cur' \in {cur, l, None}
  BY <1>0, Account DEF Functional, Numbers, RunOver, poolVars, envVars
<1>4. /\ requests'[l] = 0
      /\ lost'[l] = lost[l] + requests[l]
      /\ creates'[l] = creates[l]
      /\ dials'[l] = dials[l]
      /\ found'[l] = found[l]
      /\ pool'[l] = pool[l]
      /\ (poolUp'[l] => poolUp[l])
      /\ guests'[l] = guests[l]
      /\ early'[l] = early[l]
  BY <1>0 DEF Functional, Numbers, RunOver, poolVars, envVars
<1>5. visits <= visits' /\ guests'[l] <= GuestCap
  BY <1>0, <1>4 DEF Numbers, Functional, RunOver, poolVars, envVars
<1>6. poolUp'[l] =>
        /\ OnTheWay(l)' + pool'[l] + lost'[l]
             = PoolSize + Cardinality(Waiting(l)) + guests'[l]
        /\ pool'[l] <= PoolSize + guests'[l] + early'[l]
  <2>1. /\ poolUp'[l] =>
             /\ requests[l] + creates[l] + dials[l] + found[l] + pool[l] + lost[l]
                  = PoolSize + Cardinality(Waiting(l)) + guests[l]
             /\ pool[l] <= PoolSize + guests[l] + early[l]
        /\ OnTheWay(l)' = requests'[l] + creates'[l] + dials'[l] + found'[l]
        /\ Cardinality(Waiting(l)) \in Nat /\ Numbers(l)
    BY <1>0, <1>4 DEF OnTheWay, Conserved, Surplus
  <2>2. poolUp'[l] =>
          (0 + creates[l] + dials[l] + found[l]) + pool[l] + (lost[l] + requests[l])
            = PoolSize + Cardinality(Waiting(l)) + guests[l]
    BY <1>4, <2>1, PoolAssumption DEF Numbers
  <2>3. poolUp'[l] => pool[l] <= PoolSize + guests[l] + early[l]
    BY <1>4, <2>1, PoolAssumption DEF Numbers
  <2> QED
    BY <1>4, <2>1, <2>2, <2>3
<1> QED
  BY <1>1, <1>2, <1>3, <1>5, <1>6, Ledger

LEMMA CleanUpKeeps ==
  ASSUME IInv, NEW l \in Links, CleanUp(l)
  PROVE  IInv'
<1>0. /\ poolUp[l] => Conserved(l) /\ Surplus(l)
      /\ guests[l] <= GuestCap
      /\ Numbers(l) /\ Functional /\ TypeOK
      /\ Cardinality(Waiting(l)) \in Nat
  BY Account
<1>1. TypeOK'
  <2>1. task' \in [Links -> {"off", "up", "closing", "over", "cleaned"}]
    BY <1>0, PoolAssumption DEF Functional, Numbers, CleanUp, Removed
  <2>2. index' \in Links \cup {None}
    BY <1>0, PoolAssumption DEF TypeOK, CleanUp, Removed
  <2>3. handle' \in [Links -> {"none", "in", "out"}]
    BY <1>0, PoolAssumption DEF Functional, Numbers, CleanUp, Removed
  <2> QED
    BY <1>0, <2>1, <2>2, <2>3 DEF TypeOK, CleanUp, Removed, flowVars, poolVars, envVars, historyVars, loopVars
<1>2. UNCHANGED loopVars /\ \A k \in Links \ {l} : Same(k)
  BY <1>0 DEF Functional, Same, CleanUp, Removed, flowVars, poolVars, envVars, historyVars, loopVars
<1>3. task'[l] # "off" /\ (known[l] => known'[l]) /\ cur' \in {cur, l, None}
  BY <1>0, Account DEF Functional, Numbers, CleanUp, Removed, flowVars, poolVars, envVars, historyVars
<1>4. /\ requests'[l] = requests[l]
      /\ creates'[l] = creates[l]
      /\ dials'[l] = dials[l]
      /\ found'[l] = found[l]
      /\ pool'[l] = pool[l]
      /\ (poolUp'[l] => poolUp[l])
      /\ guests'[l] = guests[l]
      /\ lost'[l] = lost[l]
      /\ early'[l] = early[l]
  BY <1>0 DEF Functional, Numbers, CleanUp, Removed, flowVars, poolVars, envVars, historyVars
<1>5. visits <= visits' /\ guests'[l] <= GuestCap
  BY <1>0, <1>4 DEF Numbers, Functional, CleanUp, Removed, flowVars, poolVars, envVars, historyVars
<1>6. poolUp'[l] =>
        /\ OnTheWay(l)' + pool'[l] + lost'[l]
             = PoolSize + Cardinality(Waiting(l)) + guests'[l]
        /\ pool'[l] <= PoolSize + guests'[l] + early'[l]
  <2>1. /\ poolUp'[l] =>
             /\ requests[l] + creates[l] + dials[l] + found[l] + pool[l] + lost[l]
                  = PoolSize + Cardinality(Waiting(l)) + guests[l]
             /\ pool[l] <= PoolSize + guests[l] + early[l]
        /\ OnTheWay(l)' = requests'[l] + creates'[l] + dials'[l] + found'[l]
        /\ Cardinality(Waiting(l)) \in Nat /\ Numbers(l)
    BY <1>0, <1>4 DEF OnTheWay, Conserved, Surplus
  <2>2. poolUp'[l] =>
          (requests[l] + creates[l] + dials[l] + found[l]) + pool[l] + lost[l]
            = PoolSize + Cardinality(Waiting(l)) + guests[l]
    BY <1>4, <2>1, PoolAssumption DEF Numbers
  <2>3. poolUp'[l] => pool[l] <= PoolSize + guests[l] + early[l]
    BY <1>4, <2>1, PoolAssumption DEF Numbers
  <2> QED
    BY <1>4, <2>1, <2>2, <2>3
<1> QED
  BY <1>1, <1>2, <1>3, <1>5, <1>6, Ledger

LEMMA SendCreateKeeps ==
  ASSUME IInv, NEW l \in Links, SendCreate(l)
  PROVE  IInv'
<1>0. /\ poolUp[l] => Conserved(l) /\ Surplus(l)
      /\ guests[l] <= GuestCap
      /\ Numbers(l) /\ Functional /\ TypeOK
      /\ Cardinality(Waiting(l)) \in Nat
  BY Account
<1>1. TypeOK'
  <2>1. requests' \in [Links -> Nat]
    BY <1>0, PoolAssumption DEF Functional, Numbers, SendCreate, HasRequest
  <2>2. creates' \in [Links -> Nat]
    BY <1>0, PoolAssumption DEF Functional, Numbers, SendCreate, HasRequest
  <2>3. lost' \in [Links -> Nat]
    BY <1>0, PoolAssumption DEF Functional, Numbers, SendCreate, HasRequest
  <2> QED
    BY <1>0, <2>1, <2>2, <2>3 DEF TypeOK, SendCreate, HasRequest, linkVars, poolVars, envVars, loopVars
<1>2. UNCHANGED loopVars /\ \A k \in Links \ {l} : Same(k)
  BY <1>0 DEF Functional, Same, SendCreate, HasRequest, linkVars, poolVars, envVars, loopVars
<1>3. task'[l] # "off" /\ (known[l] => known'[l]) /\ cur' \in {cur, l, None}
  BY <1>0, Account DEF Functional, Numbers, SendCreate, HasRequest, linkVars, poolVars, envVars
<1>4. /\ requests'[l] = requests[l] - 1
      /\ \/ creates'[l] = creates[l] + 1 /\ lost'[l] = lost[l]
         \/ creates'[l] = creates[l] /\ lost'[l] = lost[l] + 1
      /\ dials'[l] = dials[l]
      /\ found'[l] = found[l]
      /\ pool'[l] = pool[l]
      /\ (poolUp'[l] => poolUp[l])
      /\ guests'[l] = guests[l]
      /\ early'[l] = early[l]
  BY <1>0 DEF Functional, Numbers, SendCreate, HasRequest, linkVars, poolVars, envVars
<1>5. visits <= visits' /\ guests'[l] <= GuestCap
  BY <1>0, <1>4 DEF Numbers, Functional, SendCreate, HasRequest, linkVars, poolVars, envVars
<1>6. poolUp'[l] =>
        /\ OnTheWay(l)' + pool'[l] + lost'[l]
             = PoolSize + Cardinality(Waiting(l)) + guests'[l]
        /\ pool'[l] <= PoolSize + guests'[l] + early'[l]
  <2>1. /\ poolUp'[l] =>
             /\ requests[l] + creates[l] + dials[l] + found[l] + pool[l] + lost[l]
                  = PoolSize + Cardinality(Waiting(l)) + guests[l]
             /\ pool[l] <= PoolSize + guests[l] + early[l]
        /\ OnTheWay(l)' = requests'[l] + creates'[l] + dials'[l] + found'[l]
        /\ Cardinality(Waiting(l)) \in Nat /\ Numbers(l)
    BY <1>0, <1>4 DEF OnTheWay, Conserved, Surplus
  <2>2. CASE creates'[l] = creates[l] + 1 /\ lost'[l] = lost[l]
    <3>1. poolUp'[l] =>
            /\ ((requests[l] - 1) + (creates[l] + 1) + dials[l] + found[l]) + pool[l] + lost[l]
                 = PoolSize + Cardinality(Waiting(l)) + guests[l]
            /\ pool[l] <= PoolSize + guests[l] + early[l]
      BY <2>1, PoolAssumption DEF Numbers
    <3> QED
      BY <1>4, <2>1, <2>2, <3>1
  <2>3. CASE creates'[l] = creates[l] /\ lost'[l] = lost[l] + 1
    <3>1. poolUp'[l] =>
            /\ ((requests[l] - 1) + creates[l] + dials[l] + found[l]) + pool[l] + (lost[l] + 1)
                 = PoolSize + Cardinality(Waiting(l)) + guests[l]
            /\ pool[l] <= PoolSize + guests[l] + early[l]
      <4>1. /\ requests[l] \in Nat /\ creates[l] \in Nat /\ dials[l] \in Nat
            /\ found[l] \in Nat /\ pool[l] \in Nat /\ lost[l] \in Nat
        BY <2>1 DEF Numbers
      <4>2. PICK p \in Nat, n \in Nat, o \in Nat :
              /\ n = requests[l] + creates[l] + dials[l] + found[l]
              /\ p = pool[l] /\ o = lost[l]
        BY <4>1
      <4>3. ((requests[l] - 1) + creates[l] + dials[l] + found[l]) = n - 1
        BY <4>1, <4>2
      <4>4. (n - 1) + p + (o + 1) = n + p + o
        BY <4>2
      <4> QED
        BY <2>1, <4>2, <4>3, <4>4
    <3> QED
      BY <1>4, <2>1, <2>3, <3>1
  <2> QED
    BY <1>4, <2>2, <2>3
<1> QED
  BY <1>1, <1>2, <1>3, <1>5, <1>6, Ledger

LEMMA ReadCreateKeeps ==
  ASSUME IInv, NEW l \in Links, ReadCreate(l)
  PROVE  IInv'
<1>0. /\ poolUp[l] => Conserved(l) /\ Surplus(l)
      /\ guests[l] <= GuestCap
      /\ Numbers(l) /\ Functional /\ TypeOK
      /\ Cardinality(Waiting(l)) \in Nat
  BY Account
<1>1. TypeOK'
  <2>1. creates' \in [Links -> Nat]
    BY <1>0, PoolAssumption DEF Functional, Numbers, ReadCreate
  <2>2. dials' \in [Links -> Nat]
    BY <1>0, PoolAssumption DEF Functional, Numbers, ReadCreate
  <2> QED
    BY <1>0, <2>1, <2>2 DEF TypeOK, ReadCreate, linkVars, poolVars, envVars, historyVars, loopVars
<1>2. UNCHANGED loopVars /\ \A k \in Links \ {l} : Same(k)
  BY <1>0 DEF Functional, Same, ReadCreate, linkVars, poolVars, envVars, historyVars, loopVars
<1>3. task'[l] # "off" /\ (known[l] => known'[l]) /\ cur' \in {cur, l, None}
  BY <1>0, Account DEF Functional, Numbers, ReadCreate, linkVars, poolVars, envVars, historyVars
<1>4. /\ creates'[l] = creates[l] - 1
      /\ dials'[l] = dials[l] + 1
      /\ requests'[l] = requests[l]
      /\ found'[l] = found[l]
      /\ pool'[l] = pool[l]
      /\ (poolUp'[l] => poolUp[l])
      /\ guests'[l] = guests[l]
      /\ lost'[l] = lost[l]
      /\ early'[l] = early[l]
  BY <1>0 DEF Functional, Numbers, ReadCreate, linkVars, poolVars, envVars, historyVars
<1>5. visits <= visits' /\ guests'[l] <= GuestCap
  BY <1>0, <1>4 DEF Numbers, Functional, ReadCreate, linkVars, poolVars, envVars, historyVars
<1>6. poolUp'[l] =>
        /\ OnTheWay(l)' + pool'[l] + lost'[l]
             = PoolSize + Cardinality(Waiting(l)) + guests'[l]
        /\ pool'[l] <= PoolSize + guests'[l] + early'[l]
  <2>1. /\ poolUp'[l] =>
             /\ requests[l] + creates[l] + dials[l] + found[l] + pool[l] + lost[l]
                  = PoolSize + Cardinality(Waiting(l)) + guests[l]
             /\ pool[l] <= PoolSize + guests[l] + early[l]
        /\ OnTheWay(l)' = requests'[l] + creates'[l] + dials'[l] + found'[l]
        /\ Cardinality(Waiting(l)) \in Nat /\ Numbers(l)
    BY <1>0, <1>4 DEF OnTheWay, Conserved, Surplus
  <2>2. poolUp'[l] =>
          (requests[l] + (creates[l] - 1) + (dials[l] + 1) + found[l]) + pool[l] + lost[l]
            = PoolSize + Cardinality(Waiting(l)) + guests[l]
    BY <1>4, <2>1, PoolAssumption DEF Numbers
  <2>3. poolUp'[l] => pool[l] <= PoolSize + guests[l] + early[l]
    BY <1>4, <2>1, PoolAssumption DEF Numbers
  <2> QED
    BY <1>4, <2>1, <2>2, <2>3
<1> QED
  BY <1>1, <1>2, <1>3, <1>5, <1>6, Ledger

LEMMA DialFailsKeeps ==
  ASSUME IInv, NEW l \in Links, DialFails(l)
  PROVE  IInv'
<1>0. /\ poolUp[l] => Conserved(l) /\ Surplus(l)
      /\ guests[l] <= GuestCap
      /\ Numbers(l) /\ Functional /\ TypeOK
      /\ Cardinality(Waiting(l)) \in Nat
  BY Account
<1>1. TypeOK'
  <2>1. dials' \in [Links -> Nat]
    BY <1>0, PoolAssumption DEF Functional, Numbers, DialFails, Fault
  <2>2. lost' \in [Links -> Nat]
    BY <1>0, PoolAssumption DEF Functional, Numbers, DialFails, Fault
  <2>3. faults' \in 0..MaxFaults
    BY <1>0, PoolAssumption, BoundsAssumption DEF TypeOK, DialFails, Fault
  <2> QED
    BY <1>0, <2>1, <2>2, <2>3 DEF TypeOK, DialFails, Fault, linkVars, poolVars, loopVars
<1>2. UNCHANGED loopVars /\ \A k \in Links \ {l} : Same(k)
  BY <1>0 DEF Functional, Same, DialFails, Fault, linkVars, poolVars, loopVars
<1>3. task'[l] # "off" /\ (known[l] => known'[l]) /\ cur' \in {cur, l, None}
  BY <1>0, Account DEF Functional, Numbers, DialFails, Fault, linkVars, poolVars
<1>4. /\ dials'[l] = dials[l] - 1
      /\ lost'[l] = lost[l] + 1
      /\ requests'[l] = requests[l]
      /\ creates'[l] = creates[l]
      /\ found'[l] = found[l]
      /\ pool'[l] = pool[l]
      /\ (poolUp'[l] => poolUp[l])
      /\ guests'[l] = guests[l]
      /\ early'[l] = early[l]
  BY <1>0 DEF Functional, Numbers, DialFails, Fault, linkVars, poolVars
<1>5. visits <= visits' /\ guests'[l] <= GuestCap
  BY <1>0, <1>4 DEF Numbers, Functional, DialFails, Fault, linkVars, poolVars
<1>6. poolUp'[l] =>
        /\ OnTheWay(l)' + pool'[l] + lost'[l]
             = PoolSize + Cardinality(Waiting(l)) + guests'[l]
        /\ pool'[l] <= PoolSize + guests'[l] + early'[l]
  <2>1. /\ poolUp'[l] =>
             /\ requests[l] + creates[l] + dials[l] + found[l] + pool[l] + lost[l]
                  = PoolSize + Cardinality(Waiting(l)) + guests[l]
             /\ pool[l] <= PoolSize + guests[l] + early[l]
        /\ OnTheWay(l)' = requests'[l] + creates'[l] + dials'[l] + found'[l]
        /\ Cardinality(Waiting(l)) \in Nat /\ Numbers(l)
    BY <1>0, <1>4 DEF OnTheWay, Conserved, Surplus
  <2>2. poolUp'[l] =>
          (requests[l] + creates[l] + (dials[l] - 1) + found[l]) + pool[l] + (lost[l] + 1)
            = PoolSize + Cardinality(Waiting(l)) + guests[l]
    <3>1. /\ requests[l] \in Nat /\ creates[l] \in Nat /\ dials[l] \in Nat
          /\ found[l] \in Nat /\ pool[l] \in Nat /\ lost[l] \in Nat /\ guests[l] \in Nat
      BY <2>1 DEF Numbers
    <3>2. PICK p \in Nat, n \in Nat, o \in Nat :
            /\ n = requests[l] + creates[l] + dials[l] + found[l]
            /\ p = pool[l] /\ o = lost[l]
      BY <3>1
    <3>3. requests[l] + creates[l] + (dials[l] - 1) + found[l] = n - 1
      BY <3>1, <3>2
    <3>4. (n - 1) + p + (o + 1) = n + p + o
      BY <3>2
    <3> QED
      BY <2>1, <3>2, <3>3, <3>4
  <2>3. poolUp'[l] => pool[l] <= PoolSize + guests[l] + early[l]
    BY <1>4, <2>1, PoolAssumption DEF Numbers
  <2> QED
    BY <1>4, <2>1, <2>2, <2>3
<1> QED
  BY <1>1, <1>2, <1>3, <1>5, <1>6, Ledger

LEMMA LookupKeeps ==
  ASSUME IInv, NEW l \in Links, Lookup(l)
  PROVE  IInv'
<1>0. /\ poolUp[l] => Conserved(l) /\ Surplus(l)
      /\ guests[l] <= GuestCap
      /\ Numbers(l) /\ Functional /\ TypeOK
      /\ Cardinality(Waiting(l)) \in Nat
  BY Account
<1>1. TypeOK'
  <2>1. dials' \in [Links -> Nat]
    BY <1>0, PoolAssumption DEF Functional, Numbers, Lookup
  <2>2. found' \in [Links -> Nat]
    BY <1>0, PoolAssumption DEF Functional, Numbers, Lookup
  <2>3. lost' \in [Links -> Nat]
    BY <1>0, PoolAssumption DEF Functional, Numbers, Lookup
  <2> QED
    BY <1>0, <2>1, <2>2, <2>3 DEF TypeOK, Lookup, linkVars, poolVars, envVars, loopVars
<1>2. UNCHANGED loopVars /\ \A k \in Links \ {l} : Same(k)
  BY <1>0 DEF Functional, Same, Lookup, linkVars, poolVars, envVars, loopVars
<1>3. task'[l] # "off" /\ (known[l] => known'[l]) /\ cur' \in {cur, l, None}
  BY <1>0, Account DEF Functional, Numbers, Lookup, linkVars, poolVars, envVars
<1>4. /\ dials'[l] = dials[l] - 1
      /\ \/ found'[l] = found[l] + 1 /\ lost'[l] = lost[l]
         \/ found'[l] = found[l] /\ lost'[l] = lost[l] + 1
      /\ requests'[l] = requests[l]
      /\ creates'[l] = creates[l]
      /\ pool'[l] = pool[l]
      /\ (poolUp'[l] => poolUp[l])
      /\ guests'[l] = guests[l]
      /\ early'[l] = early[l]
  BY <1>0 DEF Functional, Numbers, Lookup, linkVars, poolVars, envVars
<1>5. visits <= visits' /\ guests'[l] <= GuestCap
  BY <1>0, <1>4 DEF Numbers, Functional, Lookup, linkVars, poolVars, envVars
<1>6. poolUp'[l] =>
        /\ OnTheWay(l)' + pool'[l] + lost'[l]
             = PoolSize + Cardinality(Waiting(l)) + guests'[l]
        /\ pool'[l] <= PoolSize + guests'[l] + early'[l]
  <2>1. /\ poolUp'[l] =>
             /\ requests[l] + creates[l] + dials[l] + found[l] + pool[l] + lost[l]
                  = PoolSize + Cardinality(Waiting(l)) + guests[l]
             /\ pool[l] <= PoolSize + guests[l] + early[l]
        /\ OnTheWay(l)' = requests'[l] + creates'[l] + dials'[l] + found'[l]
        /\ Cardinality(Waiting(l)) \in Nat /\ Numbers(l)
    BY <1>0, <1>4 DEF OnTheWay, Conserved, Surplus
  <2>2. CASE found'[l] = found[l] + 1 /\ lost'[l] = lost[l]
    <3>1. poolUp'[l] =>
            /\ (requests[l] + creates[l] + (dials[l] - 1) + (found[l] + 1)) + pool[l] + lost[l]
                 = PoolSize + Cardinality(Waiting(l)) + guests[l]
            /\ pool[l] <= PoolSize + guests[l] + early[l]
      BY <2>1, PoolAssumption DEF Numbers
    <3> QED
      BY <1>4, <2>1, <2>2, <3>1
  <2>3. CASE found'[l] = found[l] /\ lost'[l] = lost[l] + 1
    <3>1. poolUp'[l] =>
            /\ (requests[l] + creates[l] + (dials[l] - 1) + found[l]) + pool[l] + (lost[l] + 1)
                 = PoolSize + Cardinality(Waiting(l)) + guests[l]
            /\ pool[l] <= PoolSize + guests[l] + early[l]
      <4>1. /\ requests[l] \in Nat /\ creates[l] \in Nat /\ dials[l] \in Nat
            /\ found[l] \in Nat /\ pool[l] \in Nat /\ lost[l] \in Nat
        BY <2>1 DEF Numbers
      <4>2. PICK p \in Nat, n \in Nat, o \in Nat :
              /\ n = requests[l] + creates[l] + dials[l] + found[l]
              /\ p = pool[l] /\ o = lost[l]
        BY <4>1
      <4>3. (requests[l] + creates[l] + (dials[l] - 1) + found[l]) = n - 1
        BY <4>1, <4>2
      <4>4. (n - 1) + p + (o + 1) = n + p + o
        BY <4>2
      <4> QED
        BY <2>1, <4>2, <4>3, <4>4
    <3> QED
      BY <1>4, <2>1, <2>3, <3>1
  <2> QED
    BY <1>4, <2>2, <2>3
<1> QED
  BY <1>1, <1>2, <1>3, <1>5, <1>6, Ledger

\* A visitor of the pool's listener waits, and has made a request.
LEMMA GuestKeeps ==
  ASSUME IInv, NEW l \in Links, Guest(l)
  PROVE  IInv'
<1>0. /\ poolUp[l] => Conserved(l) /\ Surplus(l)
      /\ guests[l] <= GuestCap
      /\ Numbers(l) /\ Functional /\ TypeOK
      /\ Cardinality(Waiting(l)) \in Nat
  BY Account
<1>1. TypeOK'
  <2>1. requests' \in [Links -> Nat]
    BY <1>0, PoolAssumption DEF Functional, Numbers, Guest, Ask, Arrival
  <2>2. guests' \in [Links -> Nat]
    BY <1>0, PoolAssumption DEF Functional, Numbers, Guest, Ask, Arrival
  <2>3. visits' \in 0..MaxVisits
    BY <1>0, PoolAssumption, BoundsAssumption DEF TypeOK, Guest, Ask, Arrival
  <2> QED
    BY <1>0, <2>1, <2>2, <2>3 DEF TypeOK, Guest, Ask, Arrival, linkVars, historyVars, loopVars
<1>2. UNCHANGED loopVars /\ \A k \in Links \ {l} : Same(k)
  BY <1>0 DEF Functional, Same, Guest, Ask, Arrival, linkVars, historyVars, loopVars
<1>3. task'[l] # "off" /\ (known[l] => known'[l]) /\ cur' \in {cur, l, None}
  BY DEF Guest, Requestable, linkVars
<1>4. /\ requests'[l] = requests[l] + 1
      /\ guests'[l] = IF poolUp[l] THEN guests[l] + 1 ELSE guests[l]
      /\ creates'[l] = creates[l]
      /\ dials'[l] = dials[l]
      /\ found'[l] = found[l]
      /\ pool'[l] = pool[l]
      /\ (poolUp'[l] => poolUp[l])
      /\ lost'[l] = lost[l]
      /\ early'[l] = early[l]
  BY <1>0 DEF Functional, Numbers, Guest, Ask, Arrival, linkVars, historyVars
<1>5. visits <= visits' /\ guests'[l] <= GuestCap
  <2>1. visits \in Nat /\ guests[l] \in Nat /\ guests[l] <= GuestCap /\ visits' = visits + 1
    BY <1>0 DEF Numbers, Guest, Arrival
  <2>2. \/ guests'[l] = guests[l] + 1 /\ guests[l] < GuestCap
        \/ guests'[l] = guests[l]
    BY <1>4 DEF Guest
  <2> QED
    BY <2>1, <2>2, GuestAssumption
<1>6. poolUp'[l] =>
        /\ OnTheWay(l)' + pool'[l] + lost'[l]
             = PoolSize + Cardinality(Waiting(l)) + guests'[l]
        /\ pool'[l] <= PoolSize + guests'[l] + early'[l]
  <2>1. /\ poolUp'[l] =>
             /\ requests[l] + creates[l] + dials[l] + found[l] + pool[l] + lost[l]
                  = PoolSize + Cardinality(Waiting(l)) + guests[l]
             /\ pool[l] <= PoolSize + guests[l] + early[l]
        /\ OnTheWay(l)' = requests'[l] + creates'[l] + dials'[l] + found'[l]
        /\ Cardinality(Waiting(l)) \in Nat /\ Numbers(l)
    BY <1>0, <1>4 DEF OnTheWay, Conserved, Surplus
  <2>a. poolUp'[l] => guests'[l] = guests[l] + 1
    BY <1>4
  <2>2. poolUp'[l] =>
          ((requests[l] + 1) + creates[l] + dials[l] + found[l]) + pool[l] + lost[l]
            = PoolSize + Cardinality(Waiting(l)) + (guests[l] + 1)
    BY <1>4, <2>1, PoolAssumption DEF Numbers
  <2>3. poolUp'[l] => pool[l] <= PoolSize + (guests[l] + 1) + early[l]
    BY <1>4, <2>1, PoolAssumption DEF Numbers
  <2> QED
    BY <1>4, <2>1, <2>2, <2>3, <2>a
<1> QED
  BY <1>1, <1>2, <1>3, <1>5, <1>6, Ledger

LEMMA ServeGuestKeeps ==
  ASSUME IInv, NEW l \in Links, ServeGuest(l)
  PROVE  IInv'
<1>0. /\ poolUp[l] => Conserved(l) /\ Surplus(l)
      /\ guests[l] <= GuestCap
      /\ Numbers(l) /\ Functional /\ TypeOK
      /\ Cardinality(Waiting(l)) \in Nat
  BY Account
<1>1. TypeOK'
  <2>1. pool' \in [Links -> 0..PoolCap]
    BY <1>0, PoolAssumption DEF Functional, Numbers, ServeGuest
  <2>2. guests' \in [Links -> Nat]
    BY <1>0, PoolAssumption DEF Functional, Numbers, ServeGuest
  <2> QED
    BY <1>0, <2>1, <2>2 DEF TypeOK, ServeGuest, linkVars, flowVars, envVars, historyVars, loopVars
<1>2. UNCHANGED loopVars /\ \A k \in Links \ {l} : Same(k)
  BY <1>0 DEF Functional, Same, ServeGuest, linkVars, flowVars, envVars, historyVars, loopVars
<1>3. task'[l] # "off" /\ (known[l] => known'[l]) /\ cur' \in {cur, l, None}
  BY <1>0, Account DEF Functional, Numbers, ServeGuest, linkVars, flowVars, envVars, historyVars
<1>4. /\ pool'[l] = pool[l] - 1
      /\ guests'[l] = guests[l] - 1
      /\ requests'[l] = requests[l]
      /\ creates'[l] = creates[l]
      /\ dials'[l] = dials[l]
      /\ found'[l] = found[l]
      /\ (poolUp'[l] => poolUp[l])
      /\ lost'[l] = lost[l]
      /\ early'[l] = early[l]
  BY <1>0 DEF Functional, Numbers, ServeGuest, linkVars, flowVars, envVars, historyVars
<1>5. visits <= visits' /\ guests'[l] <= GuestCap
  BY <1>0, <1>4, GuestAssumption DEF Numbers, Functional, ServeGuest, linkVars, flowVars, envVars, historyVars
<1>6. poolUp'[l] =>
        /\ OnTheWay(l)' + pool'[l] + lost'[l]
             = PoolSize + Cardinality(Waiting(l)) + guests'[l]
        /\ pool'[l] <= PoolSize + guests'[l] + early'[l]
  <2>1. /\ poolUp'[l] =>
             /\ requests[l] + creates[l] + dials[l] + found[l] + pool[l] + lost[l]
                  = PoolSize + Cardinality(Waiting(l)) + guests[l]
             /\ pool[l] <= PoolSize + guests[l] + early[l]
        /\ OnTheWay(l)' = requests'[l] + creates'[l] + dials'[l] + found'[l]
        /\ Cardinality(Waiting(l)) \in Nat /\ Numbers(l)
    BY <1>0, <1>4 DEF OnTheWay, Conserved, Surplus
  <2>2. poolUp'[l] =>
          (requests[l] + creates[l] + dials[l] + found[l]) + (pool[l] - 1) + lost[l]
            = PoolSize + Cardinality(Waiting(l)) + (guests[l] - 1)
    BY <1>4, <2>1, PoolAssumption DEF Numbers
  <2>3. poolUp'[l] => (pool[l] - 1) <= PoolSize + (guests[l] - 1) + early[l]
    BY <1>4, <2>1, PoolAssumption DEF Numbers
  <2> QED
    BY <1>4, <2>1, <2>2, <2>3
<1> QED
  BY <1>1, <1>2, <1>3, <1>5, <1>6, Ledger

LEMMA PooledDeadKeeps ==
  ASSUME IInv, NEW l \in Links, PooledDead(l)
  PROVE  IInv'
<1>0. /\ poolUp[l] => Conserved(l) /\ Surplus(l)
      /\ guests[l] <= GuestCap
      /\ Numbers(l) /\ Functional /\ TypeOK
      /\ Cardinality(Waiting(l)) \in Nat
  BY Account
<1>1. TypeOK'
  <2>1. pool' \in [Links -> 0..PoolCap]
    BY <1>0, PoolAssumption DEF Functional, Numbers, PooledDead, Ask, Fault
  <2>2. poolUp' \in [Links -> BOOLEAN]
    BY <1>0, PoolAssumption DEF Functional, Numbers, PooledDead, Ask, Fault
  <2>3. guests' \in [Links -> Nat]
    BY <1>0, PoolAssumption DEF Functional, Numbers, PooledDead, Ask, Fault
  <2>4. requests' \in [Links -> Nat]
    BY <1>0, PoolAssumption DEF Functional, Numbers, PooledDead, Ask, Fault
  <2>5. faults' \in 0..MaxFaults
    BY <1>0, PoolAssumption, BoundsAssumption DEF TypeOK, PooledDead, Ask, Fault
  <2> QED
    BY <1>0, <2>1, <2>2, <2>3, <2>4, <2>5 DEF TypeOK, PooledDead, Ask, Fault, linkVars, historyVars, loopVars
<1>2. UNCHANGED loopVars /\ \A k \in Links \ {l} : Same(k)
  BY <1>0 DEF Functional, Same, PooledDead, Ask, Fault, linkVars, historyVars, loopVars
<1>3. task'[l] # "off" /\ (known[l] => known'[l]) /\ cur' \in {cur, l, None}
  BY <1>0, Account DEF Functional, Numbers, PooledDead, Ask, Fault, linkVars, historyVars
<1>4. /\ \/ requests'[l] = requests[l] + 1 /\ pool'[l] = pool[l] - 1 /\ guests'[l] = guests[l]
         \/ poolUp'[l] = FALSE
      /\ poolUp[l]
      /\ creates'[l] = creates[l]
      /\ dials'[l] = dials[l]
      /\ found'[l] = found[l]
      /\ lost'[l] = lost[l]
      /\ early'[l] = early[l]
  BY <1>0 DEF Functional, Numbers, PooledDead, Ask, Fault, linkVars, historyVars
<1>5. visits <= visits' /\ guests'[l] <= GuestCap
  BY <1>0, <1>4, GuestAssumption DEF Numbers, Functional, PooledDead, Ask, Fault, linkVars, historyVars
<1>6. poolUp'[l] =>
        /\ OnTheWay(l)' + pool'[l] + lost'[l]
             = PoolSize + Cardinality(Waiting(l)) + guests'[l]
        /\ pool'[l] <= PoolSize + guests'[l] + early'[l]
  <2>1. /\ poolUp'[l] =>
             /\ requests[l] + creates[l] + dials[l] + found[l] + pool[l] + lost[l]
                  = PoolSize + Cardinality(Waiting(l)) + guests[l]
             /\ pool[l] <= PoolSize + guests[l] + early[l]
        /\ OnTheWay(l)' = requests'[l] + creates'[l] + dials'[l] + found'[l]
        /\ Cardinality(Waiting(l)) \in Nat /\ Numbers(l)
    BY <1>0, <1>4 DEF OnTheWay, Conserved, Surplus
  <2>2. CASE requests'[l] = requests[l] + 1 /\ pool'[l] = pool[l] - 1 /\ guests'[l] = guests[l]
    <3>1. poolUp'[l] =>
            /\ ((requests[l] + 1) + creates[l] + dials[l] + found[l]) + (pool[l] - 1) + lost[l]
                 = PoolSize + Cardinality(Waiting(l)) + guests[l]
            /\ (pool[l] - 1) <= PoolSize + guests[l] + early[l]
      BY <2>1, PoolAssumption DEF Numbers
    <3> QED
      BY <1>4, <2>1, <2>2, <3>1
  <2>3. CASE poolUp'[l] = FALSE
    <3>1. poolUp'[l] =>
            /\ (requests[l] + creates[l] + dials[l] + found[l]) + pool[l] + lost[l]
                 = PoolSize + Cardinality(Waiting(l)) + guests[l]
            /\ pool[l] <= PoolSize + guests[l] + early[l]
      BY <2>1, PoolAssumption DEF Numbers
    <3> QED
      BY <1>4, <2>1, <2>3, <3>1
  <2> QED
    BY <1>4, <2>2, <2>3
<1> QED
  BY <1>1, <1>2, <1>3, <1>5, <1>6, Ledger

LEMMA PoolEndsKeeps ==
  ASSUME IInv, NEW l \in Links, PoolEnds(l)
  PROVE  IInv'
<1>0. /\ poolUp[l] => Conserved(l) /\ Surplus(l)
      /\ guests[l] <= GuestCap
      /\ Numbers(l) /\ Functional /\ TypeOK
      /\ Cardinality(Waiting(l)) \in Nat
  BY Account
<1>1. TypeOK'
  <2>1. pool' \in [Links -> 0..PoolCap]
    BY <1>0, PoolAssumption DEF Functional, Numbers, PoolEnds
  <2>2. poolUp' \in [Links -> BOOLEAN]
    BY <1>0, PoolAssumption DEF Functional, Numbers, PoolEnds
  <2>3. guests' \in [Links -> Nat]
    BY <1>0, PoolAssumption DEF Functional, Numbers, PoolEnds
  <2> QED
    BY <1>0, <2>1, <2>2, <2>3 DEF TypeOK, PoolEnds, linkVars, flowVars, envVars, historyVars, loopVars
<1>2. UNCHANGED loopVars /\ \A k \in Links \ {l} : Same(k)
  BY <1>0 DEF Functional, Same, PoolEnds, linkVars, flowVars, envVars, historyVars, loopVars
<1>3. task'[l] # "off" /\ (known[l] => known'[l]) /\ cur' \in {cur, l, None}
  BY <1>0, Account DEF Functional, Numbers, PoolEnds, linkVars, flowVars, envVars, historyVars
<1>4. /\ pool'[l] = 0
      /\ poolUp'[l] = FALSE
      /\ guests'[l] = 0
      /\ requests'[l] = requests[l]
      /\ creates'[l] = creates[l]
      /\ dials'[l] = dials[l]
      /\ found'[l] = found[l]
      /\ lost'[l] = lost[l]
      /\ early'[l] = early[l]
  BY <1>0 DEF Functional, Numbers, PoolEnds, linkVars, flowVars, envVars, historyVars
<1>5. visits <= visits' /\ guests'[l] <= GuestCap
  BY <1>0, <1>4, GuestAssumption DEF Numbers, Functional, PoolEnds, linkVars, flowVars, envVars, historyVars
<1>6. poolUp'[l] =>
        /\ OnTheWay(l)' + pool'[l] + lost'[l]
             = PoolSize + Cardinality(Waiting(l)) + guests'[l]
        /\ pool'[l] <= PoolSize + guests'[l] + early'[l]
  <2>1. /\ poolUp'[l] =>
             /\ requests[l] + creates[l] + dials[l] + found[l] + pool[l] + lost[l]
                  = PoolSize + Cardinality(Waiting(l)) + guests[l]
             /\ pool[l] <= PoolSize + guests[l] + early[l]
        /\ OnTheWay(l)' = requests'[l] + creates'[l] + dials'[l] + found'[l]
        /\ Cardinality(Waiting(l)) \in Nat /\ Numbers(l)
    BY <1>0, <1>4 DEF OnTheWay, Conserved, Surplus
  <2>2. poolUp'[l] =>
          (requests[l] + creates[l] + dials[l] + found[l]) + 0 + lost[l]
            = PoolSize + Cardinality(Waiting(l)) + 0
    BY <1>4, <2>1, PoolAssumption DEF Numbers
  <2>3. poolUp'[l] => 0 <= PoolSize + 0 + early[l]
    BY <1>4, <2>1, PoolAssumption DEF Numbers
  <2> QED
    BY <1>4, <2>1, <2>2, <2>3
<1> QED
  BY <1>1, <1>2, <1>3, <1>5, <1>6, Ledger

\* No callback is queued, so if no loop is about to queue one nobody waits, and the
\* channel that is pooled is one of the initial ones or a guest's.
LEMMA GiveToPoolKeeps ==
  ASSUME IInv, NEW l \in Links, GiveToPool(l)
  PROVE  IInv'
<1>0. /\ poolUp[l] => Conserved(l) /\ Surplus(l)
      /\ guests[l] <= GuestCap
      /\ Numbers(l) /\ Functional /\ TypeOK
      /\ Cardinality(Waiting(l)) \in Nat
  BY Account
<1> USE DEF MayPool
<1>1. TypeOK'
  <2>1. found' \in [Links -> Nat]
    BY <1>0 DEF Functional, Numbers, GiveToPool
  <2>a. /\ pool \in [Links -> 0..PoolCap] /\ pool[l] \in Nat
        /\ lost \in [Links -> Nat] /\ lost[l] + 1 \in Nat
        /\ early \in [Links -> Nat] /\ early[l] \in Nat /\ early[l] + 1 \in Nat
    BY <1>0 DEF Functional, Numbers
  <2>2. pool' \in [Links -> 0..PoolCap]
    <3>1. CASE poolUp[l]
      <4>1. pool' = [pool EXCEPT ![l] = @ + 1] /\ pool[l] < PoolCap
        BY <3>1 DEF GiveToPool
      <4> QED
        BY <2>a, <4>1, PoolAssumption
    <3>2. CASE ~poolUp[l]
      BY <2>a, <3>2 DEF GiveToPool
    <3> QED
      BY <3>1, <3>2
  <2>3. lost' \in [Links -> Nat]
    BY <2>a DEF GiveToPool
  <2>4. early' \in [Links -> Nat]
    BY <2>a DEF GiveToPool
  <2> QED
    BY <1>0, <2>1, <2>2, <2>3, <2>4
    DEF TypeOK, GiveToPool, linkVars, loopVars, envVars
<1>2. UNCHANGED loopVars /\ \A k \in Links \ {l} : Same(k)
  BY <1>0 DEF Functional, Same, GiveToPool, linkVars, loopVars, envVars
<1>3. task'[l] # "off" /\ (known[l] => known'[l]) /\ cur' \in {cur, l, None}
  BY <1>0, Account DEF Functional, Numbers, GiveToPool, linkVars
<1>4. visits <= visits' /\ guests'[l] <= GuestCap
  BY <1>0 DEF Numbers, GiveToPool, envVars
<1>5. poolUp'[l] =>
        /\ OnTheWay(l)' + pool'[l] + lost'[l]
             = PoolSize + Cardinality(Waiting(l)) + guests'[l]
        /\ pool'[l] <= PoolSize + guests'[l] + early'[l]
  <2> SUFFICES ASSUME poolUp[l]
               PROVE  /\ OnTheWay(l)' + pool'[l] + lost'[l]
                           = PoolSize + Cardinality(Waiting(l)) + guests'[l]
                      /\ pool'[l] <= PoolSize + guests'[l] + early'[l]
    BY DEF GiveToPool
  <2>1. /\ requests[l] + creates[l] + dials[l] + found[l] + pool[l] + lost[l]
             = PoolSize + Cardinality(Waiting(l)) + guests[l]
        /\ pool[l] <= PoolSize + guests[l] + early[l]
        /\ OnTheWay(l)' = requests'[l] + creates'[l] + dials'[l] + found'[l]
        /\ Cardinality(Waiting(l)) \in Nat /\ Numbers(l)
    BY <1>0 DEF OnTheWay, Conserved, Surplus
  <2>2. /\ requests'[l] = requests[l] /\ creates'[l] = creates[l]
        /\ dials'[l] = dials[l] /\ found'[l] = found[l] - 1
        /\ pool'[l] = pool[l] + 1 /\ guests'[l] = guests[l]
        /\ lost'[l] = lost[l] /\ found[l] > 0
    BY <1>0 DEF Functional, Numbers, GiveToPool
  <2>3. (requests[l] + creates[l] + dials[l] + (found[l] - 1)) + (pool[l] + 1) + lost[l]
          = PoolSize + Cardinality(Waiting(l)) + guests[l]
    <3>1. requests[l] + creates[l] + dials[l] + (found[l] - 1)
            = (requests[l] + creates[l] + dials[l] + found[l]) - 1
      BY <2>1 DEF Numbers
    <3> QED
      BY <2>1, <3>1, PoolAssumption DEF Numbers
  <2>4. pool[l] + 1 <= PoolSize + guests[l] + early'[l]
    <3>1. CASE Requested(l) # {}
      <4>1. early'[l] = early[l] + 1
        BY <1>0, <3>1 DEF Functional, GiveToPool
      <4> QED
        BY <2>1, <4>1, PoolAssumption DEF Numbers
    <3>2. CASE Requested(l) = {}
      <4>1. Waiting(l) = {}
        BY <3>2 DEF IInv, Listed, Waiting, Requested, GiveToPool
      <4>2. Cardinality(Waiting(l)) = 0
        BY <4>1, FS_EmptySet
      <4>3. early'[l] = early[l]
        BY <1>0, <3>2 DEF Functional, GiveToPool
      <4>4. pool[l] + found[l] <= PoolSize + guests[l]
        BY <2>1, <4>2, PoolAssumption DEF Numbers
      <4> QED
        BY <2>1, <2>2, <4>3, <4>4, PoolAssumption DEF Numbers
    <3> QED
      BY <3>1, <3>2
  <2> QED
    BY <2>1, <2>2, <2>3, <2>4
<1> QED
  BY <1>1, <1>2, <1>3, <1>4, <1>5, Ledger

\* The commands the client has not read are lost.
LEMMA ClientDropKeeps ==
  ASSUME IInv, ClientDrop
  PROVE  IInv'
<1>a. PICK l \in Links : l = cur
  BY DEF IInv, TypeOK, ClientDrop
<1>0. /\ poolUp[l] => Conserved(l) /\ Surplus(l)
      /\ guests[l] <= GuestCap
      /\ Numbers(l) /\ Functional /\ TypeOK
      /\ Cardinality(Waiting(l)) \in Nat
  BY <1>a, Account
<1>b. /\ creates' = [creates EXCEPT ![l] = 0]
      /\ lost' = [lost EXCEPT ![l] = @ + creates[l]]
      /\ cur' = None
      /\ UNCHANGED <<task, handle, index, known, requests, dials, found, poolVars,
                     loopVars, envVars, early>>
  BY <1>a DEF ClientDrop
<1>1. TypeOK'
  <2>1. creates' \in [Links -> Nat]
    BY <1>a, <1>b, <1>0 DEF Functional, Numbers
  <2>2. lost' \in [Links -> Nat]
    BY <1>a, <1>b, <1>0 DEF Functional, Numbers
  <2> QED
    BY <1>b, <1>0, <2>1, <2>2 DEF TypeOK, poolVars, loopVars, envVars
<1>2. UNCHANGED loopVars /\ \A k \in Links \ {l} : Same(k)
  BY <1>a, <1>b, <1>0 DEF Functional, Same, poolVars
<1>3. task'[l] # "off" /\ (known[l] => known'[l]) /\ cur' \in {cur, l, None}
  BY <1>a, <1>b DEF IInv, Present
<1>4. visits <= visits' /\ guests'[l] <= GuestCap
  BY <1>b, <1>0 DEF Numbers, poolVars, envVars
<1>5. poolUp'[l] =>
        /\ OnTheWay(l)' + pool'[l] + lost'[l]
             = PoolSize + Cardinality(Waiting(l)) + guests'[l]
        /\ pool'[l] <= PoolSize + guests'[l] + early'[l]
  <2>1. /\ poolUp'[l] =>
             /\ requests[l] + creates[l] + dials[l] + found[l] + pool[l] + lost[l]
                  = PoolSize + Cardinality(Waiting(l)) + guests[l]
             /\ pool[l] <= PoolSize + guests[l] + early[l]
        /\ OnTheWay(l)' = requests'[l] + creates'[l] + dials'[l] + found'[l]
        /\ Cardinality(Waiting(l)) \in Nat /\ Numbers(l)
    BY <1>0, <1>b DEF OnTheWay, Conserved, Surplus, poolVars
  <2>2. /\ requests'[l] = requests[l] /\ creates'[l] = 0 /\ dials'[l] = dials[l]
        /\ found'[l] = found[l] /\ pool'[l] = pool[l] /\ guests'[l] = guests[l]
        /\ lost'[l] = lost[l] + creates[l] /\ early'[l] = early[l]
    BY <1>a, <1>b, <1>0 DEF Functional, poolVars
  <2>3. poolUp'[l] =>
          (requests[l] + 0 + dials[l] + found[l]) + pool[l] + (lost[l] + creates[l])
            = PoolSize + Cardinality(Waiting(l)) + guests[l]
    BY <2>1, PoolAssumption DEF Numbers
  <2> QED
    BY <2>1, <2>2, <2>3
<1> QED
  BY <1>a, <1>b, <1>1, <1>2, <1>3, <1>4, <1>5, Ledger

-----------------------------------------------------------------------------
\* A step that leaves the channels and their takers alone keeps every account.
LEMMA AccountsKept ==
  ASSUME IInv, UNCHANGED <<linkVars, flowVars, poolVars, historyVars>>,
         visits <= visits', visits' \in Nat,
         \A k \in Links : Waiting(k)' = Waiting(k)
  PROVE  Fresh' /\ Present' /\ Balanced' /\ Guests'
<1>1. Fresh' /\ Present'
  BY DEF IInv, Fresh, Present, linkVars, flowVars, poolVars, historyVars
<1>2. Balanced'
  BY DEF IInv, Balanced, Conserved, Surplus, OnTheWay, flowVars, poolVars,
         historyVars
<1>3. Guests'
  <2>1. Guests /\ guests' = guests /\ visits \in Nat
        /\ \A k \in Links : guests[k] \in Nat
    BY Typed DEF IInv, Numbers, TypeOK, poolVars
  <2> QED
    BY <2>1 DEF Guests
<1> QED
  BY <1>1, <1>2, <1>3

\* A loop that is neither about to queue a callback nor waiting goes elsewhere.
LEMMA QuietLoop ==
  ASSUME IInv, TypeOK', NEW d \in Loops,
         NEW x \in {"accept", "serving", "relaying", "ended"},
         at[d] \in {"accept", "given", "serving", "relaying"},
         at' = [at EXCEPT ![d] = x],
         UNCHANGED <<callbacks, of, port>>,
         UNCHANGED <<linkVars, flowVars, poolVars, historyVars>>, visits' = visits
  PROVE  IInv'
<1>1. TypeOK /\ Started /\ Queued /\ Once /\ Listed /\ Registered
  BY DEF IInv
<1>a. at \in [Loops -> Places] /\ callbacks \in [Links -> Seq(Loops)]
  BY <1>1 DEF TypeOK
<1>2. \A e \in Loops : at'[e] = IF e = d THEN x ELSE at[e]
  BY <1>a
<1>3. \A k \in Links : Waiting(k)' = Waiting(k)
  BY <1>2 DEF Waiting
<1>4. Started' /\ Registered'
  BY <1>1, <1>2 DEF Started, Registered, linkVars
<1>5. Queued'
  <2> SUFFICES ASSUME NEW k \in Links, NEW i \in 1..Len(callbacks[k])
               PROVE  of[callbacks[k][i]] = k /\ at'[callbacks[k][i]] = "waiting"
    BY DEF Queued
  <2>1. callbacks[k][i] \in Loops
    BY <1>a
  <2> QED
    BY <1>1, <1>2, <2>1 DEF Queued
<1>6. Once' /\ Listed'
  BY <1>1, <1>2 DEF Once, Listed
<1>7. visits \in Nat
  BY <1>1, BoundsAssumption DEF TypeOK
<1>8. Fresh' /\ Present' /\ Balanced' /\ Guests'
  BY <1>3, <1>7, AccountsKept
<1> QED
  BY <1>3, <1>4, <1>5, <1>6, <1>8 DEF IInv

\* StartForward, StartForwardFails, Relay, ForwardEnds and LoopShutdown.
LEMMA ForwardKeeps ==
  ASSUME IInv, NEW d \in Loops,
         \/ StartForward(d) \/ StartForwardFails(d)
         \/ Relay(d) \/ ForwardEnds(d) \/ LoopShutdown(d)
  PROVE  IInv'
<1>1. PICK x \in {"accept", "serving", "relaying", "ended"} : at' = [at EXCEPT ![d] = x]
  BY DEF StartForward, StartForwardFails, Relay, ForwardEnds, LoopShutdown, Again
<1>2. at[d] \in {"accept", "given", "serving", "relaying"}
  BY DEF StartForward, StartForwardFails, Relay, ForwardEnds, LoopShutdown
<1>3. /\ UNCHANGED <<callbacks, of, port, stopped, backlog, visits>>
      /\ UNCHANGED <<linkVars, flowVars, poolVars, historyVars>>
  BY DEF StartForward, StartForwardFails, Relay, ForwardEnds, LoopShutdown, envVars
<1>4. faults' \in 0..MaxFaults
  <2>1. faults \in 0..MaxFaults
    BY DEF IInv, TypeOK
  <2>2. faults' = faults \/ (faults < MaxFaults /\ faults' = faults + 1)
    BY DEF StartForward, StartForwardFails, Relay, ForwardEnds, LoopShutdown, envVars, Fault
  <2> QED
    BY <2>1, <2>2, BoundsAssumption
<1>5. TypeOK'
  BY <1>1, <1>3, <1>4
  DEF IInv, TypeOK, Places, linkVars, flowVars, poolVars, historyVars
<1> QED
  BY <1>1, <1>2, <1>3, <1>5, QuietLoop

\* Visitors and shutdowns change no loop's place.
LEMMA VisitStopKeeps ==
  ASSUME IInv, NEW p \in Ports, Visit(p) \/ Stop(p)
  PROVE  IInv'
<1>1. /\ UNCHANGED <<callbacks, at, of, port>>
      /\ UNCHANGED <<linkVars, flowVars, poolVars, historyVars, faults>>
  BY DEF Visit, Stop, loopVars, envVars
<1>2. /\ stopped' \in [Loops -> BOOLEAN] /\ backlog' \in [Ports -> Nat]
      /\ visits' \in 0..MaxVisits /\ visits <= visits'
  <2>1. /\ stopped \in [Loops -> BOOLEAN] /\ backlog \in [Ports -> Nat]
        /\ visits \in 0..MaxVisits
    BY DEF IInv, TypeOK
  <2>2. CASE Visit(p)
    <3>1. /\ visits < MaxVisits /\ visits' = visits + 1 /\ stopped' = stopped
          /\ backlog' = [backlog EXCEPT ![p] = @ + 1]
      BY <2>2 DEF Visit, Arrival, loopVars
    <3>2. backlog' \in [Ports -> Nat]
      BY <2>1, <3>1
    <3> QED
      BY <2>1, <3>1, <3>2, BoundsAssumption
  <2>3. CASE Stop(p)
    <3>1. /\ stopped' = [d \in Loops |-> stopped[d] \/ port[d] = p]
          /\ backlog' = backlog /\ visits' = visits
      BY <2>3 DEF Stop, envVars
    <3>2. stopped' \in [Loops -> BOOLEAN]
      BY <3>1
    <3> QED
      BY <2>1, <3>1, <3>2, BoundsAssumption
  <2> QED
    BY <2>2, <2>3
<1>3. TypeOK'
  BY <1>1, <1>2 DEF IInv, TypeOK, linkVars, flowVars, poolVars, historyVars
<1>4. Started' /\ Registered' /\ Queued' /\ Once' /\ Listed'
  BY <1>1 DEF IInv, Started, Registered, Queued, Once, Listed, linkVars
<1>5. \A k \in Links : Waiting(k)' = Waiting(k)
  BY <1>1 DEF Waiting
<1>6. Fresh' /\ Present' /\ Balanced' /\ Guests'
  BY <1>1, <1>2, <1>5, BoundsAssumption, AccountsKept
<1> QED
  BY <1>3, <1>4, <1>6 DEF IInv

\* A new loop waits for nothing yet, and no queue knows it.
LEMMA DeployKeeps ==
  ASSUME IInv, NEW d \in Loops, NEW l \in Links, NEW p \in Ports, Deploy(d, l, p)
  PROVE  IInv'
<1>1. TypeOK /\ Started /\ Queued /\ Once /\ Listed /\ Registered
  BY DEF IInv
<1>a. /\ at \in [Loops -> Places] /\ callbacks \in [Links -> Seq(Loops)]
      /\ of \in [Loops -> Links \cup {None}] /\ port \in [Loops -> Ports \cup {None}]
  BY <1>1 DEF TypeOK
<1>b. PICK x \in {"accept", "ended"} : at' = [at EXCEPT ![d] = x]
  BY DEF Deploy
<1>c. /\ of' = [of EXCEPT ![d] = l] /\ port' = [port EXCEPT ![d] = p]
      /\ UNCHANGED <<callbacks, stopped, backlog, visits, faults>>
      /\ UNCHANGED <<linkVars, flowVars, poolVars, historyVars>>
      /\ at[d] = "off" /\ known[l]
  BY DEF Deploy, envVars
<1>2. TypeOK'
  BY <1>1, <1>b, <1>c
  DEF TypeOK, Places, linkVars, flowVars, poolVars, historyVars
<1>3. \A e \in Loops : /\ at'[e] = IF e = d THEN x ELSE at[e]
                       /\ of'[e] = IF e = d THEN l ELSE of[e]
                       /\ port'[e] = IF e = d THEN p ELSE port[e]
  BY <1>a, <1>b, <1>c
<1>4. \A k \in Links : Waiting(k)' = Waiting(k)
  BY <1>3, <1>c DEF Waiting
<1>5. Started' /\ Registered'
  BY <1>1, <1>3, <1>c DEF Started, Registered, linkVars
<1>6. Queued'
  <2> SUFFICES ASSUME NEW k \in Links, NEW i \in 1..Len(callbacks[k])
               PROVE  of'[callbacks[k][i]] = k /\ at'[callbacks[k][i]] = "waiting"
    BY <1>c DEF Queued
  <2>1. callbacks[k][i] \in Loops
    BY <1>a
  <2> QED
    BY <1>1, <1>3, <1>c, <2>1 DEF Queued
<1>7. Once' /\ Listed'
  BY <1>1, <1>3, <1>c DEF Once, Listed
<1>8. visits \in Nat
  BY <1>1, BoundsAssumption DEF TypeOK
<1>9. Fresh' /\ Present' /\ Balanced' /\ Guests'
  BY <1>4, <1>8, <1>c, AccountsKept
<1> QED
  BY <1>2, <1>5, <1>6, <1>7, <1>9 DEF IInv

\* A loop that queues its callback was counted already.
LEMMA PushKeeps ==
  ASSUME IInv, NEW d \in Loops, Push(d)
  PROVE  IInv'
<1>1. TypeOK /\ Started /\ Queued /\ Once /\ Listed /\ Registered
  BY DEF IInv
<1>a. at \in [Loops -> Places] /\ callbacks \in [Links -> Seq(Loops)]
  BY <1>1 DEF TypeOK
<1>b. PICK l \in Links : l = of[d]
  BY <1>1 DEF Started, Push
<1>c. /\ callbacks' = [callbacks EXCEPT ![l] = Append(@, d)]
      /\ at' = [at EXCEPT ![d] = "waiting"] /\ at[d] = "requested"
      /\ UNCHANGED <<of, port, stopped, backlog, visits, faults>>
      /\ UNCHANGED <<linkVars, flowVars, poolVars, historyVars>>
  BY <1>b DEF Push, envVars
<1>d. callbacks[l] \in Seq(Loops)
  BY <1>a
<1>2. TypeOK'
  <2>1. Append(callbacks[l], d) \in Seq(Loops)
    BY <1>d
  <2>2. callbacks' \in [Links -> Seq(Loops)] /\ at' \in [Loops -> Places]
    BY <2>1, <1>a, <1>c DEF Places
  <2> QED
    BY <1>1, <1>c, <2>2 DEF TypeOK, linkVars, flowVars, poolVars, historyVars
<1>3. \A e \in Loops : at'[e] = IF e = d THEN "waiting" ELSE at[e]
  BY <1>a, <1>c
<1>4. \A k \in Links : callbacks'[k] = IF k = l THEN Append(callbacks[l], d)
                                                ELSE callbacks[k]
  BY <1>a, <1>c
<1>5. /\ Len(callbacks'[l]) = Len(callbacks[l]) + 1 /\ Len(callbacks[l]) \in Nat
      /\ callbacks'[l][Len(callbacks[l]) + 1] = d
      /\ \A i \in 1..Len(callbacks[l]) :
           callbacks'[l][i] = callbacks[l][i] /\ callbacks[l][i] \in Loops
  <2>1. callbacks'[l] = Append(callbacks[l], d)
    BY <1>4
  <2>2. \A i \in 1..Len(callbacks[l]) : callbacks[l][i] \in Loops
    BY <1>d, ElementOfSeq
  <2>3. Len(callbacks[l]) \in Nat
    BY <1>d
  <2> QED
    BY <1>d, <2>1, <2>2, <2>3, AppendProperties
<1>6. \A k \in Links : Waiting(k)' = Waiting(k)
  BY <1>3, <1>c DEF Waiting
<1>7. Started' /\ Registered'
  BY <1>1, <1>3, <1>c DEF Started, Registered, linkVars
<1>8. Queued' /\ Once'
  <2> SUFFICES ASSUME NEW k \in Links
               PROVE  /\ \A i \in 1..Len(callbacks'[k]) :
                           of'[callbacks'[k][i]] = k /\ at'[callbacks'[k][i]] = "waiting"
                      /\ \A i, j \in 1..Len(callbacks'[k]) :
                           callbacks'[k][i] = callbacks'[k][j] => i = j
    BY DEF Queued, Once
  <2>1. CASE k = l
    <3>1. \A i \in 1..Len(callbacks[l]) :
            of[callbacks[l][i]] = l /\ at[callbacks[l][i]] = "waiting"
      BY <1>1 DEF Queued
    <3>2. \A i, j \in 1..Len(callbacks[l]) : callbacks[l][i] = callbacks[l][j] => i = j
      BY <1>1 DEF Once
    <3>3. \A i \in 1..Len(callbacks'[l]) : i \in 1..Len(callbacks[l])
                                           \/ i = Len(callbacks[l]) + 1
      BY <1>5
    <3>4. \A i \in 1..Len(callbacks[l]) : callbacks[l][i] # d
      BY <3>1, <1>c
    <3>5. \A i \in 1..Len(callbacks'[l]) :
            of'[callbacks'[l][i]] = l /\ at'[callbacks'[l][i]] = "waiting"
      BY <3>1, <3>3, <1>3, <1>5, <1>b, <1>c
    <3>6. \A i, j \in 1..Len(callbacks'[l]) :
            callbacks'[l][i] = callbacks'[l][j] => i = j
      BY <3>2, <3>3, <3>4, <1>5
    <3> QED
      BY <2>1, <3>5, <3>6
  <2>2. CASE k # l
    <3>1. callbacks'[k] = callbacks[k] /\ callbacks[k] \in Seq(Loops)
      BY <2>2, <1>4, <1>a
    <3>2. \A i \in 1..Len(callbacks[k]) :
            /\ of[callbacks[k][i]] = k /\ at[callbacks[k][i]] = "waiting"
            /\ callbacks[k][i] \in Loops
      BY <1>1, <3>1 DEF Queued
    <3> QED
      BY <3>1, <3>2, <1>1, <1>3, <1>c DEF Once
  <2> QED
    BY <2>1, <2>2
<1>9. Listed'
  <2> SUFFICES ASSUME NEW e \in Loops, at'[e] = "waiting"
               PROVE  \E i \in 1..Len(callbacks'[of[e]]) : callbacks'[of[e]][i] = e
    BY <1>c DEF Listed
  <2>1. CASE e = d
    BY <2>1, <1>5, <1>b
  <2>2. CASE e # d
    <3>1. at[e] = "waiting"
      BY <2>2, <1>3
    <3>2. PICK i \in 1..Len(callbacks[of[e]]) : callbacks[of[e]][i] = e
      BY <3>1, <1>1 DEF Listed
    <3>3. of[e] \in Links
      BY <3>1, <1>1 DEF Started
    <3>4. CASE of[e] = l
      BY <3>2, <3>4, <1>5
    <3>5. CASE of[e] # l
      BY <3>2, <3>3, <3>5, <1>4
    <3> QED
      BY <3>4, <3>5
  <2> QED
    BY <2>1, <2>2
<1>10. visits \in Nat
  BY <1>1, BoundsAssumption DEF TypeOK
<1>11. Fresh' /\ Present' /\ Balanced' /\ Guests'
  BY <1>6, <1>10, <1>c, AccountsKept
<1> QED
  BY <1>2, <1>7, <1>8, <1>9, <1>11 DEF IInv

\* A step that changes what is on its way and who waits on one channel by as much.
LEMMA TakerStep ==
  ASSUME IInv, NEW l \in Links, task[l] # "off",
         UNCHANGED <<linkVars, poolVars, historyVars, visits>>,
         \A k \in Links \ {l} : Same(k) /\ Waiting(k)' = Waiting(k),
         NEW n \in Nat, NEW w \in Nat, OnTheWay(l)' = n, Cardinality(Waiting(l)') = w,
         n + Cardinality(Waiting(l)) = OnTheWay(l) + w
  PROVE  Fresh' /\ Present' /\ Balanced' /\ Guests'
<1>1. Fresh' /\ Present'
  BY DEF IInv, Fresh, Present, Same, linkVars
<1>2. Guests'
  BY DEF IInv, Guests, poolVars
<1>3. Balanced'
  <2> SUFFICES ASSUME NEW k \in Links, poolUp'[k]
               PROVE  Conserved(k)' /\ Surplus(k)'
    BY DEF Balanced
  <2>1. Conserved(k) /\ Surplus(k)
    BY DEF IInv, Balanced, poolVars
  <2>2. CASE k = l
    <3>1. /\ Cardinality(Waiting(l)) \in Nat /\ Numbers(l)
          /\ OnTheWay(l) = requests[l] + creates[l] + dials[l] + found[l]
      BY Account DEF OnTheWay
    <3>2. OnTheWay(l) \in Nat
      BY <3>1 DEF Numbers
    <3>3. OnTheWay(l) + pool[l] + lost[l]
            = PoolSize + Cardinality(Waiting(l)) + guests[l]
      BY <2>1, <2>2 DEF Conserved
    <3>4. n + pool[l] + lost[l] = PoolSize + w + guests[l]
      <4>1. pool[l] \in Nat /\ lost[l] \in Nat /\ guests[l] \in Nat
        BY <3>1 DEF Numbers
      <4>2. n + Cardinality(Waiting(l)) = OnTheWay(l) + w
        OBVIOUS
      <4>3. PICK o \in Nat, c \in Nat, a \in Nat, b \in Nat, g \in Nat :
              /\ o = OnTheWay(l) /\ c = Cardinality(Waiting(l))
              /\ a = pool[l] /\ b = lost[l] /\ g = guests[l]
        BY <3>1, <3>2, <4>1
      <4>4. n + c = o + w /\ o + a + b = PoolSize + c + g
        BY <3>3, <4>2, <4>3
      <4>5. n + a + b = PoolSize + w + g
        BY <4>4, PoolAssumption
      <4> QED
        BY <4>3, <4>5
    <3> QED
      BY <2>1, <2>2, <3>4 DEF Conserved, Surplus, poolVars, historyVars
  <2>3. CASE k # l
    BY <2>1, <2>3 DEF Conserved, Surplus, OnTheWay, Same
  <2> QED
    BY <2>2, <2>3
<1> QED
  BY <1>1, <1>2, <1>3

\* A loop that asks becomes one more taker and puts one more request on its way.
LEMMA AcceptKeeps ==
  ASSUME IInv, NEW d \in Loops, Accept(d)
  PROVE  IInv'
<1>1. TypeOK /\ Started /\ Queued /\ Once /\ Listed /\ Registered
  BY DEF IInv
<1>a. /\ at \in [Loops -> Places] /\ callbacks \in [Links -> Seq(Loops)]
      /\ backlog \in [Ports -> Nat]
  BY <1>1 DEF TypeOK
<1>b. PICK l \in Links : l = of[d]
  BY <1>1 DEF Started, Accept
<1>c. /\ at[d] = "accept"
      /\ UNCHANGED <<creates, dials, found, callbacks, of, port, stopped, visits, faults>>
      /\ UNCHANGED <<linkVars, poolVars, historyVars>>
  BY DEF Accept
<1>d. backlog' \in [Ports -> Nat]
  <2>1. port[d] \in Ports
    BY <1>1 DEF Started, Accept
  <2>2. CASE d \in UdpLoops
    BY <2>2, <1>a DEF Accept
  <2>3. CASE d \notin UdpLoops
    <3>1. /\ backlog' = [backlog EXCEPT ![port[d]] = @ - 1] /\ backlog[port[d]] > 0
      BY <2>3 DEF Accept
    <3>2. backlog[port[d]] \in Nat
      BY <2>1, <1>a
    <3>3. backlog[port[d]] - 1 \in Nat
      BY <3>1, <3>2
    <3> QED
      BY <3>1, <3>3, <1>a
  <2> QED
    BY <2>2, <2>3
<1>2. CASE ~Requestable(of[d])
  <2>1. at' = [at EXCEPT ![d] = "ended"] /\ requests' = requests
    BY <1>2 DEF Accept
  <2>2. UNCHANGED <<linkVars, flowVars, poolVars, historyVars>>
    BY <2>1, <1>c DEF flowVars
  <2>3. TypeOK'
    BY <1>1, <1>c, <1>d, <2>1, <2>2
    DEF TypeOK, Places, linkVars, flowVars, poolVars, historyVars
  <2> QED
    BY <1>c, <2>1, <2>2, <2>3, QuietLoop
<1>3. CASE Requestable(of[d])
  <2>1. /\ at' = [at EXCEPT ![d] = "requested"]
        /\ requests' = [requests EXCEPT ![l] = @ + 1]
    BY <1>b, <1>3 DEF Accept, Ask
  <2>2. Functional /\ Numbers(l) /\ Cardinality(Waiting(l)) \in Nat
    BY Account
  <2>3. TypeOK'
    <3>1. requests' \in [Links -> Nat]
      BY <2>1, <2>2 DEF Functional, Numbers
    <3>2. at' \in [Loops -> Places]
      BY <2>1, <1>a DEF Places
    <3> QED
      BY <1>1, <1>c, <1>d, <3>1, <3>2
      DEF TypeOK, linkVars, poolVars, historyVars
  <2>4. \A e \in Loops : at'[e] = IF e = d THEN "requested" ELSE at[e]
    BY <1>a, <2>1
  <2>5. Started' /\ Registered'
    BY <1>1, <1>c, <2>4 DEF Started, Registered, linkVars
  <2>6. Queued'
    <3> SUFFICES ASSUME NEW k \in Links, NEW i \in 1..Len(callbacks[k])
                 PROVE  of[callbacks[k][i]] = k /\ at'[callbacks[k][i]] = "waiting"
      BY <1>c DEF Queued
    <3>1. callbacks[k][i] \in Loops
      BY <1>a
    <3> QED
      BY <1>1, <1>c, <2>4, <3>1 DEF Queued
  <2>7. Once' /\ Listed'
    BY <1>1, <1>c, <2>4 DEF Once, Listed
  <2>8. Waiting(l)' = Waiting(l) \cup {d} /\ d \notin Waiting(l)
    BY <1>b, <1>c, <2>4 DEF Waiting
  <2>9. \A k \in Links \ {l} : Waiting(k)' = Waiting(k)
    BY <1>b, <1>c, <2>4 DEF Waiting
  <2>10. \A k \in Links \ {l} : Same(k)
    BY <1>c, <2>1, <2>2 DEF Functional, Same, linkVars, poolVars, historyVars
  <2>11. Cardinality(Waiting(l)') = Cardinality(Waiting(l)) + 1
    BY <2>8, WaitingFinite, FS_AddElement
  <2>12. /\ OnTheWay(l)' = requests[l] + 1 + creates[l] + dials[l] + found[l]
         /\ OnTheWay(l) = requests[l] + creates[l] + dials[l] + found[l]
    BY <1>c, <2>1, <2>2 DEF Functional, OnTheWay
  <2>13. /\ requests[l] + 1 + creates[l] + dials[l] + found[l] \in Nat
         /\ requests[l] + 1 + creates[l] + dials[l] + found[l]
              = (requests[l] + creates[l] + dials[l] + found[l]) + 1
         /\ requests[l] + creates[l] + dials[l] + found[l] \in Nat
    BY <2>2 DEF Numbers
  <2>14. /\ OnTheWay(l)' = OnTheWay(l) + 1 /\ OnTheWay(l) \in Nat
    BY <2>12, <2>13
  <2>15. task[l] # "off"
    BY <1>b, <1>3 DEF Requestable
  <2>16. Fresh' /\ Present' /\ Balanced' /\ Guests'
    <3>1. PICK n \in Nat, w \in Nat :
            /\ n = OnTheWay(l) + 1 /\ w = Cardinality(Waiting(l)) + 1
      BY <2>2, <2>14
    <3>2. n + Cardinality(Waiting(l)) = OnTheWay(l) + w
      BY <3>1, <2>2, <2>14
    <3> QED
      BY <3>1, <3>2, <1>c, <2>9, <2>10, <2>11, <2>14, <2>15, TakerStep
  <2> QED
    BY <2>3, <2>5, <2>6, <2>7, <2>16 DEF IInv
<1> QED
  BY <1>2, <1>3

LEMMA OneLess ==
  \A a, b, c, f \in Nat : f > 0 =>
    /\ a + b + c + (f - 1) \in Nat
    /\ a + b + c + (f - 1) = (a + b + c + f) - 1
    /\ a + b + c + f \in Nat
OBVIOUS

\* The oldest callback is called: one taker less, and one channel less on its way.
LEMMA GiveToLoopKeeps ==
  ASSUME IInv, NEW l \in Links, GiveToLoop(l)
  PROVE  IInv'
<1>1. TypeOK /\ Started /\ Queued /\ Once /\ Listed /\ Registered
  BY DEF IInv
<1>a. at \in [Loops -> Places] /\ callbacks \in [Links -> Seq(Loops)]
  BY <1>1 DEF TypeOK
<1>b. PICK s \in Seq(Loops) : s = callbacks[l]
  BY <1>a
<1>c. s # <<>>
  BY <1>b DEF GiveToLoop
<1>d. PICK h \in Loops, t \in Seq(Loops) :
        /\ h = Head(s) /\ t = Tail(s) /\ h = s[1]
        /\ Len(t) = Len(s) - 1 /\ \A i \in 1..Len(t) : t[i] = s[i + 1]
  <2>1. /\ Head(s) \in Loops /\ Tail(s) \in Seq(Loops) /\ Len(Tail(s)) = Len(s) - 1
        /\ \A i \in 1..Len(Tail(s)) : Tail(s)[i] = s[i + 1]
    BY <1>c, HeadTailProperties
  <2>2. Head(s) = s[1]
    BY <1>c
  <2> QED
    BY <2>1, <2>2
<1>e. Len(s) \in Nat /\ Len(t) \in Nat /\ Len(s) = Len(t) + 1
  BY <1>d
<1>f. \A i \in 1..Len(s) : s[i] \in Loops /\ of[s[i]] = l /\ at[s[i]] = "waiting"
  BY <1>1, <1>b, ElementOfSeq DEF Queued
<1>g. \A i, j \in 1..Len(s) : s[i] = s[j] => i = j
  BY <1>1, <1>b DEF Once
<1>h. of[h] = l /\ at[h] = "waiting"
  BY <1>d, <1>e, <1>f
<1>i. \A i \in 1..Len(t) : /\ i + 1 \in 1..Len(s) /\ i + 1 # 1
                           /\ t[i] = s[i + 1] /\ t[i] # h
  <2> SUFFICES ASSUME NEW i \in 1..Len(t)
               PROVE  /\ i + 1 \in 1..Len(s) /\ i + 1 # 1
                      /\ t[i] = s[i + 1] /\ t[i] # h
    OBVIOUS
  <2>1. i + 1 \in 1..Len(s) /\ i + 1 # 1 /\ 1 \in 1..Len(s)
    BY <1>e
  <2>2. t[i] = s[i + 1]
    BY <1>d
  <2> QED
    BY <1>d, <1>g, <2>1, <2>2
<1>j. /\ callbacks' = [callbacks EXCEPT ![l] = t]
      /\ at' = [at EXCEPT ![h] = "given"]
      /\ found[l] > 0 /\ found' = [found EXCEPT ![l] = @ - 1]
      /\ UNCHANGED <<requests, creates, dials, of, port, stopped, backlog, visits, faults>>
      /\ UNCHANGED <<linkVars, poolVars, historyVars>>
  BY <1>b, <1>d DEF GiveToLoop, envVars
<1>k. Functional /\ Numbers(l) /\ Cardinality(Waiting(l)) \in Nat
  BY Account
<1>2. TypeOK'
  <2>1. found' \in [Links -> Nat]
    BY <1>j, <1>k DEF Functional, Numbers
  <2>2. at' \in [Loops -> Places] /\ callbacks' \in [Links -> Seq(Loops)]
    BY <1>a, <1>j DEF Places
  <2> QED
    BY <1>1, <1>j, <2>1, <2>2 DEF TypeOK, linkVars, poolVars, historyVars
<1>3. \A e \in Loops : at'[e] = IF e = h THEN "given" ELSE at[e]
  BY <1>a, <1>j
<1>4. \A k \in Links : callbacks'[k] = IF k = l THEN t ELSE callbacks[k]
  BY <1>a, <1>j
<1>5. Started' /\ Registered'
  BY <1>1, <1>3, <1>h, <1>j DEF Started, Registered, linkVars
<1>6. Queued' /\ Once'
  <2> SUFFICES ASSUME NEW k \in Links
               PROVE  /\ \A i \in 1..Len(callbacks'[k]) :
                           of'[callbacks'[k][i]] = k /\ at'[callbacks'[k][i]] = "waiting"
                      /\ \A i, j \in 1..Len(callbacks'[k]) :
                           callbacks'[k][i] = callbacks'[k][j] => i = j
    BY DEF Queued, Once
  <2>1. CASE k = l
    <3>1. callbacks'[k] = t
      BY <2>1, <1>4
    <3>2. ASSUME NEW i \in 1..Len(t)
          PROVE  of'[t[i]] = l /\ at'[t[i]] = "waiting"
      <4>1. i + 1 \in 1..Len(s) /\ t[i] = s[i + 1] /\ t[i] # h
        BY <1>i
      <4>2. t[i] \in Loops /\ of[t[i]] = l /\ at[t[i]] = "waiting"
        BY <1>f, <4>1
      <4> QED
        BY <1>3, <1>j, <4>1, <4>2
    <3>3. ASSUME NEW i \in 1..Len(t), NEW j \in 1..Len(t), t[i] = t[j]
          PROVE  i = j
      <4>1. i + 1 = j + 1
        BY <1>g, <1>i, <3>3
      <4> QED
        BY <4>1, <1>e
    <3> QED
      BY <2>1, <3>1, <3>2, <3>3
  <2>2. CASE k # l
    <3>1. callbacks'[k] = callbacks[k] /\ callbacks[k] \in Seq(Loops)
      BY <2>2, <1>4, <1>a
    <3>2. \A i \in 1..Len(callbacks[k]) :
            /\ of[callbacks[k][i]] = k /\ at[callbacks[k][i]] = "waiting"
            /\ callbacks[k][i] \in Loops /\ callbacks[k][i] # h
      BY <1>1, <1>h, <2>2, <3>1, ElementOfSeq DEF Queued
    <3>3. \A i \in 1..Len(callbacks[k]) :
            of'[callbacks[k][i]] = k /\ at'[callbacks[k][i]] = "waiting"
      BY <3>2, <1>3, <1>j
    <3>4. \A i, j \in 1..Len(callbacks[k]) :
            callbacks[k][i] = callbacks[k][j] => i = j
      BY <1>1 DEF Once
    <3> QED
      BY <3>1, <3>3, <3>4
  <2> QED
    BY <2>1, <2>2
<1>7. Listed'
  <2> SUFFICES ASSUME NEW e \in Loops, at'[e] = "waiting"
               PROVE  \E i \in 1..Len(callbacks'[of[e]]) : callbacks'[of[e]][i] = e
    BY <1>j DEF Listed
  <2>1. at[e] = "waiting" /\ e # h
    BY <1>3
  <2>2. PICK i \in 1..Len(callbacks[of[e]]) : callbacks[of[e]][i] = e
    BY <2>1, <1>1 DEF Listed
  <2>3. of[e] \in Links
    BY <2>1, <1>1 DEF Started
  <2>4. CASE of[e] = l
    <3>1. i \in 1..Len(s) /\ s[i] = e
      BY <2>2, <2>4, <1>b
    <3>2. i # 1
      BY <3>1, <2>1, <1>d
    <3>3. i - 1 \in 1..Len(t) /\ (i - 1) + 1 = i
      BY <3>1, <3>2, <1>e
    <3>4. t[i - 1] = e
      BY <3>1, <3>3, <1>i
    <3> QED
      BY <3>3, <3>4, <2>4, <1>4
  <2>5. CASE of[e] # l
    BY <2>2, <2>3, <2>5, <1>4
  <2> QED
    BY <2>4, <2>5
<1>8. Waiting(l)' = Waiting(l) \ {h} /\ h \in Waiting(l)
  BY <1>3, <1>h, <1>j DEF Waiting
<1>9. \A k \in Links \ {l} : Waiting(k)' = Waiting(k)
  BY <1>3, <1>h, <1>j DEF Waiting
<1>10. \A k \in Links \ {l} : Same(k)
  BY <1>j, <1>k DEF Functional, Same, linkVars, poolVars, historyVars
<1>11. /\ Cardinality(Waiting(l)') = Cardinality(Waiting(l)) - 1
       /\ Cardinality(Waiting(l)') \in Nat
  <2>1. IsFiniteSet(Waiting(l))
    BY WaitingFinite
  <2>2. IsFiniteSet(Waiting(l) \ {h})
    BY <2>1, FS_RemoveElement
  <2>3. Cardinality(Waiting(l) \ {h}) = Cardinality(Waiting(l)) - 1
    BY <2>1, <1>8, FS_RemoveElement
  <2> QED
    BY <2>2, <2>3, <1>8, FS_CardinalityType
<1>12. /\ OnTheWay(l)' = requests[l] + creates[l] + dials[l] + (found[l] - 1)
       /\ OnTheWay(l) = requests[l] + creates[l] + dials[l] + found[l]
  BY <1>j, <1>k DEF Functional, OnTheWay
<1>13. /\ requests[l] + creates[l] + dials[l] + (found[l] - 1) \in Nat
       /\ requests[l] + creates[l] + dials[l] + (found[l] - 1)
            = (requests[l] + creates[l] + dials[l] + found[l]) - 1
       /\ requests[l] + creates[l] + dials[l] + found[l] \in Nat
  <2>1. /\ requests[l] \in Nat /\ creates[l] \in Nat /\ dials[l] \in Nat
        /\ found[l] \in Nat /\ found[l] > 0
    BY <1>j, <1>k DEF Numbers
  <2> QED
    BY <2>1, OneLess, Zenon
<1>14. OnTheWay(l)' = OnTheWay(l) - 1 /\ OnTheWay(l) - 1 \in Nat /\ OnTheWay(l) \in Nat
  BY <1>12, <1>13
<1>15. task[l] # "off"
  <2>1. task[l] = "off" => found[l] = 0
    BY Account
  <2> QED
    BY <2>1, <1>j
<1>16. Fresh' /\ Present' /\ Balanced' /\ Guests'
  <2>1. PICK n \in Nat, w \in Nat :
          n = OnTheWay(l) - 1 /\ w = Cardinality(Waiting(l)) - 1
    BY <1>11, <1>14
  <2>2. n + Cardinality(Waiting(l)) = OnTheWay(l) + w
    BY <2>1, <1>k, <1>14
  <2> QED
    BY <2>1, <2>2, <1>j, <1>9, <1>10, <1>11, <1>14, <1>15, TakerStep
<1> QED
  BY <1>2, <1>5, <1>6, <1>7, <1>16 DEF IInv

-----------------------------------------------------------------------------
LEMMA StutterKeeps ==
  ASSUME IInv, UNCHANGED vars
  PROVE  IInv'
<1>1. /\ UNCHANGED <<linkVars, flowVars, poolVars, historyVars>>
      /\ UNCHANGED <<callbacks, at, of, port, stopped, backlog, visits, faults>>
  BY DEF vars, loopVars, envVars
<1>2. TypeOK'
  BY <1>1 DEF IInv, TypeOK, linkVars, flowVars, poolVars, historyVars
<1>3. Started' /\ Registered' /\ Queued' /\ Once' /\ Listed'
  BY <1>1 DEF IInv, Started, Registered, Queued, Once, Listed, linkVars
<1>4. \A k \in Links : Waiting(k)' = Waiting(k)
  BY <1>1 DEF Waiting
<1>5. visits \in Nat
  BY BoundsAssumption DEF IInv, TypeOK
<1>6. Fresh' /\ Present' /\ Balanced' /\ Guests'
  BY <1>1, <1>4, <1>5, AccountsKept
<1> QED
  BY <1>2, <1>3, <1>6 DEF IInv

\* Every step of a control channel, of a loop and of their surroundings keeps the
\* accounts, the queues and the types.
THEOREM Invariance == Spec => []IInv
<1>1. Init => IInv
  BY InitHolds
<1>2. IInv /\ [Next]_vars => IInv'
  <2> SUFFICES ASSUME IInv, [Next]_vars
               PROVE  IInv'
    OBVIOUS
  <2>1. CASE ClientDrop
    BY <2>1, ClientDropKeeps
  <2>2. ASSUME NEW l \in Links, LinkNext(l)
        PROVE  IInv'
    <3>1. CASE Connect(l) \/ InsertHandle(l) \/ ReadReport(l)
      BY <3>1, ConnectKeeps, InsertHandleKeeps, ReadReportKeeps
    <3>2. CASE Break(l) \/ RunOver(l) \/ CleanUp(l)
      BY <3>2, BreakKeeps, RunOverKeeps, CleanUpKeeps
    <3>3. CASE SendCreate(l) \/ ReadCreate(l) \/ DialFails(l)
      BY <3>3, SendCreateKeeps, ReadCreateKeeps, DialFailsKeeps
    <3>4. CASE Lookup(l) \/ GiveToLoop(l) \/ GiveToPool(l)
      BY <3>4, LookupKeeps, GiveToLoopKeeps, GiveToPoolKeeps
    <3>5. CASE Guest(l) \/ ServeGuest(l) \/ PooledDead(l) \/ PoolEnds(l)
      BY <3>5, GuestKeeps, ServeGuestKeeps, PooledDeadKeeps, PoolEndsKeeps
    <3> QED
      BY <2>2, <3>1, <3>2, <3>3, <3>4, <3>5 DEF LinkNext
  <2>3. ASSUME NEW d \in Loops, LoopNext(d)
        PROVE  IInv'
    BY <2>3, AcceptKeeps, PushKeeps, ForwardKeeps DEF LoopNext
  <2>4. ASSUME NEW d \in Loops, NEW l \in Links, NEW p \in Ports, Deploy(d, l, p)
        PROVE  IInv'
    BY <2>4, DeployKeeps
  <2>5. ASSUME NEW p \in Ports, Stop(p) \/ Visit(p)
        PROVE  IInv'
    BY <2>5, VisitStopKeeps
  <2>6. CASE UNCHANGED vars
    BY <2>6, StutterKeeps
  <2> QED
    BY <2>1, <2>2, <2>3, <2>4, <2>5, <2>6 DEF Next
<1> QED
  BY <1>1, <1>2, PTL DEF Spec

\* The counters of data channels stay within their types, the pool within
\* CHAN_SIZE * 2.
THEOREM TypeCorrect == Spec => []TypeOK
<1>1. IInv => TypeOK
  BY DEF IInv
<1> QED
  BY <1>1, Invariance, PTL

\* Every visitor that waits has a data channel on its way, but for the lost and the
\* early ones (server.rs:899-956 and 310-369), whatever the interleaving.
THEOREM ChannelsFunded == Spec => []Funded
<1>1. IInv => Funded
  <2> SUFFICES ASSUME IInv, NEW l \in Links, poolUp[l]
               PROVE  Cardinality(Waiting(l)) <= OnTheWay(l) + lost[l] + early[l]
    BY DEF Funded
  <2>1. Conserved(l) /\ Surplus(l) /\ Numbers(l) /\ Cardinality(Waiting(l)) \in Nat
    BY Account
  <2>2. OnTheWay(l) \in Nat
    BY <2>1 DEF OnTheWay, Numbers
  <2>3. PICK o \in Nat, c \in Nat : o = OnTheWay(l) /\ c = Cardinality(Waiting(l))
    BY <2>1, <2>2
  <2>4. o + pool[l] + lost[l] = PoolSize + c + guests[l]
    BY <2>1, <2>3 DEF Conserved
  <2>5. c <= o + lost[l] + early[l]
    BY <2>1, <2>4, PoolAssumption DEF Surplus, Numbers
  <2> QED
    BY <2>3, <2>5
<1> QED
  BY <1>1, Invariance, PTL

\* A handshake that pools a channel finds room in data_ch_tx (server.rs:363-366): what is on
\* its way and pooled is at most the initial channels and one per taker.
THEOREM PoolNeverFull == Spec => []PoolHasRoom
<1>1. IInv => PoolHasRoom
  <2> SUFFICES ASSUME IInv, NEW l \in Links, poolUp[l], found[l] > 0
               PROVE  pool[l] < PoolCap
    BY DEF PoolHasRoom
  <2>1. Conserved(l) /\ Numbers(l) /\ guests[l] <= GuestCap
    BY Account
  <2>2. /\ Cardinality(Waiting(l)) \in Nat /\ Cardinality(Loops) \in Nat
        /\ Cardinality(Waiting(l)) <= Cardinality(Loops)
    BY WaitingFinite
  <2>4. PICK c \in Nat, m \in Nat :
          c = Cardinality(Waiting(l)) /\ m = Cardinality(Loops)
    BY <2>2
  <2>5. /\ requests[l] + creates[l] + dials[l] + found[l] + pool[l] + lost[l]
             = PoolSize + c + guests[l]
        /\ c <= m /\ PoolSize + m + GuestCap <= PoolCap
    BY <2>1, <2>2, <2>4, CapAssumption DEF Conserved, OnTheWay
  <2>6. found[l] + pool[l] <= PoolSize + c + guests[l]
    BY <2>1, <2>5, PoolAssumption DEF Numbers
  <2> QED
    BY <2>1, <2>5, <2>6, PoolAssumption, GuestAssumption DEF Numbers
<1> QED
  BY <1>1, Invariance, PTL
=============================================================================
