------------------------- MODULE SourceCache_proof -------------------------
(* Theorems about SourceCache, for any threads, paths, addresses and calls. *)
EXTENDS SourceCache, TLAPS

\* The live addresses are addresses.
LEMMA LiveType == TypeOK => LiveLocks \subseteq Locks /\ LiveSources \subseteq Sources
BY DEF TypeOK, LiveLocks, LiveSources

\* Pruning removes entries and invents none.
LEMMA PrunedType ==
    ASSUME NEW S, NEW table \in [Paths -> S \cup {None}], NEW live
    PROVE  Pruned(table, live) \in [Paths -> S \cup {None}]
BY DEF Pruned

\* Every variable keeps its type: the initial state, and each action in turn.
LEMMA TypeInit == Init => TypeOK
BY MaxCallsAssumption DEF Init, TypeOK, Inside, Pinned, InCache

LEMMA TypeStep == TypeOK /\ [Next]_vars => TypeOK'
<1> SUFFICES ASSUME TypeOK, [Next]_vars PROVE TypeOK'
  OBVIOUS
<1> USE DEF TypeOK, Inside, Pinned, InCache, Goto, locals, history
<1>1. ASSUME NEW t \in Threads, Call(t) PROVE TypeOK'
  BY <1>1, OpsAssumption, MaxCallsAssumption DEF Call
<1>2. ASSUME NEW t \in Threads, Drop(t) PROVE TypeOK'
  BY <1>2 DEF Drop
<1>3. ASSUME NEW t \in Threads, EnterLookup(t) PROVE TypeOK'
  BY <1>3, PrunedType DEF EnterLookup
<1>4. ASSUME NEW t \in Threads, FindPathLock(t) PROVE TypeOK'
  BY <1>4, LiveType DEF FindPathLock, PathLockOf, FreshLocks
<1>5. ASSUME NEW t \in Threads, AcquirePath(t) PROVE TypeOK'
  BY <1>5 DEF AcquirePath
<1>6. ASSUME NEW t \in Threads, EnterProbe(t) PROVE TypeOK'
  BY <1>6, PrunedType DEF EnterProbe, EnterCache
<1>7. ASSUME NEW t \in Threads, Probe(t) PROVE TypeOK'
  BY <1>7, LiveType DEF Probe, Found
<1>8. ASSUME NEW t \in Threads, Make(t) PROVE TypeOK'
  BY <1>8 DEF Make, FreshSources
<1>9. ASSUME NEW t \in Threads, MakeFails(t) PROVE TypeOK'
  BY <1>9 DEF MakeFails
<1>10. ASSUME NEW t \in Threads, EnterPublish(t) PROVE TypeOK'
  BY <1>10, PrunedType DEF EnterPublish, EnterCache
<1>11. ASSUME NEW t \in Threads, Publish(t) PROVE TypeOK'
  BY <1>11, LiveType DEF Publish, Found
<1>12. ASSUME NEW t \in Threads, ReleasePath(t) PROVE TypeOK'
  BY <1>12 DEF ReleasePath
<1>13. ASSUME NEW t \in Threads, Return(t) PROVE TypeOK'
  BY <1>13 DEF Return, Handed
<1>14. CASE UNCHANGED vars
  BY <1>14 DEF vars
<1> QED
  BY <1>1, <1>2, <1>3, <1>4, <1>5, <1>6, <1>7, <1>8, <1>9, <1>10, <1>11,
     <1>12, <1>13, <1>14 DEF Next, Step, Terminated

\* The variables of the cache and of every call keep their types.
THEOREM TypeCorrect == Spec => []TypeOK
BY TypeInit, TypeStep, PTL DEF Spec

-----------------------------------------------------------------------------
(***************************************************************************)
(* Mutual exclusion.  PathExclusion is not inductive: that two calls on a  *)
(* path contend for the SAME mutex rests on the weak map still leading to  *)
(* the mutex any of them holds a pointer to.                               *)
(***************************************************************************)
LockInv ==
    \A t \in Threads :
        /\ pc[t] \in Pinned => lk[t] # None /\ pathLocks[path[t]] = lk[t]
        /\ lk[t] # None => pc[t] \in Pinned
        /\ pc[t] \in Inside => holder[lk[t]] = t

LEMMA LockInvInit == Init => LockInv
BY DEF Init, LockInv, Pinned, Inside

LEMMA LockInvExcludes == TypeOK /\ LockInv => PathExclusion
BY DEF TypeOK, LockInv, PathExclusion, Pinned

LEMMA LockInvStep == TypeOK /\ LockInv /\ [Next]_vars => LockInv'
<1> SUFFICES ASSUME TypeOK, LockInv, [Next]_vars PROVE LockInv'
  OBVIOUS
<1> USE DEF TypeOK, LockInv, Inside, Pinned, Goto, locals, history
<1>1. ASSUME NEW t \in Threads, Call(t) PROVE LockInv'
  BY <1>1 DEF Call
<1>2. ASSUME NEW t \in Threads, Drop(t) PROVE LockInv'
  BY <1>2 DEF Drop
<1>3. ASSUME NEW t \in Threads, EnterLookup(t) PROVE LockInv'
  \* A mutex somebody points to is live, so pruning keeps its entry.
  <2>1. \A u \in Threads : lk[u] # None => lk[u] \in LiveLocks
    BY DEF LiveLocks
  <2>2. \A u \in Threads : pc[u] \in Pinned => pathLocks'[path[u]] = pathLocks[path[u]]
    BY <1>3, <2>1 DEF EnterLookup, Pruned
  <2> QED
    BY <1>3, <2>2 DEF EnterLookup
<1>4. ASSUME NEW t \in Threads, FindPathLock(t) PROVE LockInv'
  <2>1. PICK l : /\ l \in PathLockOf(t)
                 /\ lk' = [lk EXCEPT ![t] = l]
                 /\ pathLocks' = [pathLocks EXCEPT ![path[t]] = l]
    BY <1>4 DEF FindPathLock
  <2>2. l \in Locks /\ l # None
    BY <2>1, LiveType, NoneAssumption DEF PathLockOf, FreshLocks
  \* Where a call on the path already holds a pointer, the entry is live.
  <2>3. ASSUME NEW u \in Threads, u # t, pc[u] \in Pinned
        PROVE  pathLocks'[path[u]] = lk[u]
    <3>1. lk[u] \in LiveLocks /\ pathLocks[path[u]] = lk[u]
      BY <2>3 DEF LiveLocks
    <3> QED
      BY <2>1, <3>1 DEF PathLockOf
  <2> QED
    BY <1>4, <2>1, <2>2, <2>3 DEF FindPathLock
<1>5. ASSUME NEW t \in Threads, AcquirePath(t) PROVE LockInv'
  \* The mutex was free, so it is not the one of a call inside.
  <2>1. ASSUME NEW u \in Threads, u # t, pc[u] \in Inside PROVE lk[u] # lk[t]
    BY <1>5, <2>1, NoneAssumption DEF AcquirePath
  <2> QED
    BY <1>5, <2>1 DEF AcquirePath
<1>6. ASSUME NEW t \in Threads, EnterProbe(t) PROVE LockInv'
  BY <1>6 DEF EnterProbe, EnterCache
<1>7. ASSUME NEW t \in Threads, Probe(t) PROVE LockInv'
  BY <1>7 DEF Probe, Found
<1>8. ASSUME NEW t \in Threads, Make(t) PROVE LockInv'
  BY <1>8 DEF Make
<1>9. ASSUME NEW t \in Threads, MakeFails(t) PROVE LockInv'
  BY <1>9 DEF MakeFails
<1>10. ASSUME NEW t \in Threads, EnterPublish(t) PROVE LockInv'
  BY <1>10 DEF EnterPublish, EnterCache
<1>11. ASSUME NEW t \in Threads, Publish(t) PROVE LockInv'
  BY <1>11 DEF Publish, Found
<1>12. ASSUME NEW t \in Threads, ReleasePath(t) PROVE LockInv'
  BY <1>12 DEF ReleasePath
<1>13. ASSUME NEW t \in Threads, Return(t) PROVE LockInv'
  BY <1>13 DEF Return, Handed
<1>14. CASE UNCHANGED vars
  BY <1>14 DEF vars
<1> QED
  BY <1>1, <1>2, <1>3, <1>4, <1>5, <1>6, <1>7, <1>8, <1>9, <1>10, <1>11,
     <1>12, <1>13, <1>14 DEF Next, Step, Terminated

\* Two calls never run the guarded part of one path together, whatever the
\* addresses the mutexes are given (firy.cpp:92-109).
THEOREM Exclusion == Spec => []PathExclusion
<1>1. Init => TypeOK /\ LockInv
  BY TypeInit, LockInvInit
<1>2. TypeOK /\ LockInv /\ [Next]_vars => (TypeOK /\ LockInv)'
  BY TypeStep, LockInvStep
<1>3. TypeOK /\ LockInv => PathExclusion
  BY LockInvExcludes
<1> QED
  BY <1>1, <1>2, <1>3, PTL DEF Spec

-----------------------------------------------------------------------------
(***************************************************************************)
(* What the cache hands out.  The weak map and the last publication agree  *)
(* on every live source, in both directions; a result keeps being the      *)
(* newest until the call leaves the guarded part, by PathExclusion.        *)
(***************************************************************************)
CacheInv ==
    /\ NewestCached
    /\ \A p \in Paths : sourceCache[p] \in LiveSources => newest[p] = sourceCache[p]
    /\ ReturnsNewest

\* The local file pointer is null before cFile is made, and set until published.
FileInv ==
    \A t \in Threads :
        /\ file[t] # None => pc[t] \in {"publish", "published", "unlock", "return"}
        /\ pc[t] \in {"publish", "published"} => file[t] # None

LEMMA FileInvInit == Init => FileInv
BY DEF Init, FileInv

LEMMA FileInvStep == TypeOK /\ FileInv /\ [Next]_vars => FileInv'
<1> SUFFICES ASSUME TypeOK, FileInv, [Next]_vars PROVE FileInv'
  OBVIOUS
<1> USE DEF TypeOK, FileInv, Goto, locals, history
<1>1. ASSUME NEW t \in Threads, Call(t) \/ Drop(t) PROVE FileInv'
  BY <1>1 DEF Call, Drop
<1>2. ASSUME NEW t \in Threads, EnterLookup(t) \/ FindPathLock(t) \/ AcquirePath(t)
      PROVE  FileInv'
  BY <1>2 DEF EnterLookup, FindPathLock, AcquirePath
<1>3. ASSUME NEW t \in Threads, EnterProbe(t) \/ EnterPublish(t) PROVE FileInv'
  BY <1>3 DEF EnterProbe, EnterPublish, EnterCache
<1>4. ASSUME NEW t \in Threads, Probe(t) PROVE FileInv'
  BY <1>4, LiveType, NoneAssumption DEF Probe, Found
<1>5. ASSUME NEW t \in Threads, Make(t) PROVE FileInv'
  BY <1>5, NoneAssumption DEF Make, FreshSources
<1>6. ASSUME NEW t \in Threads, MakeFails(t) PROVE FileInv'
  BY <1>6 DEF MakeFails
<1>7. ASSUME NEW t \in Threads, Publish(t) PROVE FileInv'
  BY <1>7, LiveType, NoneAssumption DEF Publish, Found
<1>8. ASSUME NEW t \in Threads, ReleasePath(t) \/ Return(t) PROVE FileInv'
  BY <1>8 DEF ReleasePath, Return, Handed
<1>9. CASE UNCHANGED vars
  BY <1>9 DEF vars
<1> QED
  BY <1>1, <1>2, <1>3, <1>4, <1>5, <1>6, <1>7, <1>8, <1>9 DEF Next, Step, Terminated

LEMMA CacheInvInit == Init => CacheInv
BY DEF Init, CacheInv, NewestCached, ReturnsNewest, LiveSources

\* An action that makes no source live and publishes none keeps CacheInv.
LEMMA CacheInvQuiet ==
    ASSUME TypeOK, CacheInv, LiveSources' \subseteq LiveSources, UNCHANGED newest,
           \A p \in Paths : sourceCache'[p] # sourceCache[p] =>
                /\ sourceCache'[p] = None
                /\ sourceCache[p] \notin LiveSources,
           \A t \in Threads : pc'[t] = "unlock" =>
                /\ file'[t] = None \/ file'[t] = newest[path[t]]
                /\ path'[t] = path[t]
    PROVE  CacheInv'
<1>1. None \notin LiveSources'
  BY DEF LiveSources
<1> QED
  BY <1>1 DEF TypeOK, CacheInv, NewestCached, ReturnsNewest

LEMMA CacheInvStep ==
    TypeOK /\ PathExclusion /\ FileInv /\ CacheInv /\ [Next]_vars => CacheInv'
<1> SUFFICES ASSUME TypeOK, PathExclusion, FileInv, CacheInv, [Next]_vars
             PROVE  CacheInv'
  OBVIOUS
<1> USE DEF TypeOK, Inside, Pinned, InCache, Goto, locals, history
<1>a. /\ None \notin LiveSources
      /\ \A t \in Threads : file[t] # None => file[t] \in LiveSources
      /\ \A t \in Threads : pc[t] = "unlock" =>
            file[t] = None \/ file[t] = newest[path[t]]
  BY DEF LiveSources, CacheInv, ReturnsNewest
<1>1. ASSUME NEW t \in Threads, Call(t) PROVE CacheInv'
  BY <1>1, <1>a, CacheInvQuiet DEF Call, LiveSources
<1>2. ASSUME NEW t \in Threads, Drop(t) PROVE CacheInv'
  BY <1>2, <1>a, CacheInvQuiet DEF Drop, LiveSources
<1>3. ASSUME NEW t \in Threads, EnterLookup(t) PROVE CacheInv'
  BY <1>3, <1>a, CacheInvQuiet DEF EnterLookup, LiveSources
<1>4. ASSUME NEW t \in Threads, FindPathLock(t) PROVE CacheInv'
  BY <1>4, <1>a, CacheInvQuiet DEF FindPathLock, LiveSources
<1>5. ASSUME NEW t \in Threads, AcquirePath(t) PROVE CacheInv'
  BY <1>5, <1>a, CacheInvQuiet DEF AcquirePath, LiveSources
<1>6. ASSUME NEW t \in Threads, EnterProbe(t) PROVE CacheInv'
  BY <1>6, <1>a, CacheInvQuiet DEF EnterProbe, EnterCache, Pruned, LiveSources
<1>7. ASSUME NEW t \in Threads, Probe(t) PROVE CacheInv'
  <2>1. CASE sourceCache[path[t]] \in LiveSources
    \* The source found is live already, and the newest of the path.
    <3>1. LiveSources' \subseteq LiveSources
      BY <1>7, <2>1 DEF Probe, Found, LiveSources
    <3>2. newest[path[t]] = sourceCache[path[t]]
      BY <2>1 DEF CacheInv
    <3> QED
      BY <1>7, <2>1, <3>1, <3>2, <1>a, CacheInvQuiet DEF Probe, Found
  <2>2. CASE sourceCache[path[t]] \notin LiveSources
    BY <1>7, <2>2, <1>a, CacheInvQuiet DEF Probe, Found, LiveSources
  <2> QED
    BY <2>1, <2>2
<1>8. ASSUME NEW t \in Threads, Make(t) PROVE CacheInv'
  <2>1. PICK s \in FreshSources :
              /\ file' = [file EXCEPT ![t] = s]
              /\ newest' = [p \in Paths |-> IF newest[p] = s THEN None ELSE newest[p]]
    BY <1>8 DEF Make
  <2>2. s \notin LiveSources /\ s # None /\ \A p \in Paths : sourceCache[p] # s
    BY <2>1, NoneAssumption DEF FreshSources
  <2>3. LiveSources' \subseteq LiveSources \cup {s}
    BY <1>8, <2>1 DEF Make, LiveSources
  <2>4. None \notin LiveSources'
    BY DEF LiveSources
  \* The address is new: no entry and no result can be confused with it.
  <2> QED
    BY <1>8, <1>a, <2>1, <2>2, <2>3, <2>4
    DEF Make, CacheInv, NewestCached, ReturnsNewest
<1>9. ASSUME NEW t \in Threads, MakeFails(t) PROVE CacheInv'
  <2>1. file[t] = None
    BY <1>9 DEF MakeFails, FileInv
  <2> QED
    BY <1>9, <2>1, <1>a, CacheInvQuiet DEF MakeFails, LiveSources
<1>10. ASSUME NEW t \in Threads, EnterPublish(t) PROVE CacheInv'
  BY <1>10, <1>a, CacheInvQuiet DEF EnterPublish, EnterCache, Pruned, LiveSources
<1>11. ASSUME NEW t \in Threads, Publish(t) PROVE CacheInv'
  <2> DEFINE s == sourceCache[path[t]]
  <2>1. CASE op[t] = "open" /\ s \in LiveSources
    <3>1. LiveSources' \subseteq LiveSources
      BY <1>11, <2>1 DEF Publish, Found, LiveSources
    <3>2. newest[path[t]] = s
      BY <2>1 DEF CacheInv
    <3> QED
      BY <1>11, <2>1, <3>1, <3>2, <1>a, CacheInvQuiet DEF Publish, Found
  <2>2. CASE ~(op[t] = "open" /\ s \in LiveSources)
    <3>1. LiveSources' = LiveSources /\ None \notin LiveSources
      BY <1>11, <2>2 DEF Publish, Found, LiveSources
    <3>2. file[t] \in Sources
      BY <1>11 DEF Publish, Found, FileInv
    \* Nobody else is about to return a source of this path.
    <3>3. \A u \in Threads : u # t /\ pc[u] = "unlock" => path[u] # path[t]
      BY <1>11 DEF Publish, Found, PathExclusion
    <3> QED
      BY <1>11, <2>2, <3>1, <3>2, <3>3
      DEF Publish, Found, CacheInv, NewestCached, ReturnsNewest
  <2> QED
    BY <2>1, <2>2
<1>12. ASSUME NEW t \in Threads, ReleasePath(t) PROVE CacheInv'
  BY <1>12, <1>a, CacheInvQuiet DEF ReleasePath, LiveSources
<1>13. ASSUME NEW t \in Threads, Return(t) PROVE CacheInv'
  <2>1. LiveSources' \subseteq LiveSources
    BY <1>13 DEF Return, Handed, LiveSources
  <2> QED
    BY <1>13, <2>1, <1>a, CacheInvQuiet DEF Return, Handed
<1>14. CASE UNCHANGED vars
  BY <1>14, <1>a, CacheInvQuiet DEF vars, LiveSources
<1> QED
  BY <1>1, <1>2, <1>3, <1>4, <1>5, <1>6, <1>7, <1>8, <1>9, <1>10, <1>11,
     <1>12, <1>13, <1>14 DEF Next, Step, Terminated

\* A live source that was the last published for its path is the one the cache
\* leads to (firy.cpp:51-60, 125, 171).
THEOREM CacheLeadsToNewest == Spec => []NewestCached
<1> DEFINE Inv == TypeOK /\ LockInv /\ FileInv /\ CacheInv
<1>1. Init => Inv
  BY TypeInit, LockInvInit, FileInvInit, CacheInvInit
<1>2. Inv /\ [Next]_vars => Inv'
  BY TypeStep, LockInvStep, LockInvExcludes, FileInvStep, CacheInvStep
<1>3. Inv => NewestCached
  BY DEF CacheInv
<1> QED
  BY <1>1, <1>2, <1>3, PTL DEF Spec

\* Every call hands out the source last published for its path.
THEOREM CallsReturnNewest == Spec => []ReturnsNewest
<1> DEFINE Inv == TypeOK /\ LockInv /\ FileInv /\ CacheInv
<1>1. Init => Inv
  BY TypeInit, LockInvInit, FileInvInit, CacheInvInit
<1>2. Inv /\ [Next]_vars => Inv'
  BY TypeStep, LockInvStep, LockInvExcludes, FileInvStep, CacheInvStep
<1>3. Inv => ReturnsNewest
  BY DEF CacheInv
<1> QED
  BY <1>1, <1>2, <1>3, PTL DEF Spec

-----------------------------------------------------------------------------
(***************************************************************************)
(* Sharing.  A live source of a path that is only opened is the cached one *)
(* of its path, unless a call has made it and not published it yet; during *)
(* such a call the path has no other live source.                          *)
(***************************************************************************)
InFlight(t) == pc[t] \in {"publish", "published"}

ShareInv ==
    /\ \A t \in Threads : path[t] \notin created => op[t] = "open"
    /\ \A p \in Paths : sourceCache[p] \in LiveSources => pathOf[sourceCache[p]] = p
    /\ \A s \in LiveSources :
          \/ pathOf[s] \in created
          \/ sourceCache[pathOf[s]] = s
          \/ \E t \in Threads : InFlight(t) /\ file[t] = s /\ path[t] = pathOf[s]
    /\ \A t \in Threads, s \in LiveSources :
          (InFlight(t) \/ pc[t] = "make") /\ pathOf[s] = path[t] /\ path[t] \notin created
             => s = file[t]
    /\ \A t \in Threads : InFlight(t) => pathOf[file[t]] = path[t]

LEMMA ShareInvInit == Init => ShareInv
BY DEF Init, ShareInv, LiveSources, InFlight

LEMMA ShareInvShares == TypeOK /\ ShareInv => SourceShared
<1> SUFFICES ASSUME TypeOK, ShareInv, NEW s \in LiveSources, NEW r \in LiveSources,
                    pathOf[s] = pathOf[r], pathOf[s] \notin created
             PROVE  s = r
  BY DEF SourceShared
<1>1. CASE \E t \in Threads : InFlight(t) /\ file[t] = s /\ path[t] = pathOf[s]
  BY <1>1 DEF ShareInv
<1>2. CASE \E t \in Threads : InFlight(t) /\ file[t] = r /\ path[t] = pathOf[r]
  BY <1>2 DEF ShareInv
<1>3. CASE sourceCache[pathOf[s]] = s /\ sourceCache[pathOf[r]] = r
  BY <1>3
<1> QED
  BY <1>1, <1>2, <1>3 DEF ShareInv

\* An action that makes and publishes nothing keeps ShareInv.
LEMMA ShareInvQuiet ==
    ASSUME TypeOK, ShareInv, LiveSources' \subseteq LiveSources, UNCHANGED pathOf,
           created \subseteq created',
           \A t \in Threads : path'[t] \notin created' => op'[t] = "open",
           \A p \in Paths : sourceCache'[p] # sourceCache[p] =>
                /\ sourceCache'[p] = None
                /\ sourceCache[p] \notin LiveSources,
           \A t \in Threads : pc'[t] = "make" => pc[t] = "make" \/ path[t] \in created,
           \A t \in Threads : InFlight(t) <=> InFlight(t)',
           \A t \in Threads : InFlight(t)' \/ pc'[t] = "make" =>
                file'[t] = file[t] /\ path'[t] = path[t]
    PROVE  ShareInv'
<1>1. None \notin LiveSources' /\ LiveSources \subseteq Sources
  BY LiveType DEF LiveSources
<1>2. \A s \in LiveSources' :
          \/ pathOf'[s] \in created'
          \/ sourceCache'[pathOf'[s]] = s
          \/ \E t \in Threads : InFlight(t)' /\ file'[t] = s /\ path'[t] = pathOf'[s]
  BY <1>1 DEF TypeOK, ShareInv
<1>3. \A t \in Threads, s \in LiveSources' :
          (InFlight(t)' \/ pc'[t] = "make") /\ pathOf'[s] = path'[t]
             /\ path'[t] \notin created' => s = file'[t]
  BY DEF ShareInv
<1> QED
  BY <1>1, <1>2, <1>3 DEF TypeOK, ShareInv

LEMMA ShareInvStep ==
    TypeOK /\ PathExclusion /\ FileInv /\ ShareInv /\ [Next]_vars => ShareInv'
<1> SUFFICES ASSUME TypeOK, PathExclusion, FileInv, ShareInv, [Next]_vars
             PROVE  ShareInv'
  OBVIOUS
<1> USE DEF Goto, locals, history
<1>a. \A t \in Threads : path[t] \notin created => op[t] = "open"
  BY DEF ShareInv
<1>b. \A t \in Threads : pc[t] \in Pinned \cup InCache \cup {"idle", "lookup"}
  BY DEF TypeOK
<1>1. ASSUME NEW t \in Threads, Call(t) PROVE ShareInv'
  <2>1. created \subseteq created'
    BY <1>1 DEF Call
  <2>2. \A u \in Threads : path'[u] \notin created' => op'[u] = "open"
    BY <1>1, <1>a, <2>1, OpsAssumption DEF Call, TypeOK
  <2> QED
    BY <1>1, <2>1, <2>2, ShareInvQuiet DEF Call, LiveSources, InFlight, TypeOK
<1>2. ASSUME NEW t \in Threads, Drop(t) PROVE ShareInv'
  BY <1>2, <1>a, ShareInvQuiet DEF Drop, LiveSources, InFlight, TypeOK
<1>3. ASSUME NEW t \in Threads, EnterLookup(t) PROVE ShareInv'
  BY <1>3, <1>a, ShareInvQuiet DEF EnterLookup, LiveSources, InFlight, TypeOK
<1>4. ASSUME NEW t \in Threads, FindPathLock(t) PROVE ShareInv'
  BY <1>4, <1>a, ShareInvQuiet DEF FindPathLock, LiveSources, InFlight, TypeOK
<1>5. ASSUME NEW t \in Threads, AcquirePath(t) PROVE ShareInv'
  BY <1>5, <1>a, ShareInvQuiet DEF AcquirePath, LiveSources, InFlight, TypeOK
<1>6. ASSUME NEW t \in Threads, EnterProbe(t) \/ EnterPublish(t) PROVE ShareInv'
  BY <1>6, <1>a, ShareInvQuiet
  DEF EnterProbe, EnterPublish, EnterCache, Pruned, LiveSources, InFlight, TypeOK
<1>7. ASSUME NEW t \in Threads, Probe(t) PROVE ShareInv'
  <2>1. CASE sourceCache[path[t]] \in LiveSources
    <3>1. LiveSources' \subseteq LiveSources
      BY <1>7, <2>1 DEF Probe, Found, LiveSources, TypeOK
    <3> QED
      BY <1>7, <2>1, <3>1, <1>a, ShareInvQuiet DEF Probe, Found, InFlight, TypeOK
  <2>2. CASE sourceCache[path[t]] \notin LiveSources
    <3>1. LiveSources' = LiveSources /\ LiveSources \subseteq Sources /\ None \notin LiveSources
      BY <1>7, <2>2, LiveType DEF Probe, Found, LiveSources
    <3>2. \A u \in Threads : InFlight(u) => path[u] # path[t]
      BY <1>7 DEF Probe, Found, PathExclusion, InFlight, Inside
    \* So the path has no live source when a new one is about to be made.
    <3>3. path[t] \notin created => \A s \in LiveSources : pathOf[s] # path[t]
      BY <2>2, <3>2 DEF ShareInv
    <3>4. \A u \in Threads : InFlight(u)' <=> InFlight(u)
      BY <1>7, <2>2 DEF Probe, Found, InFlight, TypeOK
    <3> QED
      BY <1>7, <2>2, <3>1, <3>3, <3>4 DEF Probe, Found, ShareInv, TypeOK
  <2> QED
    BY <2>1, <2>2
<1>8. ASSUME NEW t \in Threads, Make(t) PROVE ShareInv'
  <2>1. PICK s \in FreshSources :
              /\ file' = [file EXCEPT ![t] = s]
              /\ pathOf' = [pathOf EXCEPT ![s] = path[t]]
    BY <1>8 DEF Make
  <2>2. /\ s \in Sources /\ s \notin LiveSources /\ s # None
        /\ \A p \in Paths : sourceCache[p] # s
    BY <2>1, NoneAssumption DEF FreshSources
  <2>3. LiveSources' = LiveSources \cup {s} /\ LiveSources \subseteq Sources
    BY <1>8, <2>1, <2>2, LiveType DEF Make, FileInv, LiveSources, TypeOK
  <2>4. \A u \in Threads : InFlight(u)' <=> InFlight(u) \/ u = t
    BY <1>8 DEF Make, InFlight, TypeOK
  <2>5. \A u \in Threads : (InFlight(u) \/ pc[u] = "make") /\ u # t => path[u] # path[t]
    BY <1>8 DEF Make, PathExclusion, InFlight, Inside
  <2>6. \A u \in Threads : InFlight(u) => file[u] \in LiveSources
    BY DEF InFlight, FileInv, LiveSources, TypeOK
  <2>7. pathOf'[s] = path[t] /\ \A r \in LiveSources : pathOf'[r] = pathOf[r]
    BY <2>1, <2>2, <2>3 DEF TypeOK
  <2>8. \A r \in LiveSources' :
          \/ pathOf'[r] \in created'
          \/ sourceCache'[pathOf'[r]] = r
          \/ \E u \in Threads : InFlight(u)' /\ file'[u] = r /\ path'[u] = pathOf'[r]
    <3>1. InFlight(t)' /\ file'[t] = s /\ path'[t] = path[t] /\ pathOf'[s] = path[t]
      BY <1>8, <2>1, <2>2, <2>4 DEF Make, TypeOK
    <3>2. ASSUME NEW r \in LiveSources, sourceCache[pathOf[r]] # r, pathOf[r] \notin created
          PROVE  \E u \in Threads : InFlight(u)' /\ file'[u] = r /\ path'[u] = pathOf'[r]
      <4>1. PICK u \in Threads : InFlight(u) /\ file[u] = r /\ path[u] = pathOf[r]
        BY <3>2 DEF ShareInv
      <4>2. u # t
        BY <1>8, <4>1 DEF Make, InFlight
      <4> QED
        BY <1>8, <2>1, <2>4, <2>7, <4>1, <4>2 DEF Make, TypeOK
    <3> QED
      BY <1>8, <2>3, <2>7, <3>1, <3>2 DEF Make
  <2>9. \A u \in Threads, r \in LiveSources' :
          (InFlight(u)' \/ pc'[u] = "make") /\ pathOf'[r] = path'[u]
             /\ path'[u] \notin created' => r = file'[u]
    <3>1. ASSUME NEW r \in LiveSources, pathOf[r] = path[t], path[t] \notin created
          PROVE  FALSE
      BY <1>8, <2>6, <3>1 DEF Make, ShareInv, FileInv, LiveSources
    <3>2. \A u \in Threads : u # t => path[u] = path'[u] /\ file'[u] = file[u] /\ pc'[u] = pc[u]
      BY <1>8, <2>1 DEF Make, TypeOK
    <3>3. path'[t] = path[t] /\ file'[t] = s
      BY <1>8, <2>1 DEF Make, TypeOK
    <3>4. created' = created
      BY <1>8 DEF Make, history
    <3> SUFFICES ASSUME NEW u \in Threads, NEW r \in LiveSources',
                        InFlight(u)' \/ pc'[u] = "make", pathOf'[r] = path'[u],
                        path'[u] \notin created'
                 PROVE  r = file'[u]
      OBVIOUS
    <3>5. CASE u = t
      BY <2>3, <2>7, <3>1, <3>3, <3>4, <3>5
    <3>6. CASE u # t /\ r = s
      BY <2>4, <2>5, <2>7, <3>2, <3>6
    <3>7. CASE u # t /\ r \in LiveSources
      BY <2>4, <2>7, <3>2, <3>4, <3>7 DEF ShareInv
    <3> QED
      BY <2>3, <3>5, <3>6, <3>7
  <2>10. \A u \in Threads : InFlight(u)' => pathOf'[file'[u]] = path'[u]
    BY <1>8, <2>1, <2>4, <2>6, <2>7 DEF Make, ShareInv, TypeOK
  <2>11. \A p \in Paths : sourceCache'[p] \in LiveSources' => pathOf'[sourceCache'[p]] = p
    BY <1>8, <2>2, <2>3, <2>7 DEF Make, ShareInv
  <2> QED
    BY <1>8, <1>a, <2>8, <2>9, <2>10, <2>11 DEF Make, ShareInv
<1>9. ASSUME NEW t \in Threads, MakeFails(t) PROVE ShareInv'
  BY <1>9, <1>a, ShareInvQuiet DEF MakeFails, LiveSources, InFlight, TypeOK
<1>10. ASSUME NEW t \in Threads, Publish(t) PROVE ShareInv'
  <2> DEFINE s == sourceCache[path[t]]
  <2>1. InFlight(t) /\ \A u \in Threads : InFlight(u)' <=> InFlight(u) /\ u # t
    BY <1>10 DEF Publish, Found, InFlight, TypeOK
  <2>2. file[t] \in LiveSources
    BY <2>1 DEF InFlight, FileInv, LiveSources
  \* A live entry can only be the file of this very call.
  <2>3. s \in LiveSources /\ path[t] \notin created => s = file[t]
    BY <2>1 DEF ShareInv, TypeOK
  <2>4. \A u \in Threads : pc'[u] = "make" => pc[u] = "make" /\ u # t
    BY <1>10 DEF Publish, Found, TypeOK
  <2>5. CASE sourceCache' = [sourceCache EXCEPT ![path[t]] = file[t]] /\ UNCHANGED file
    <3>1. LiveSources' = LiveSources /\ LiveSources \subseteq Sources
      BY <1>10, <2>5, LiveType DEF Publish, LiveSources
    <3> QED
      BY <1>10, <2>1, <2>2, <2>4, <2>5, <3>1 DEF Publish, ShareInv, TypeOK
  \* An open finds what a create has published in the meantime.
  <2>6. CASE /\ path[t] \in created /\ s \in LiveSources
             /\ UNCHANGED sourceCache /\ file' = [file EXCEPT ![t] = s]
    <3>1. LiveSources' \subseteq LiveSources /\ LiveSources \subseteq Sources
      BY <1>10, <2>6, LiveType DEF Publish, LiveSources, TypeOK
    <3> QED
      BY <1>10, <2>1, <2>4, <2>6, <3>1 DEF Publish, ShareInv, TypeOK
  <2> QED
    BY <1>10, <2>3, <2>5, <2>6 DEF Publish, Found, TypeOK
<1>11. ASSUME NEW t \in Threads, ReleasePath(t) PROVE ShareInv'
  BY <1>11, <1>a, ShareInvQuiet DEF ReleasePath, LiveSources, InFlight, TypeOK
<1>12. ASSUME NEW t \in Threads, Return(t) PROVE ShareInv'
  <2>1. LiveSources' \subseteq LiveSources
    BY <1>12 DEF Return, Handed, LiveSources, TypeOK
  <2> QED
    BY <1>12, <2>1, <1>a, ShareInvQuiet DEF Return, Handed, InFlight, TypeOK
<1>13. CASE UNCHANGED vars
  BY <1>13, <1>a, ShareInvQuiet DEF vars, LiveSources, InFlight
<1> QED
  BY <1>1, <1>2, <1>3, <1>4, <1>5, <1>6, <1>7, <1>8, <1>9, <1>10, <1>11,
     <1>12, <1>13 DEF Next, Step, Terminated

\* Opening a path, from any thread and however the calls overlap, never yields
\* two live sources of one path (firy.cpp:135-175).
THEOREM OpenShares == Spec => []SourceShared
<1> DEFINE Inv == TypeOK /\ LockInv /\ FileInv /\ ShareInv
<1>1. Init => Inv
  BY TypeInit, LockInvInit, FileInvInit, ShareInvInit
<1>2. Inv /\ [Next]_vars => Inv'
  BY TypeStep, LockInvStep, LockInvExcludes, FileInvStep, ShareInvStep
<1>3. Inv => SourceShared
  BY ShareInvShares
<1> QED
  BY <1>1, <1>2, <1>3, PTL DEF Spec
=============================================================================
