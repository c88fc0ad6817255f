---------------------------- MODULE SourceCache ----------------------------
(***************************************************************************)
(* The open-file cache of cFiry (src/source/firy.cpp, firy.hpp).           *)
(*                                                                         *)
(* Every thread of the client may call createLocalFile or openLocalFile.   *)
(* Two maps of weak pointers are shared by all of them: mSourceCache (the  *)
(* source of a path) and mSourcePathLocks (the mutex that serialises the   *)
(* calls on a path).  Both are guarded by mSourceCacheMutex, but what they *)
(* point at is not: a strong pointer is dropped by its owner at any time,  *)
(* inside or outside another thread's critical section, and the entry      *)
(* expires then and there.                                                 *)
(*                                                                         *)
(* An address is free again, and may be given to a new object, once        *)
(* neither a strong nor a weak pointer refers to it (make_shared keeps the *)
(* storage of an object as long as a weak pointer does).                   *)
(***************************************************************************)
EXTENDS Naturals, FiniteSets

CONSTANTS
    Threads,    \* client threads
    Paths,      \* normalised paths
    Locks,      \* addresses of path mutexes
    Sources,    \* addresses of cFile objects
    Ops,        \* the calls the clients make: a subset of {"open", "create"}
    MaxCalls,   \* bound: calls made by each thread
    None        \* the null pointer, and the owner of a free mutex

ASSUME NoneAssumption == None \notin Threads \cup Locks \cup Sources
ASSUME OpsAssumption == Ops \subseteq {"open", "create"}
ASSUME MaxCallsAssumption == MaxCalls \in Nat

VARIABLES
    pc,             \* where each thread is in its call
    op, path,       \* the call, and its normalised path
    lk,             \* local pathLock: a strong pointer to a mutex
    file,           \* local file or source: a strong pointer
    calls,          \* calls made so far
    handles,        \* sources the client code of the thread holds
    cacheMutex,     \* owner of mSourceCacheMutex
    holder,         \* owner of each path mutex
    pathLocks,      \* mSourcePathLocks: weak, None when there is no entry
    sourceCache,    \* mSourceCache: weak, None when there is no entry
    pathOf,         \* history: the path a source was made for
    newest,         \* history: the last source published for a path
    created         \* history: the paths createLocalFile was called for

locals == <<op, path, calls, handles>>
history == <<pathOf, newest, created>>
vars == <<pc, op, path, lk, file, calls, handles, cacheMutex, holder,
          pathLocks, sourceCache, pathOf, newest, created>>

-----------------------------------------------------------------------------
(* Reference counts *)

LiveLocks == {lk[t] : t \in Threads} \ {None}
LiveSources ==
    ((UNION {handles[t] : t \in Threads}) \cup {file[t] : t \in Threads}) \ {None}

FreshLocks == Locks \ (LiveLocks \cup {pathLocks[p] : p \in Paths})
FreshSources == Sources \ (LiveSources \cup {sourceCache[p] : p \in Paths})

\* (A pruning with the test of expired() inverted.)
PrunedInverted(table, live) ==
    [p \in Paths |-> IF table[p] \in live THEN None ELSE table[p]]

\* Drop the entries of a weak map whose object is gone.
Pruned(table, live) ==
    [p \in Paths |-> IF table[p] \in live THEN table[p] ELSE None]

Init ==
    /\ pc = [t \in Threads |-> "idle"]
    /\ op \in [Threads -> {"open"}]
    /\ \E p \in Paths : path = [t \in Threads |-> p]
    /\ lk = [t \in Threads |-> None]
    /\ file = [t \in Threads |-> None]
    /\ calls = [t \in Threads |-> 0]
    /\ handles = [t \in Threads |-> {}]
    /\ cacheMutex = None
    /\ holder = [l \in Locks |-> None]
    /\ pathLocks = [p \in Paths |-> None]
    /\ sourceCache = [p \in Paths |-> None]
    /\ \E p \in Paths : pathOf = [s \in Sources |-> p]
    /\ newest = [p \in Paths |-> None]
    /\ created = {}

Goto(t, label) == pc' = [pc EXCEPT ![t] = label]

-----------------------------------------------------------------------------
(* The client *)

\* Call createLocalFile or openLocalFile.
Call(t) ==
    /\ pc[t] = "idle"
    /\ calls[t] < MaxCalls
    /\ \E o \in Ops, p \in Paths :
          /\ op' = [op EXCEPT ![t] = o]
          /\ path' = [path EXCEPT ![t] = p]
          /\ created' = IF o = "create" THEN created \cup {p} ELSE created
    /\ calls' = [calls EXCEPT ![t] = @ + 1]
    /\ Goto(t, "lookup")
    /\ UNCHANGED <<lk, file, handles, cacheMutex, holder, pathLocks, sourceCache,
                   pathOf, newest>>

\* Let go of a source; its weak entry expires if this was the last pointer.
Drop(t) ==
    /\ pc[t] = "idle"
    /\ \E s \in handles[t] : handles' = [handles EXCEPT ![t] = @ \ {s}]
    /\ UNCHANGED <<pc, op, path, lk, file, calls, cacheMutex, holder,
                   pathLocks, sourceCache, history>>

-----------------------------------------------------------------------------
(* sourcePathLock *)

EnterLookup(t) ==
    /\ pc[t] = "lookup"
    /\ cacheMutex = None
    /\ cacheMutex' = t
    /\ pathLocks' = Pruned(pathLocks, LiveLocks)
    /\ Goto(t, "find")
    /\ UNCHANGED <<locals, lk, file, holder, sourceCache, history>>

\* (The mutex of the path is never looked up.)
PathLockAlwaysNew(t) == FreshLocks

\* lock() on the entry of the path, or a new mutex when it has none or it
\* expired since it was pruned.
PathLockOf(t) ==
    IF pathLocks[path[t]] \in LiveLocks THEN {pathLocks[path[t]]} ELSE FreshLocks

\* The entry leads to the mutex, and mSourceCacheMutex is released.
FindPathLock(t) ==
    /\ pc[t] = "find"
    /\ \E l \in PathLockOf(t) :
          /\ lk' = [lk EXCEPT ![t] = l]
          /\ pathLocks' = [pathLocks EXCEPT ![path[t]] = l]
    /\ cacheMutex' = None
    /\ Goto(t, "acquire")
    /\ UNCHANGED <<locals, file, holder, sourceCache, history>>

-----------------------------------------------------------------------------
(* createLocalFile and openLocalFile *)

\* pathScopedLock; a create has no probe.
AcquirePath(t) ==
    /\ pc[t] = "acquire"
    /\ holder[lk[t]] = None
    /\ holder' = [holder EXCEPT ![lk[t]] = t]
    /\ Goto(t, IF op[t] = "open" THEN "probe" ELSE "make")
    /\ UNCHANGED <<locals, lk, file, cacheMutex, pathLocks, sourceCache, history>>

\* Lock mSourceCacheMutex and prune mSourceCache: the probe, and the publication.
EnterCache(t, from, to) ==
    /\ pc[t] = from
    /\ cacheMutex = None
    /\ cacheMutex' = t
    /\ sourceCache' = Pruned(sourceCache, LiveSources)
    /\ Goto(t, to)
    /\ UNCHANGED <<locals, lk, file, holder, pathLocks, history>>

\* (The source of the path is never found.)
NeverFound(t) == FALSE

\* The cache has a live source for the path.
Found(t) == sourceCache[path[t]] \in LiveSources

\* The first find of openLocalFile: a live source is returned as it is.
Probe(t) ==
    /\ pc[t] = "probed"
    /\ cacheMutex' = None
    /\ IF Found(t)
       THEN /\ file' = [file EXCEPT ![t] = sourceCache[path[t]]]
            /\ Goto(t, "unlock")
            /\ UNCHANGED sourceCache
       ELSE /\ sourceCache' = [sourceCache EXCEPT ![path[t]] = None]
            /\ Goto(t, "make")
            /\ UNCHANGED file
    /\ UNCHANGED <<locals, lk, holder, pathLocks, history>>

\* make_shared<cFile>, then create(), which always succeeds, or open(), which
\* fails when the path is no regular file: null is returned then.
Make(t) ==
    /\ pc[t] = "make"
    /\ \E s \in FreshSources :
          /\ file' = [file EXCEPT ![t] = s]
          /\ pathOf' = [pathOf EXCEPT ![s] = path[t]]
          /\ newest' = [p \in Paths |-> IF newest[p] = s THEN None ELSE newest[p]]
    /\ Goto(t, "publish")
    /\ UNCHANGED <<locals, lk, cacheMutex, holder, pathLocks, sourceCache, created>>

MakeFails(t) ==
    /\ pc[t] = "make"
    /\ op[t] = "open"
    /\ Goto(t, "unlock")
    /\ UNCHANGED <<locals, lk, file, cacheMutex, holder, pathLocks, sourceCache, history>>

\* A create stores its file over whatever the cache holds.  An open looks once
\* more, and gives its own file up for a live one.
Publish(t) ==
    /\ pc[t] = "published"
    /\ cacheMutex' = None
    /\ IF op[t] = "open" /\ Found(t)
       THEN /\ file' = [file EXCEPT ![t] = sourceCache[path[t]]]
            /\ UNCHANGED <<sourceCache, newest>>
       ELSE /\ sourceCache' = [sourceCache EXCEPT ![path[t]] = file[t]]
            /\ newest' = [newest EXCEPT ![path[t]] = file[t]]
            /\ UNCHANGED file
    /\ Goto(t, "unlock")
    /\ UNCHANGED <<locals, lk, holder, pathLocks, pathOf, created>>

\* (The mutex of the path is never unlocked.)
ReleaseForgotten(t) ==
    /\ pc[t] = "unlock"
    /\ Goto(t, "return")
    /\ UNCHANGED <<locals, lk, file, cacheMutex, holder, pathLocks, sourceCache, history>>

\* The scope ends: pathScopedLock is destroyed first, ...
ReleasePath(t) ==
    /\ pc[t] = "unlock"
    /\ holder' = [holder EXCEPT ![lk[t]] = None]
    /\ Goto(t, "return")
    /\ UNCHANGED <<locals, lk, file, cacheMutex, pathLocks, sourceCache, history>>

\* (A null result is handed out like a source.)
HandedNull(t) == {file[t]}

\* What the caller gets: nothing when the result is null.
Handed(t) == {file[t]} \ {None}

\* ... then pathLock, and the caller gets the result.
Return(t) ==
    /\ pc[t] = "return"
    /\ lk' = [lk EXCEPT ![t] = None]
    /\ handles' = [handles EXCEPT ![t] = @ \cup Handed(t)]
    /\ file' = [file EXCEPT ![t] = None]
    /\ Goto(t, "idle")
    /\ UNCHANGED <<op, path, calls, cacheMutex, holder, pathLocks, sourceCache, history>>

-----------------------------------------------------------------------------
EnterProbe(t) == EnterCache(t, "probe", "probed")
EnterPublish(t) == EnterCache(t, "publish", "published")

\* The steps of a call, which the library takes by itself.
Step(t) ==
    \/ EnterLookup(t)
    \/ FindPathLock(t)
    \/ AcquirePath(t)
    \/ EnterProbe(t)
    \/ Probe(t)
    \/ Make(t)
    \/ MakeFails(t)
    \/ EnterPublish(t)
    \/ Publish(t)
    \/ ReleasePath(t)
    \/ Return(t)

\* All clients are done; keeps TLC's deadlock check meaningful.
Terminated ==
    /\ \A t \in Threads : pc[t] = "idle" /\ calls[t] = MaxCalls /\ handles[t] = {}
    /\ UNCHANGED vars

Next ==
    \/ \E t \in Threads : Call(t) \/ Drop(t) \/ Step(t)
    \/ Terminated

Spec == Init /\ [][Next]_vars

\* A thread that can take a step of its call eventually does.  The mutexes are
\* not fair, but the calls are finitely many.
FairSpec == Spec /\ \A t \in Threads : WF_vars(Step(t))

-----------------------------------------------------------------------------
(* Properties *)

\* Where a thread owns a path mutex, a strong pointer to one, the cache mutex.
Inside == {"probe", "probed", "make", "publish", "published", "unlock"}
Pinned == Inside \cup {"acquire", "return"}
InCache == {"find", "probed", "published"}

\* Every variable has the shape the declarations of firy.hpp:158-161 and of
\* the locals give it.
TypeOK ==
    /\ pc \in [Threads -> Pinned \cup InCache \cup {"idle", "lookup"}]
    /\ op \in [Threads -> {"open", "create"}]
    /\ path \in [Threads -> Paths]
    /\ lk \in [Threads -> Locks \cup {None}]
    /\ file \in [Threads -> Sources \cup {None}]
    /\ calls \in [Threads -> 0 .. MaxCalls]
    /\ handles \in [Threads -> SUBSET Sources]
    /\ cacheMutex \in Threads \cup {None}
    /\ holder \in [Locks -> Threads \cup {None}]
    /\ pathLocks \in [Paths -> Locks \cup {None}]
    /\ sourceCache \in [Paths -> Sources \cup {None}]
    /\ pathOf \in [Sources -> Paths]
    /\ newest \in [Paths -> Sources \cup {None}]
    /\ created \subseteq Paths

\* Two calls on one path never run their guarded part together, although the
\* mutex of the path is destroyed and made anew between calls (firy.cpp:92-109).
PathExclusion ==
    \A t, u \in Threads :
        pc[t] \in Inside /\ pc[u] \in Inside /\ path[t] = path[u] => t = u

\* A call hands out the source that was last published for its path, never one
\* that a later create has replaced (firy.cpp:125, 147, 168).
ReturnsNewest ==
    \A t \in Threads :
        pc[t] = "unlock" /\ file[t] # None => file[t] = newest[path[t]]

\* As long as somebody uses the newest source of a path the cache leads to it:
\* pruning, erasing and address reuse never lose a live source.
NewestCached ==
    \A p \in Paths : newest[p] \in LiveSources => sourceCache[p] = newest[p]

\* All users of a path that is only opened share one source object: no two live
\* sources have that path, not even while a new one is opened, and whatever is
\* created under other paths (firy.cpp:135-175).
SourceShared ==
    \A s, r \in LiveSources :
        pathOf[s] = pathOf[r] /\ pathOf[s] \notin created => s = r

\* Every call returns: no two calls wait on each other for ever.
CallReturns == \A t \in Threads : pc[t] = "lookup" ~> pc[t] = "idle"
=============================================================================
