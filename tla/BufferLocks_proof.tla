------------------------- MODULE BufferLocks_proof -------------------------
(***************************************************************************)
(* What the locks of cBuffer (buffer.cpp) give, for any number of threads  *)
(* and buffers: calls that hold the locks of all their buffers are atomic, *)
(* and without putBuffer no buffer is left half written.                   *)
(***************************************************************************)
EXTENDS BufferLocks, TLAPS

Calls ==
    [op : Ops \cap {"put", "grow"}, to : Buffers, value : Value]
        \cup [op : Ops \cap {"get", "getString", "compare"}, to : Buffers, from : Buffers,
              seen : Seq(Value \X Value)]
        \cup [op : Ops \cap {"copy", "putBuffer"}, to : Buffers, from : Buffers]
        \cup {Idle}
Writes == {"put", "grow", "copy", "putBuffer"}
Reads == {"compare", "getString"}   \* those with locks

TypeInv ==
    /\ holder \in [Buffers -> Threads \cup {"none"}]
    /\ bytes \in [Buffers -> [1 .. 2 -> Value]]
    /\ call \in [Threads -> Calls]
    /\ locked \in [Threads -> 0 .. 2]
    /\ done \in [Threads -> 0 .. 2]

\* The locks that a call has are the first ones it wants, none of them twice, and
\* nobody else's; only a call with all of them goes through bytes.
LocksOf(t) ==
    /\ ~Running(t) => locked[t] = 0 /\ done[t] = 0
    /\ Running(t) =>
          /\ locked[t] <= Len(Wanted(call[t]))
          /\ \A i \in 1 .. locked[t] : holder[Wanted(call[t])[i]] = t
          /\ \A i, j \in 1 .. locked[t] : i # j => Wanted(call[t])[i] # Wanted(call[t])[j]
    /\ done[t] > 0 => HasLocks(t)

LockInv == \A t \in Threads : LocksOf(t)

\* What a call has been through is still as it made it or saw it.
AtomicOf(t) ==
    LET c == call[t] IN
       /\ \A i \in 1 .. done[t] :
             /\ c.op = "put" => bytes[c.to][i] = c.value
             /\ c.op = "copy" => bytes[c.to][i] = bytes[c.from][i]
             /\ c.op \in Reads => c.seen[i][1] = bytes[c.to][i]
             /\ c.op = "compare" => c.seen[i][2] = bytes[c.from][i]
       /\ c.op \in Reads => Len(c.seen) = done[t]

AtomicInv == \A t \in Threads : AtomicOf(t)

\* A buffer is whole unless a thread is half way through writing it.
WritesHalf(t, b) == call[t].op \in Writes /\ call[t].to = b /\ done[t] = 1
Whole(b) == bytes[b][1] = bytes[b][2]
WholeInv == \A b \in Buffers : Whole(b) \/ \E t \in Threads : WritesHalf(t, b)

Inv == TypeInv /\ LockInv /\ AtomicInv

\* What kind of call there is, and what it has.
LEMMA CallShape ==
    ASSUME TypeInv, NEW t \in Threads
    PROVE  /\ call[t].op \in Writes \cup Reads \cup {"get", "idle"}
           /\ Running(t) <=> call[t].op # "idle"
           /\ Running(t) => call[t].to \in Buffers /\ call[t].op \in Ops
           /\ call[t].op \in {"put", "grow"} => call[t].value \in Value
           /\ call[t].op \in {"get", "getString", "compare", "copy", "putBuffer"} =>
                    call[t].from \in Buffers
           /\ call[t].op \in {"get", "getString", "compare"} =>
                    call[t].seen \in Seq(Value \X Value)
BY DEF TypeInv, Calls, Running, Idle, Writes, Reads

\* The locks a call wants are those of buffers, two at the most.
LEMMA WantedShape ==
    ASSUME TypeInv, NEW t \in Threads, Running(t)
    PROVE  /\ Wanted(call[t]) \in Seq(Buffers)
           /\ Len(Wanted(call[t])) \in 0 .. 2
           /\ call[t].op \in {"put", "putBuffer", "getString"} => Wanted(call[t]) = <<call[t].to>>
           /\ call[t].op = "grow" => Wanted(call[t]) = <<call[t].to, call[t].to>>
           /\ call[t].op = "get" => Wanted(call[t]) = <<>>
           /\ call[t].op \in {"copy", "compare"} => Wanted(call[t]) = <<call[t].to, call[t].from>>
<1>1. call[t].op \in {"put", "grow", "copy", "putBuffer", "compare", "getString", "get"}
    BY CallShape DEF Writes, Reads
<1> QED
    BY <1>1, CallShape DEF Wanted

\* A call with all its locks has its own buffer, and a second one if it needs it.
LEMMA LocksAreHeld ==
    ASSUME TypeInv, LockInv, NEW t \in Threads, HasLocks(t)
    PROVE  /\ call[t].op # "grow"
           /\ call[t].op \in Writes \cup Reads => holder[call[t].to] = t
           /\ call[t].op \in {"copy", "compare"} =>
                    holder[call[t].from] = t /\ call[t].from # call[t].to
<1>1. Running(t) /\ locked[t] = Len(Wanted(call[t]))
    BY DEF HasLocks
<1>2. /\ \A i \in 1 .. locked[t] : holder[Wanted(call[t])[i]] = t
      /\ \A i, j \in 1 .. locked[t] : i # j => Wanted(call[t])[i] # Wanted(call[t])[j]
    BY <1>1 DEF LockInv, LocksOf
<1>3. CASE call[t].op \in {"put", "putBuffer", "getString"}
    <2>1. Wanted(call[t]) = <<call[t].to>>
        BY <1>1, <1>3, WantedShape
    <2>2. locked[t] = 1 /\ Wanted(call[t])[1] = call[t].to
        BY <1>1, <2>1
    <2> QED
        BY <1>2, <1>3, <2>2
<1>4. CASE call[t].op = "get"
    BY <1>4 DEF Writes, Reads
<1>5. CASE call[t].op \in {"grow", "copy", "compare"}
    <2>1. locked[t] = 2
        BY <1>1, <1>5, WantedShape
    <2>2. /\ holder[Wanted(call[t])[1]] = t /\ holder[Wanted(call[t])[2]] = t
          /\ Wanted(call[t])[1] # Wanted(call[t])[2]
        BY <1>2, <2>1
    <2> QED
        BY <1>1, <1>5, <2>2, WantedShape
<1> QED
    BY <1>1, <1>3, <1>4, <1>5, CallShape DEF Writes, Reads

\* Calls, locks and bytes stay what they are.
LEMMA TypeStep == TypeInv /\ LockInv /\ [Next]_vars => TypeInv'
<1> SUFFICES ASSUME TypeInv, LockInv, [Next]_vars PROVE TypeInv'
    OBVIOUS
<1> USE DEF TypeInv
<1>1. ASSUME NEW t \in Threads, Call(t) PROVE TypeInv'
    <2>1. \E c \in Calls : call' = [call EXCEPT ![t] = c]
        <3>1. <<>> \in Seq(Value \X Value)
            OBVIOUS
        <3>2. \A p \in Compared : p[1] \in Buffers /\ p[2] \in Buffers
            BY BuffersAssumption DEF Buffers
        <3> QED
            BY <1>1, <3>1, <3>2, OpsAssumption DEF Call, Calls, Buffers
    <2> QED
        BY <1>1, <2>1 DEF Call
<1>2. ASSUME NEW t \in Threads, Lock(t) PROVE TypeInv'
    <2>1. locked[t] \in 0 .. 1
        BY <1>2, WantedShape DEF Lock, HasLocks, LockInv, LocksOf
    <2>2. Wanted(call[t])[locked[t] + 1] \in Buffers
        BY <1>2, WantedShape DEF Lock, HasLocks, LockInv, LocksOf
    <2> QED
        BY <1>2, <2>1, <2>2 DEF Lock
<1>3. ASSUME NEW t \in Threads, Step(t) PROVE TypeInv'
    <2>1. done[t] + 1 \in 1 .. 2 /\ done' = [done EXCEPT ![t] = @ + 1]
        BY <1>3 DEF Step
    <2>2. CASE Change(call[t], done[t] + 1)
        BY <1>3, <2>1, <2>2, CallShape DEF Step, Change, HasLocks
    <2>3. CASE Look(t, call[t], done[t] + 1)
        <3>1. /\ call[t] \in [op : Ops \cap {"get", "getString", "compare"}, to : Buffers, from : Buffers,
                               seen : Seq(Value \X Value)]
              /\ call[t].to \in Buffers /\ call[t].from \in Buffers
            BY <2>3 DEF Look, Calls, Idle
        <3> DEFINE pair == <<bytes[call[t].to][done[t] + 1], bytes[call[t].from][done[t] + 1]>>
                   next == [call[t] EXCEPT !.seen = Append(@, pair)]
        <3>2. pair \in Value \X Value
            BY <2>1, <3>1
        <3>3. Append(call[t].seen, pair) \in Seq(Value \X Value)
            BY <3>1, <3>2
        <3>4. next \in Calls
            BY <3>1, <3>3 DEF Calls
        <3>5. call' = [call EXCEPT ![t] = next] /\ UNCHANGED <<bytes, holder, locked>>
            BY <1>3, <2>3 DEF Look, Step
        <3>6. call' \in [Threads -> Calls]
            BY <3>4, <3>5
        <3> QED
            BY <2>1, <3>5, <3>6
    <2> QED
        BY <1>3, <2>2, <2>3 DEF Step
<1>4. ASSUME NEW t \in Threads, Return(t) PROVE TypeInv'
    BY <1>4 DEF Return, Calls
<1>5. CASE UNCHANGED vars
    BY <1>5 DEF vars
<1> QED
    BY <1>1, <1>2, <1>3, <1>4, <1>5 DEF Next

LEMMA WantedLength ==
    ASSUME NEW c \in Calls, c # Idle
    PROVE  Len(Wanted(c)) \in 0 .. 2
BY DEF Calls, Idle, Wanted

LEMMA LockStep == TypeInv /\ LockInv /\ [Next]_vars => LockInv'
<1> SUFFICES ASSUME TypeInv, LockInv, [Next]_vars, NEW u \in Threads PROVE LocksOf(u)'
    BY DEF LockInv
<1>0. LocksOf(u) /\ TypeInv'
    BY TypeStep DEF LockInv
<1>1. ASSUME NEW t \in Threads, Call(t) PROVE LocksOf(u)'
    <2>1. /\ call'[t] \in Calls /\ (u # t => call'[u] = call[u])
          /\ UNCHANGED <<holder, locked, done>>
        BY <1>0, <1>1 DEF Call, TypeInv
    <2>2. CASE u = t
        <3>1. locked'[t] = 0 /\ done'[t] = 0
            BY <1>0, <1>1, <2>1, <2>2 DEF Call, LocksOf, Running
        <3>2. call'[t] # Idle
            BY <1>1 DEF Call, Idle, TypeInv
        <3> QED
            BY <2>1, <2>2, <3>1, <3>2, WantedLength DEF LocksOf, Running
    <2>3. CASE u # t
        BY <1>0, <2>1, <2>3 DEF LocksOf, Running, HasLocks
    <2> QED
        BY <2>2, <2>3
<1>2. ASSUME NEW t \in Threads, Lock(t) PROVE LocksOf(u)'
    <2> DEFINE w == Wanted(call[t])
               b == w[locked[t] + 1]
    <2>1. /\ Running(t) /\ holder[b] = "none" /\ holder' = [holder EXCEPT ![b] = t]
          /\ locked' = [locked EXCEPT ![t] = @ + 1] /\ UNCHANGED <<bytes, call, done>>
        BY <1>2 DEF Lock
    <2>2. w \in Seq(Buffers) /\ locked[t] < Len(w) /\ locked[t] \in Nat /\ b \in Buffers
        BY <1>2, <2>1, WantedShape DEF Lock, HasLocks, LockInv, LocksOf, TypeInv
    <2>3. u \in Threads /\ u # "none"
        BY ThreadsAssumption
    <2>4. CASE u = t
        <3>1. /\ \A i \in 1 .. locked[t] : holder[w[i]] = t
              /\ \A i, j \in 1 .. locked[t] : i # j => w[i] # w[j]
            BY <1>0, <2>1, <2>4 DEF LocksOf
        <3>2. locked'[t] = locked[t] + 1
            BY <2>1 DEF TypeInv
        <3>3. \A i \in 1 .. locked[t] + 1 :
                  holder'[w[i]] = t /\ (i # locked[t] + 1 => w[i] # b)
            <4> SUFFICES ASSUME NEW i \in 1 .. locked[t] + 1
                         PROVE  holder'[w[i]] = t /\ (i # locked[t] + 1 => w[i] # b)
                OBVIOUS
            <4>1. CASE i = locked[t] + 1
                BY <2>1, <2>2, <4>1 DEF TypeInv
            <4>2. CASE i # locked[t] + 1
                <5>1. i \in 1 .. locked[t] /\ w[i] \in Buffers
                    BY <2>2, <4>2
                <5> QED
                    BY <2>1, <2>3, <2>4, <3>1, <5>1 DEF TypeInv
            <4> QED
                BY <4>1, <4>2
        <3>4. \A i, j \in 1 .. locked[t] + 1 : i # j => w[i] # w[j]
            BY <2>2, <3>1, <3>3
        <3>5. done[t] = 0
            BY <1>0, <1>2, <2>4 DEF Lock, LocksOf, TypeInv
        <3> QED
            BY <2>1, <2>2, <2>4, <3>2, <3>3, <3>4, <3>5 DEF LocksOf, Running
    <2>5. CASE u # t
        <3>1. locked'[u] = locked[u]
            BY <2>1, <2>5 DEF TypeInv
        <3>2. Running(u) => \A i \in 1 .. locked[u] : holder'[Wanted(call[u])[i]] = u
            <4> SUFFICES ASSUME Running(u), NEW i \in 1 .. locked[u]
                         PROVE  holder'[Wanted(call[u])[i]] = u
                OBVIOUS
            <4>1. Wanted(call[u])[i] \in Buffers /\ holder[Wanted(call[u])[i]] = u
                BY <1>0, WantedShape DEF LocksOf, TypeInv
            <4> QED
                BY <2>1, <2>3, <4>1 DEF TypeInv
        <3> QED
            BY <1>0, <2>1, <3>1, <3>2 DEF LocksOf, Running, HasLocks
    <2> QED
        BY <2>4, <2>5
<1>3. ASSUME NEW t \in Threads, Step(t) PROVE LocksOf(u)'
    <2>1. UNCHANGED <<holder, locked>> /\ done' = [done EXCEPT ![t] = @ + 1] /\ HasLocks(t)
        BY <1>3 DEF Step
    <2>2. Running(u)' = Running(u) /\ Wanted(call'[u]) = Wanted(call[u])
        <3>1. CASE Change(call[t], done[t] + 1)
            BY <3>1 DEF Change, Running
        <3>2. CASE Look(t, call[t], done[t] + 1)
            <4>1. /\ call[t] \in [op : Ops \cap {"get", "getString", "compare"}, to : Buffers, from : Buffers,
                                   seen : Seq(Value \X Value)]
                  /\ call'[t] = [call[t] EXCEPT !.seen = call'[t].seen]
                  /\ u # t => call'[u] = call[u]
                BY <3>2 DEF Look, TypeInv, Calls, Idle
            <4>2. /\ call'[t].op = call[t].op /\ call'[t].to = call[t].to
                  /\ call'[t].from = call[t].from
                  /\ call[t] # Idle /\ call'[t] # Idle
                BY <4>1 DEF Idle
            <4>3. Wanted(call'[t]) = Wanted(call[t])
                BY <4>2 DEF Wanted
            <4> QED
                BY <4>1, <4>2, <4>3 DEF Running
        <3> QED
            BY <1>3, <3>1, <3>2 DEF Step
    <2> QED
        BY <1>0, <2>1, <2>2 DEF LocksOf, HasLocks, TypeInv
<1>4. ASSUME NEW t \in Threads, Return(t) PROVE LocksOf(u)'
    <2>1. CASE u = t
        BY <1>4, <2>1 DEF Return, LocksOf, Running, TypeInv
    <2>2. CASE u # t
        <3>1. call'[u] = call[u] /\ locked'[u] = locked[u] /\ done'[u] = done[u]
            BY <1>4, <2>2 DEF Return, TypeInv
        <3>2. Running(u) => \A i \in 1 .. locked[u] : holder'[Wanted(call[u])[i]] = u
            <4> SUFFICES ASSUME Running(u), NEW i \in 1 .. locked[u]
                         PROVE  holder'[Wanted(call[u])[i]] = u
                OBVIOUS
            <4>1. Wanted(call[u])[i] \in Buffers /\ holder[Wanted(call[u])[i]] = u
                BY <1>0, WantedShape DEF LocksOf, TypeInv
            <4> QED
                BY <1>4, <2>2, <4>1 DEF Return
        <3> QED
            BY <1>0, <3>1, <3>2 DEF LocksOf, Running, HasLocks
    <2> QED
        BY <2>1, <2>2
<1>5. CASE UNCHANGED vars
    BY <1>0, <1>5 DEF vars, LocksOf, Running, HasLocks
<1> QED
    BY <1>1, <1>2, <1>3, <1>4, <1>5 DEF Next

\* What two threads go through is not the same, if one of them writes it.
LEMMA Apart ==
    ASSUME TypeInv, LockInv, NEW t \in Threads, HasLocks(t), call[t].op \in Writes,
           NEW u \in Threads, u # t, done[u] > 0, call[u].op \in Writes \cup Reads
    PROVE  /\ call[u].to # call[t].to
           /\ call[u].op \in {"copy", "compare"} => call[u].from # call[t].to
<1>1. HasLocks(u)
    BY DEF LockInv, LocksOf
<1> QED
    BY <1>1, LocksAreHeld

\* What a step that writes does to the bytes.
LEMMA Changed ==
    ASSUME TypeInv, LockInv, NEW t \in Threads, Step(t), Change(call[t], done[t] + 1),
           NEW k, k = done[t] + 1,
           NEW v, v = IF call[t].op \in {"copy", "putBuffer"}
                      THEN bytes[call[t].from][k] ELSE call[t].value
    PROVE  /\ call[t].op \in Writes /\ HasLocks(t) /\ done[t] \in {0, 1} /\ k \in {1, 2}
           /\ call[t].to \in Buffers
           /\ call[t].op \in {"copy", "putBuffer"} => call[t].from \in Buffers
           /\ call[t].op = "copy" => call[t].from # call[t].to
           /\ \A b \in Buffers : b # call[t].to => bytes'[b] = bytes[b]
           /\ bytes'[call[t].to][k] = v
           /\ k = 2 => bytes'[call[t].to][1] = bytes[call[t].to][1]
           /\ call' = call /\ done'[t] = k
           /\ \A u \in Threads : u # t => done'[u] = done[u]
<1>1. /\ call[t].op \in Writes /\ HasLocks(t) /\ done[t] \in {0, 1} /\ k \in {1, 2}
      /\ bytes' = [bytes EXCEPT ![call[t].to][k] = v] /\ call' = call
      /\ done' = [done EXCEPT ![t] = k]
    BY DEF Step, Change, TypeInv, Writes
<1>2. /\ call[t].to \in Buffers
      /\ call[t].op \in {"copy", "putBuffer"} => call[t].from \in Buffers
      /\ call[t].op = "copy" => call[t].from # call[t].to
    BY <1>1, CallShape, LocksAreHeld DEF HasLocks
<1> QED
    BY <1>1, <1>2 DEF TypeInv

\* A byte that a call writes is as the call means it, and is of no other call's.
LEMMA ChangeIsAtomic ==
    ASSUME TypeInv, LockInv, AtomicInv, NEW t \in Threads, Step(t),
           Change(call[t], done[t] + 1)
    PROVE  AtomicInv'
<1> DEFINE c == call[t]
           k == done[t] + 1
           v == IF c.op \in {"copy", "putBuffer"} THEN bytes[c.from][k] ELSE c.value
<1>1. /\ c.op \in Writes /\ HasLocks(t) /\ done[t] \in {0, 1} /\ k \in {1, 2}
      /\ c.to \in Buffers
      /\ c.op = "copy" => c.from \in Buffers /\ c.from # c.to
      /\ \A b \in Buffers : b # c.to => bytes'[b] = bytes[b]
      /\ bytes'[c.to][k] = v
      /\ k = 2 => bytes'[c.to][1] = bytes[c.to][1]
      /\ call' = call /\ done'[t] = k
      /\ \A u \in Threads : u # t => done'[u] = done[u]
    BY Changed
<1> SUFFICES ASSUME NEW u \in Threads PROVE AtomicOf(u)'
    BY DEF AtomicInv
<1>2. AtomicOf(u) /\ AtomicOf(t)
    BY DEF AtomicInv
<1>3. CASE u = t
    <2>1. c.op \notin Reads
        BY <1>1 DEF Writes, Reads
    <2> SUFFICES ASSUME NEW i \in 1 .. k
                 PROVE  /\ c.op = "put" => bytes'[c.to][i] = c.value
                        /\ c.op = "copy" => bytes'[c.to][i] = bytes'[c.from][i]
        BY <1>1, <1>3, <2>1 DEF AtomicOf, Reads
    <2>2. CASE i = k
        BY <1>1, <2>2
    <2>3. CASE i # k
        <3>1. i = 1 /\ k = 2 /\ i \in 1 .. done[t]
            BY <1>1, <2>3
        <3> QED
            BY <1>1, <1>2, <3>1 DEF AtomicOf
    <2> QED
        BY <2>2, <2>3
<1>4. CASE u # t
    <2>1. done'[u] = done[u] /\ call'[u] = call[u] /\ done[u] \in 0 .. 2
        BY <1>1, <1>4 DEF TypeInv
    <2>2. CASE done[u] > 0 /\ call[u].op \in Writes \cup Reads
        <3>1. /\ bytes'[call[u].to] = bytes[call[u].to]
              /\ call[u].op \in {"copy", "compare"} => bytes'[call[u].from] = bytes[call[u].from]
            BY <1>1, <1>4, <2>2, Apart, CallShape DEF Writes, Reads
        <3> QED
            BY <1>2, <2>1, <3>1 DEF AtomicOf
    <2>3. CASE done[u] = 0
        BY <1>2, <2>1, <2>3 DEF AtomicOf
    <2>4. CASE call[u].op \notin Writes \cup Reads
        BY <2>1, <2>4 DEF AtomicOf, Writes, Reads
    <2> QED
        BY <2>1, <2>2, <2>3, <2>4
<1> QED
    BY <1>3, <1>4

\* A byte that a call reads is seen as it is.
LEMMA LookIsAtomic ==
    ASSUME TypeInv, LockInv, AtomicInv, NEW t \in Threads, Step(t),
           Look(t, call[t], done[t] + 1)
    PROVE  AtomicInv'
<1> DEFINE c == call[t]
           k == done[t] + 1
           pair == <<bytes[c.to][k], bytes[c.from][k]>>
<1>1. /\ c.op \in {"get", "getString", "compare"} /\ done[t] \in {0, 1} /\ bytes' = bytes
      /\ done' = [done EXCEPT ![t] = k]
      /\ call' = [call EXCEPT ![t].seen = Append(@, pair)]
    BY DEF Step, Look, TypeInv
<1>2. /\ c \in [op : Ops \cap {"get", "getString", "compare"}, to : Buffers, from : Buffers,
                seen : Seq(Value \X Value)]
      /\ done'[t] = k
      /\ \A u \in Threads : u # t => done'[u] = done[u] /\ call'[u] = call[u]
    BY <1>1 DEF TypeInv, Calls, Idle
<1>3. /\ call'[t].op = c.op /\ call'[t].to = c.to /\ call'[t].from = c.from
      /\ call'[t].seen = Append(c.seen, pair)
    BY <1>1, <1>2 DEF TypeInv
<1> SUFFICES ASSUME NEW u \in Threads PROVE AtomicOf(u)'
    BY DEF AtomicInv
<1>4. AtomicOf(u)
    BY DEF AtomicInv
<1>5. CASE u # t
    BY <1>1, <1>2, <1>4, <1>5 DEF AtomicOf
<1>6. CASE u = t /\ c.op \in Reads
    <2>1. c.seen \in Seq(Value \X Value) /\ Len(c.seen) = done[t]
        BY <1>2, <1>4, <1>6 DEF AtomicOf
    <2>2. /\ Len(call'[t].seen) = k /\ call'[t].seen[k] = pair
          /\ \A i \in 1 .. done[t] : call'[t].seen[i] = c.seen[i]
        <3> HIDE DEF pair, c
        <3> QED
            BY <1>1, <1>3, <2>1
    <2>3. \A i \in 1 .. k : i = k \/ i \in 1 .. done[t]
        BY <1>1
    <2>4. \A i \in 1 .. k : /\ call'[t].seen[i][1] = bytes'[c.to][i]
                            /\ c.op = "compare" => call'[t].seen[i][2] = bytes'[c.from][i]
        BY <1>1, <1>4, <1>6, <2>2, <2>3 DEF AtomicOf
    <2>5. /\ done'[t] = k /\ call'[t].to = c.to /\ call'[t].from = c.from
          /\ call'[t].op = c.op /\ c.op # "put" /\ c.op # "copy"
        BY <1>2, <1>3, <1>6 DEF Reads
    <2> HIDE DEF c, k, pair
    <2> QED
        BY <1>6, <2>2, <2>4, <2>5 DEF AtomicOf
<1>7. CASE u = t /\ c.op = "get"
    BY <1>3, <1>7 DEF AtomicOf, Reads
<1> QED
    BY <1>1, <1>5, <1>6, <1>7 DEF Reads

\* No step changes what a call with its locks has made or seen.
LEMMA AtomicStep == Inv /\ [Next]_vars => AtomicInv'
<1> SUFFICES ASSUME TypeInv, LockInv, AtomicInv, [Next]_vars PROVE AtomicInv'
    BY DEF Inv
<1>1. ASSUME NEW t \in Threads, Call(t) PROVE AtomicInv'
    <2>1. /\ done[t] = 0 /\ UNCHANGED <<bytes, done>>
          /\ \A u \in Threads : u # t => call'[u] = call[u]
          /\ call'[t].op \in Reads => call'[t].seen = <<>>
        BY <1>1 DEF Call, TypeInv, LockInv, LocksOf, Running, Reads
    <2> SUFFICES ASSUME NEW u \in Threads PROVE AtomicOf(u)'
        BY DEF AtomicInv
    <2>2. CASE u = t
        BY <2>1, <2>2 DEF AtomicOf
    <2>3. CASE u # t
        BY <2>1, <2>3 DEF AtomicInv, AtomicOf
    <2> QED
        BY <2>2, <2>3
<1>2. ASSUME NEW t \in Threads, Lock(t) PROVE AtomicInv'
    BY <1>2 DEF Lock, AtomicInv, AtomicOf
<1>3. ASSUME NEW t \in Threads, Step(t) PROVE AtomicInv'
    BY <1>3, ChangeIsAtomic, LookIsAtomic DEF Step
<1>4. ASSUME NEW t \in Threads, Return(t) PROVE AtomicInv'
    <2>1. /\ call'[t] = Idle /\ done'[t] = 0 /\ bytes' = bytes
          /\ \A u \in Threads : u # t => call'[u] = call[u] /\ done'[u] = done[u]
        BY <1>4 DEF Return, TypeInv
    <2> SUFFICES ASSUME NEW u \in Threads PROVE AtomicOf(u)'
        BY DEF AtomicInv
    <2>2. CASE u = t
        BY <2>1, <2>2 DEF AtomicOf, Idle, Reads
    <2>3. CASE u # t
        BY <2>1, <2>3 DEF AtomicInv, AtomicOf
    <2> QED
        BY <2>2, <2>3
<1>5. CASE UNCHANGED vars
    BY <1>5 DEF vars, AtomicInv, AtomicOf
<1> QED
    BY <1>1, <1>2, <1>3, <1>4, <1>5 DEF Next

\* The three parts hold together: calls are of their kinds, locks are of those who
\* took them, and bytes are what the calls have made of them.
THEOREM LockedBytes == Spec => []Inv
<1>1. Init => Inv
    <2> SUFFICES ASSUME Init PROVE Inv
        OBVIOUS
    <2>1. TypeInv
        BY DEF Init, TypeInv, Calls
    <2>2. ASSUME NEW t \in Threads PROVE LocksOf(t) /\ AtomicOf(t)
        <3>1. call[t] = Idle /\ locked[t] = 0 /\ done[t] = 0
            BY DEF Init
        <3> QED
            BY <3>1 DEF LocksOf, AtomicOf, Running, Idle, Reads
    <2> QED
        BY <2>1, <2>2 DEF Inv, LockInv, AtomicInv
<1>2. Inv /\ [Next]_vars => Inv'
    BY TypeStep, LockStep, AtomicStep DEF Inv
<1> QED
    BY <1>1, <1>2, PTL DEF Spec

\* Whatever else threads do with the buffers, putBuffer among it, what a put* or
\* push* writes, what write and pushBuffer copy, and what operator== and getString
\* see under the guards of buffer.cpp is one state of the buffers, until they return.
THEOREM GuardedCallsAreAtomic == Spec => []CallsAreAtomic
<1>1. Inv => CallsAreAtomic
    <2> SUFFICES ASSUME Inv, NEW t \in Threads, HasLocks(t), done[t] = 2
                 PROVE  LET c == call[t] IN
                           /\ c.op = "put" => bytes[c.to] = <<c.value, c.value>>
                           /\ c.op = "copy" => bytes[c.to] = bytes[c.from]
                           /\ c.op = "compare" =>
                                 \A i \in 1 .. 2 : c.seen[i] = <<bytes[c.to][i], bytes[c.from][i]>>
                           /\ c.op = "getString" => \A i \in 1 .. 2 : c.seen[i][1] = bytes[c.to][i]
        BY DEF CallsAreAtomic
    <2> DEFINE c == call[t]
    <2>1. /\ c.to \in Buffers
          /\ c.op \in {"copy", "compare"} => c.from \in Buffers
          /\ c.op \in Reads => c.seen \in Seq(Value \X Value)
        BY CallShape DEF Inv, HasLocks, Reads
    <2>2. /\ c.op \in Reads => Len(c.seen) = 2
          /\ \A i \in 1 .. 2 :
                /\ c.op = "put" => bytes[c.to][i] = c.value
                /\ c.op = "copy" => bytes[c.to][i] = bytes[c.from][i]
                /\ c.op \in Reads => c.seen[i][1] = bytes[c.to][i]
                /\ c.op = "compare" => c.seen[i][2] = bytes[c.from][i]
        BY DEF Inv, AtomicInv, AtomicOf
    <2>3. /\ bytes[c.to] \in [1 .. 2 -> Value]
          /\ c.op = "copy" => bytes[c.from] \in [1 .. 2 -> Value]
        BY <2>1 DEF Inv, TypeInv
    <2>4. c.op = "put" => bytes[c.to] = <<c.value, c.value>>
        BY <2>2, <2>3
    <2>5. c.op = "copy" => bytes[c.to] = bytes[c.from]
        BY <2>2, <2>3
    <2>6. ASSUME c.op = "compare", NEW i \in 1 .. 2
          PROVE  c.seen[i] = <<bytes[c.to][i], bytes[c.from][i]>>
        <3>1. c.seen[i] \in Value \X Value
            BY <2>1, <2>2, <2>6 DEF Reads
        <3> QED
            BY <2>2, <2>6, <3>1 DEF Reads
    <2> QED
        BY <2>2, <2>4, <2>5, <2>6 DEF Reads
<1> QED
    BY <1>1, LockedBytes, PTL

\* What a thread has locked, and is not half way through writing itself, is whole.
LEMMA HeldIsWhole ==
    ASSUME Inv, WholeInv, NEW t \in Threads \cup {"none"}, NEW b \in Buffers,
           holder[b] = t, t \in Threads => ~WritesHalf(t, b)
    PROVE  Whole(b)
<1> SUFFICES ASSUME NEW u \in Threads, WritesHalf(u, b) PROVE FALSE
    BY DEF WholeInv
<1>1. HasLocks(u)
    BY DEF WritesHalf, Inv, LockInv, LocksOf
<1>2. holder[b] = u
    BY <1>1, LocksAreHeld DEF WritesHalf, Inv
<1> QED
    BY <1>2, ThreadsAssumption

\* Without putBuffer, a step that writes leaves a buffer whole or its own half way.
LEMMA ChangeIsWhole ==
    ASSUME "putBuffer" \notin Ops, Inv, WholeInv, NEW t \in Threads, Step(t),
           Change(call[t], done[t] + 1)
    PROVE  WholeInv'
<1> DEFINE c == call[t]
           k == done[t] + 1
           v == IF c.op \in {"copy", "putBuffer"} THEN bytes[c.from][k] ELSE c.value
<1> USE DEF Inv
<1>1. /\ c.op \in Writes /\ HasLocks(t) /\ done[t] \in {0, 1} /\ k \in {1, 2}
      /\ c.to \in Buffers
      /\ c.op = "copy" => c.from \in Buffers /\ c.from # c.to
      /\ \A b \in Buffers : b # c.to => bytes'[b] = bytes[b]
      /\ bytes'[c.to][k] = v
      /\ k = 2 => bytes'[c.to][1] = bytes[c.to][1]
      /\ call' = call /\ done'[t] = k
      /\ \A u \in Threads : u # t => done'[u] = done[u]
    BY Changed
<1>2. c.op \in {"put", "copy"}
    BY <1>1, CallShape, LocksAreHeld DEF HasLocks, Writes
<1> SUFFICES ASSUME NEW b \in Buffers PROVE Whole(b)' \/ \E u \in Threads : WritesHalf(u, b)'
    BY DEF WholeInv
<1>3. CASE b # c.to
    <2>1. Whole(b)' = Whole(b)
        BY <1>1, <1>3 DEF Whole
    <2>2. \A u \in Threads : WritesHalf(u, b) => WritesHalf(u, b)'
        BY <1>1, <1>3 DEF WritesHalf
    <2> QED
        BY <2>1, <2>2 DEF WholeInv
<1>4. CASE b = c.to /\ k = 1
    BY <1>1, <1>4 DEF WritesHalf
<1>5. CASE b = c.to /\ k = 2
    <2>1. done[t] = 1 /\ AtomicOf(t)
        BY <1>1, <1>5 DEF AtomicInv
    <2>2. CASE c.op = "copy"
        <3>1. holder[c.from] = t /\ ~WritesHalf(t, c.from)
            BY <1>1, <2>2, LocksAreHeld DEF WritesHalf
        <3>2. Whole(c.from)
            BY <1>1, <2>2, <3>1, HeldIsWhole
        <3>3. bytes[c.to][1] = bytes[c.from][1]
            BY <2>1, <2>2 DEF AtomicOf
        <3> QED
            BY <1>1, <1>5, <2>2, <3>2, <3>3 DEF Whole
    <2>3. CASE c.op = "put"
        <3>1. bytes[c.to][1] = c.value
            BY <2>1, <2>3 DEF AtomicOf
        <3> QED
            BY <1>1, <1>5, <2>3, <3>1 DEF Whole
    <2> QED
        BY <1>2, <2>2, <2>3
<1> QED
    BY <1>1, <1>3, <1>4, <1>5

\* Without putBuffer, every step leaves a buffer whole or half way through a call.
LEMMA WholeStep ==
    ASSUME "putBuffer" \notin Ops
    PROVE  Inv /\ WholeInv /\ [Next]_vars => WholeInv'
<1> SUFFICES ASSUME Inv, WholeInv, [Next]_vars PROVE WholeInv'
    OBVIOUS
<1> USE DEF Inv
<1>1. ASSUME NEW t \in Threads, Call(t) PROVE WholeInv'
    <2>1. /\ done[t] = 0 /\ UNCHANGED <<bytes, done>>
          /\ \A u \in Threads : u # t => call'[u] = call[u]
        BY <1>1 DEF Call, TypeInv, LockInv, LocksOf, Running
    <2>2. \A u \in Threads, b \in Buffers : WritesHalf(u, b) => WritesHalf(u, b)'
        BY <2>1 DEF WritesHalf
    <2> QED
        BY <2>1, <2>2 DEF WholeInv, Whole
<1>2. ASSUME NEW t \in Threads, Lock(t) PROVE WholeInv'
    BY <1>2 DEF Lock, WholeInv, Whole, WritesHalf
<1>3. ASSUME NEW t \in Threads, Step(t) PROVE WholeInv'
    <2>1. CASE Change(call[t], done[t] + 1)
        BY <1>3, <2>1, ChangeIsWhole
    <2>2. CASE Look(t, call[t], done[t] + 1)
        <3>1. /\ call[t].op \notin Writes /\ bytes' = bytes
              /\ \A u \in Threads : u # t => done'[u] = done[u] /\ call'[u] = call[u]
            BY <1>3, <2>2 DEF Step, Look, TypeInv, Writes
        <3>2. \A u \in Threads, b \in Buffers : WritesHalf(u, b) => WritesHalf(u, b)'
            BY <3>1 DEF WritesHalf
        <3> QED
            BY <3>1, <3>2 DEF WholeInv, Whole
    <2> QED
        BY <1>3, <2>1, <2>2 DEF Step
<1>4. ASSUME NEW t \in Threads, Return(t) PROVE WholeInv'
    <2>1. /\ done[t] = 2 /\ bytes' = bytes
          /\ \A u \in Threads : u # t => call'[u] = call[u] /\ done'[u] = done[u]
        BY <1>4 DEF Return, TypeInv
    <2>2. \A u \in Threads, b \in Buffers : WritesHalf(u, b) => WritesHalf(u, b)'
        BY <2>1 DEF WritesHalf
    <2> QED
        BY <2>1, <2>2 DEF WholeInv, Whole
<1>5. CASE UNCHANGED vars
    BY <1>5 DEF vars, WholeInv, Whole, WritesHalf
<1> QED
    BY <1>1, <1>2, <1>3, <1>4, <1>5 DEF Next

\* As long as nobody calls putBuffer, the one call that reads a buffer without its
\* lock to write another, no buffer is left half written for others to lock.
THEOREM WholeWithoutPutBuffer ==
    ASSUME "putBuffer" \notin Ops
    PROVE  Spec => []Untorn
<1>1. Init => WholeInv
    BY DEF Init, WholeInv, Whole
<1>2. Inv /\ WholeInv /\ [Next]_vars => WholeInv'
    BY WholeStep
<1>3. Inv /\ WholeInv => Untorn
    BY HeldIsWhole, ThreadsAssumption DEF Untorn, Whole
<1> QED
    BY <1>1, <1>2, <1>3, LockedBytes, PTL DEF Spec
=============================================================================
