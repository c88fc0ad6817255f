---------------------------- MODULE BufferLocks ----------------------------
(***************************************************************************)
(* The locks of cBuffer (src/source/buffer.cpp, buffer.hpp).  Every buffer *)
(* has a mutex that is not recursive.  Most calls lock their own buffer,   *)
(* and those that copy or compare two buffers lock the other one next,     *)
(* without giving the first one back; putBuffer reads the other one        *)
(* without its lock, and most getters lock nothing.  Buffers are shared    *)
(* between threads: chunks of a source, which two images may have open,    *)
(* and contents of files.                                                  *)
(*                                                                         *)
(* A buffer has two bytes, so that a call can be seen half way, and keeps  *)
(* them; only "grow" stands for a call that needs more.                    *)
(***************************************************************************)
EXTENDS Naturals, Sequences

CONSTANTS
    Threads,
    Chunks,     \* buffers of a source, which are written from contents
    Contents,   \* buffers of files and of clients
    Compared,   \* pairs of buffers that clients compare
    Value,      \* bytes
    Ops

\* "put":       a call that changes its own buffer: put*, push*, takeBytes;
\* "grow":      a put* past the end;
\* "putBuffer": putBuffer, which copies another buffer that it does not lock;
\* "get":       getByte, getWord*, getDWord*, which take no lock;
\* "getString": getString, which locks its buffer;
\* "copy":      write, pushBuffer;
\* "compare":   operator==.
ASSUME OpsAssumption ==
    Ops \subseteq {"put", "grow", "putBuffer", "get", "getString", "copy", "compare"}
ASSUME BuffersAssumption == Compared \subseteq (Chunks \cup Contents) \X (Chunks \cup Contents)
ASSUME ValueAssumption == Value # {}
ASSUME ThreadsAssumption == "none" \notin Threads

VARIABLES
    holder,     \* mLock of each buffer: the thread that has it, or "none"
    bytes,      \* the bytes of each buffer
    call,       \* the call of each thread
    locked,     \* the number of locks it has taken
    done        \* the number of bytes it has been through

vars == <<holder, bytes, call, locked, done>>

Buffers == Chunks \cup Contents
Idle == [op |-> "idle"]

\* (The source of a copy is not locked, as putBuffer does not lock it.)
WantedOwn(c) == <<c.to>>

\* (Every put goes through resize, as one past the end does.)
WantedTwice(c) == <<c.to, c.to>>

\* The locks a call takes, in their order: this, and then the other buffer; put*
\* calls expandOffset, which calls resize, which locks this again.
Wanted(c) ==
    CASE c.op \in {"put", "putBuffer", "getString"} -> <<c.to>>
      [] c.op = "grow" -> <<c.to, c.to>>
      [] c.op = "get" -> <<>>
      [] c.op \in {"copy", "compare"} -> <<c.to, c.from>>

Init ==
    /\ holder = [b \in Buffers |-> "none"]
    /\ \E v \in Value : bytes = [b \in Buffers |-> <<v, v>>]
    /\ call = [t \in Threads |-> Idle]
    /\ locked = [t \in Threads |-> 0]
    /\ done = [t \in Threads |-> 0]

\* A thread calls one of them; a source is written from contents.
Call(t) ==
    /\ call[t] = Idle
    /\ \/ \E op \in Ops \cap {"put", "grow"}, b \in Buffers, v \in Value :
            call' = [call EXCEPT ![t] = [op |-> op, to |-> b, value |-> v]]
       \/ \E op \in Ops \cap {"putBuffer"}, b, c \in Buffers :
            call' = [call EXCEPT ![t] = [op |-> op, to |-> b, from |-> c]]
       \/ \E op \in Ops \cap {"get", "getString"}, b \in Buffers :
            call' = [call EXCEPT ![t] = [op |-> op, to |-> b, from |-> b, seen |-> <<>>]]
       \/ \E op \in Ops \cap {"compare"}, p \in Compared :
            call' = [call EXCEPT ![t] = [op |-> op, to |-> p[1], from |-> p[2], seen |-> <<>>]]
       \/ \E op \in Ops \cap {"copy"}, b \in Chunks, c \in Contents :
            call' = [call EXCEPT ![t] = [op |-> op, to |-> b, from |-> c]]
    /\ UNCHANGED <<holder, bytes, locked, done>>

Running(t) == call[t] # Idle
HasLocks(t) == Running(t) /\ locked[t] = Len(Wanted(call[t]))

\* The next lock is free, and taken.
Lock(t) ==
    /\ Running(t) /\ ~HasLocks(t)
    /\ LET b == Wanted(call[t])[locked[t] + 1] IN
          /\ holder[b] = "none"
          /\ holder' = [holder EXCEPT ![b] = t]
    /\ locked' = [locked EXCEPT ![t] = @ + 1]
    /\ UNCHANGED <<bytes, call, done>>

\* A byte is put, copied or read.
Change(c, i) ==
    /\ c.op \in {"put", "grow", "putBuffer", "copy"}
    /\ bytes' = [bytes EXCEPT ![c.to][i] =
                    IF c.op \in {"copy", "putBuffer"} THEN bytes[c.from][i] ELSE c.value]
    /\ UNCHANGED call
Look(t, c, i) ==
    /\ c.op \in {"get", "getString", "compare"}
    /\ call' = [call EXCEPT ![t].seen = Append(@, <<bytes[c.to][i], bytes[c.from][i]>>)]
    /\ UNCHANGED bytes

Step(t) ==
    /\ HasLocks(t) /\ done[t] < 2
    /\ Change(call[t], done[t] + 1) \/ Look(t, call[t], done[t] + 1)
    /\ done' = [done EXCEPT ![t] = @ + 1]
    /\ UNCHANGED <<holder, locked>>

\* The call returns, and its guards give the locks back.
Return(t) ==
    /\ HasLocks(t) /\ done[t] = 2
    /\ holder' = [b \in Buffers |-> IF holder[b] = t THEN "none" ELSE holder[b]]
    /\ call' = [call EXCEPT ![t] = Idle]
    /\ locked' = [locked EXCEPT ![t] = 0]
    /\ done' = [done EXCEPT ![t] = 0]
    /\ UNCHANGED bytes

Next == \E t \in Threads : Call(t) \/ Lock(t) \/ Step(t) \/ Return(t)

Spec == Init /\ [][Next]_vars

\* A thread that can go on does; a mutex that is free again and again is got.
FairSpec == Spec /\ \A t \in Threads : SF_vars(Lock(t)) /\ WF_vars(Step(t) \/ Return(t))

-----------------------------------------------------------------------------
(* Properties *)

\* What a call has made or seen under its guards is, when it is about to return, one
\* state of the buffers it has locked: a put* or push* has its bytes in the buffer,
\* write and pushBuffer have made the one buffer what the other one is, operator==
\* has seen both buffers as they are, and getString its own.  (Nothing is promised of
\* putBuffer and of the getters without a lock, whatever they are called on.)
CallsAreAtomic ==
    \A t \in Threads : HasLocks(t) /\ done[t] = 2 =>
       LET c == call[t] IN
          /\ c.op = "put" => bytes[c.to] = <<c.value, c.value>>
          /\ c.op = "copy" => bytes[c.to] = bytes[c.from]
          /\ c.op = "compare" =>
                \A i \in 1 .. 2 : c.seen[i] = <<bytes[c.to][i], bytes[c.from][i]>>
          /\ c.op = "getString" => \A i \in 1 .. 2 : c.seen[i][1] = bytes[c.to][i]

\* A buffer nobody has locked is whole: its bytes are of one value, as every call that
\* writes them means them to be.  So it is without putBuffer, and only without it:
\* putBuffer copies a buffer that another call may be half way through (buffer.cpp:262).
Untorn == \A b \in Buffers : holder[b] = "none" => bytes[b][1] = bytes[b][2]

\* Every call returns: neither one thread nor several wait for each other
\* ("LOCK BEFORE CALLING", buffer.cpp:78, has a call lock first and resize then).
CallReturns == \A t \in Threads : Running(t) ~> ~Running(t)
=============================================================================
