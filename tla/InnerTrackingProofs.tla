------------------------ MODULE InnerTrackingProofs ------------------------
(***************************************************************************)
(* Proofs about InnerTracking, for any number of threads and blocks and    *)
(* any capacity of the queue.                                              *)
(***************************************************************************)
EXTENDS InnerTracking, SequenceTheorems, TLAPS

\* What the stage of a hook says about its operations and about the lock.
StageInv ==
  \A p \in Procs :
    /\ pc[p] = "idle" => mine[p] = {} /\ todo[p] = {}
    /\ pc[p] = "process" => todo[p] = {}
    /\ pc[p] = "track" <=> lock = p

\* An allocation whose hook has not come to apply it is not over; in the queue
\* a block's allocation precedes its deallocation; and a deallocation that was
\* popped or applied has not left its allocation in the queue.
OrderInv ==
  \A b \in Blocks :
    /\ Alloc(b) \in Waiting => blk[b] = "allocating"
    /\ \A i, j \in 1 .. Len(postponed) :
         postponed[i] = Free(b) /\ postponed[j] = Alloc(b) => j < i
    /\ Free(b) \in Applied \cup InFlight =>
         Alloc(b) \in Applied \cup InFlight \cup dropped

IInv == TypeOK /\ StageInv /\ OnceOrDropped /\ OrderInv

-----------------------------------------------------------------------------
(* Operations and places.                                                  *)

\* Both operations of a block are operations, and they differ.
LEMMA Ops ==
  ASSUME NEW b \in Blocks, NEW c \in Blocks
  PROVE  /\ Alloc(b) \in Op /\ Free(b) \in Op
         /\ Alloc(b) # Free(c)
         /\ Alloc(b) = Alloc(c) => b = c
         /\ Free(b) = Free(c) => b = c
  BY DEF Op, Alloc, Free

\* Which operations have been performed.
LEMMA PerformedOps ==
  ASSUME NEW b \in Blocks
  PROVE  /\ Alloc(b) \in Performed <=> blk[b] # "fresh"
         /\ Free(b) \in Performed <=> blk[b] = "freed"
  BY DEF Performed, Op, Alloc, Free

\* Every operation is one or the other.
LEMMA OpCases ==
  ASSUME NEW o \in Op
  PROVE  \E b \in Blocks : o = Alloc(b) \/ o = Free(b)
  BY DEF Op, Alloc, Free

-----------------------------------------------------------------------------
(* The queue.                                                              *)

\* push_back adds one operation at the end.
LEMMA QueueAppend ==
  ASSUME postponed \in Seq(Op), NEW o \in Op, postponed' = Append(postponed, o)
  PROVE  /\ postponed' \in Seq(Op)
         /\ Len(postponed') = Len(postponed) + 1
         /\ \A i \in 1 .. Len(postponed) : postponed'[i] = postponed[i]
         /\ postponed'[Len(postponed) + 1] = o
         /\ Queued' = Queued \cup {o}
<1>1. /\ postponed' \in Seq(Op)
      /\ Len(postponed') = Len(postponed) + 1
      /\ \A i \in 1 .. Len(postponed) : postponed'[i] = postponed[i]
      /\ postponed'[Len(postponed) + 1] = o
  OBVIOUS
<1>2. ASSUME NEW x \in Op
      PROVE  x \in Queued' <=> x \in Queued \/ x = o
  <2>1. Len(postponed) \in Nat
    OBVIOUS
  <2>2. x \in Queued' <=> \E i \in 1 .. Len(postponed) + 1 : postponed'[i] = x
    BY <1>1 DEF Queued
  <2>3. x \in Queued <=> \E i \in 1 .. Len(postponed) : postponed[i] = x
    BY DEF Queued
  <2> QED
    BY <1>1, <2>1, <2>2, <2>3
<1>3. Queued' \subseteq Op /\ Queued \subseteq Op
  BY DEF Queued
<1> QED
  BY <1>1, <1>2, <1>3

\* pop_front takes the first operation, and the others keep their order.
LEMMA QueueTail ==
  ASSUME postponed \in Seq(Op), postponed # <<>>, postponed' = Tail(postponed)
  PROVE  /\ postponed' \in Seq(Op)
         /\ Len(postponed) \in Nat \ {0}
         /\ Len(postponed') = Len(postponed) - 1
         /\ \A i \in 1 .. Len(postponed') : postponed'[i] = postponed[i + 1]
         /\ postponed[1] \in Op
         /\ postponed[1] \in Queued
         /\ Queued' \subseteq Queued
         /\ \A x \in Queued : x # postponed[1] => x \in Queued'
<1>1. /\ postponed' \in Seq(Op)
      /\ Len(postponed) \in Nat \ {0}
      /\ Len(postponed') = Len(postponed) - 1
      /\ \A i \in 1 .. Len(postponed') : postponed'[i] = postponed[i + 1]
      /\ postponed[1] \in Op
  BY EmptySeq, HeadTailProperties
<1>2. postponed[1] \in Queued
  BY <1>1 DEF Queued
<1>3. ASSUME NEW x \in Queued'
      PROVE  x \in Queued
  <2>1. PICK i \in 1 .. Len(postponed') : postponed'[i] = x
    BY DEF Queued
  <2>2. i + 1 \in 1 .. Len(postponed) /\ postponed[i + 1] = x
    BY <1>1, <2>1
  <2> QED
    BY <2>2 DEF Queued
<1>4. ASSUME NEW x \in Queued, x # postponed[1]
      PROVE  x \in Queued'
  <2>1. PICK i \in 1 .. Len(postponed) : postponed[i] = x
    BY DEF Queued
  <2>2. i - 1 \in 1 .. Len(postponed') /\ postponed'[i - 1] = x
    BY <1>1, <1>4, <2>1
  <2> QED
    BY <2>2 DEF Queued
<1> QED
  BY <1>1, <1>2, <1>3, <1>4

-----------------------------------------------------------------------------
(* What a step is: an operation enters at the first level, an operation is *)
(* postponed, or a hook or the worker moves operations along.              *)

\* A block keeps its state or leaves it by an operation that is new.
NewOps(ops) ==
  /\ ops \in SUBSET Op
  /\ ops \cap Performed = {}
  /\ Performed' = Performed \cup ops
  /\ blk' \in [Blocks -> BlockState]
  /\ \A b \in Blocks : blk[b] = "allocating" => blk'[b] = "allocating"

FirstLevelEntry(p, ops) ==
  /\ pc[p] = "idle"
  /\ EnterFirstLevel(p, ops)
  /\ NewOps(ops)
  /\ \A b \in Blocks : Alloc(b) \in ops => blk'[b] = "allocating"
  /\ UNCHANGED <<built, todo, lock, inner, consumed>>

PostponedEntry(o) ==
  /\ Postpone(o)
  /\ NewOps({o})
  /\ \A b \in Blocks : o = Alloc(b) => Free(b) \notin Performed
  /\ built' \in BOOLEAN
  /\ UNCHANGED <<pc, mine, todo, lock, inner, consumed>>

\* The first operation on a fresh block is its allocation.
LEMMA NewAlloc ==
  ASSUME TypeOK, NEW b \in Blocks, NEW s \in BlockState \ {"fresh", "freed"},
         blk[b] = "fresh", blk' = [blk EXCEPT ![b] = s]
  PROVE  NewOps({Alloc(b)}) /\ Free(b) \notin Performed
<1>1. Alloc(b) \in Op /\ Alloc(b) \notin Performed /\ Free(b) \notin Performed
  BY Ops, PerformedOps
<1>2. /\ blk' \in [Blocks -> BlockState]
      /\ \A c \in Blocks : blk[c] = "allocating" => blk'[c] = "allocating"
  BY DEF TypeOK
<1>3. \A c \in Blocks : blk'[c] = IF c = b THEN s ELSE blk[c]
  BY DEF TypeOK
<1>4. ASSUME NEW o \in Op
      PROVE  o \in Performed' <=> o \in Performed \/ o = Alloc(b)
  <2>1. PICK c \in Blocks : o = Alloc(c) \/ o = Free(c)
    BY OpCases
  <2>2. /\ Alloc(c) \in Performed' <=> blk'[c] # "fresh"
        /\ Free(c) \in Performed' <=> blk'[c] = "freed"
    BY DEF Performed, Op, Alloc, Free
  <2> QED
    BY <1>3, <2>1, <2>2, PerformedOps, Ops
<1>5. Performed \subseteq Op /\ Performed' \subseteq Op
  BY DEF Performed
<1> QED
  BY <1>1, <1>2, <1>4, <1>5 DEF NewOps

\* The last operation on a block in use is its deallocation.
LEMMA NewFree ==
  ASSUME TypeOK, NEW b \in Blocks, blk[b] \in {"live", "table", "spare"},
         blk' = [blk EXCEPT ![b] = "freed"]
  PROVE  NewOps({Free(b)})
<1>1. Free(b) \in Op /\ Free(b) \notin Performed
  BY Ops, PerformedOps
<1>2. /\ blk' \in [Blocks -> BlockState]
      /\ \A c \in Blocks : blk[c] = "allocating" => blk'[c] = "allocating"
  BY DEF TypeOK, BlockState
<1>3. \A c \in Blocks : blk'[c] = IF c = b THEN "freed" ELSE blk[c]
  BY DEF TypeOK
<1>4. ASSUME NEW o \in Op
      PROVE  o \in Performed' <=> o \in Performed \/ o = Free(b)
  <2>1. PICK c \in Blocks : o = Alloc(c) \/ o = Free(c)
    BY OpCases
  <2>2. /\ Alloc(c) \in Performed' <=> blk'[c] # "fresh"
        /\ Free(c) \in Performed' <=> blk'[c] = "freed"
    BY DEF Performed, Op, Alloc, Free
  <2> QED
    BY <1>3, <2>1, <2>2, PerformedOps, Ops
<1>5. Performed \subseteq Op /\ Performed' \subseteq Op
  BY DEF Performed
<1> QED
  BY <1>1, <1>2, <1>4, <1>5 DEF NewOps

\* A reallocation performs the deallocation of one block and the allocation
\* of another.
LEMMA NewRealloc ==
  ASSUME TypeOK, NEW b \in Blocks, NEW c \in Blocks,
         blk[b] = "live", blk[c] = "fresh",
         blk' = [blk EXCEPT ![b] = "freed", ![c] = "allocating"]
  PROVE  NewOps({Free(b), Alloc(c)})
<1>1. /\ {Free(b), Alloc(c)} \in SUBSET Op
      /\ Free(b) \notin Performed /\ Alloc(c) \notin Performed
  BY Ops, PerformedOps
<1>2. /\ blk' \in [Blocks -> BlockState]
      /\ \A d \in Blocks : blk[d] = "allocating" => blk'[d] = "allocating"
  BY DEF TypeOK, BlockState
<1>3. \A d \in Blocks : blk'[d] = IF d = b THEN "freed"
                                  ELSE IF d = c THEN "allocating" ELSE blk[d]
  BY DEF TypeOK
<1>4. ASSUME NEW o \in Op
      PROVE  o \in Performed' <=> o \in Performed \/ o \in {Free(b), Alloc(c)}
  <2>1. PICK d \in Blocks : o = Alloc(d) \/ o = Free(d)
    BY OpCases
  <2>2. /\ Alloc(d) \in Performed' <=> blk'[d] # "fresh"
        /\ Free(d) \in Performed' <=> blk'[d] = "freed"
    BY DEF Performed, Op, Alloc, Free
  <2> QED
    BY <1>3, <2>1, <2>2, PerformedOps, Ops
<1>5. Performed \subseteq Op /\ Performed' \subseteq Op
  BY DEF Performed
<1> QED
  BY <1>1, <1>2, <1>4, <1>5 DEF NewOps

LEMMA StepCases ==
  ASSUME TypeOK, StageInv, [Next]_vars
  PROVE  \/ \E p \in Procs, ops \in SUBSET Op : FirstLevelEntry(p, ops)
         \/ \E o \in Op : PostponedEntry(o)
         \/ \E p \in Procs : ProcessPostponed(p)
         \/ \E p \in Procs : LockTracker(p)
         \/ \E p \in Procs : Apply(p)
         \/ WorkerConsume
         \/ UNCHANGED vars
<1>1. ASSUME NEW b \in Blocks, Construct(b)
      PROVE  PostponedEntry(Alloc(b)) /\ Alloc(b) \in Op
  <2>1. "table" \in BlockState \ {"fresh", "freed"}
    BY DEF BlockState
  <2>2. NewOps({Alloc(b)}) /\ Free(b) \notin Performed
    BY <1>1, <2>1, NewAlloc DEF Construct
  <2> QED
    BY <1>1, <2>2, Ops DEF Construct, PostponedEntry
<1>2. ASSUME NEW p \in Procs, NEW b \in Blocks, TrackAlloc(p, b)
      PROVE  \/ FirstLevelEntry(p, {Alloc(b)}) /\ {Alloc(b)} \in SUBSET Op
             \/ PostponedEntry(Alloc(b)) /\ Alloc(b) \in Op
  <2> DEFINE s == IF pc[p] = "idle" THEN "allocating" ELSE "table"
  <2>1. s \in BlockState \ {"fresh", "freed"}
    BY DEF BlockState
  <2>2. NewOps({Alloc(b)}) /\ Free(b) \notin Performed
    BY <1>2, <2>1, NewAlloc DEF TrackAlloc
  <2>3. CASE pc[p] = "idle"
    <3>1. \A c \in Blocks : Alloc(c) \in {Alloc(b)} => blk'[c] = "allocating"
      BY <1>2, <2>3, Ops DEF TrackAlloc, TypeOK
    <3> QED
      BY <1>2, <2>2, <2>3, <3>1, Ops
      DEF TrackAlloc, TrackOp, FirstLevel, FirstLevelEntry
  <2>4. CASE pc[p] # "idle"
    BY <1>2, <2>2, <2>4, Ops DEF TrackAlloc, TrackOp, FirstLevel, PostponedEntry, TypeOK
  <2> QED
    BY <2>3, <2>4
<1>3. ASSUME NEW p \in Procs, NEW b \in Blocks, TrackDealloc(p, b)
      PROVE  \/ FirstLevelEntry(p, {Free(b)}) /\ {Free(b)} \in SUBSET Op
             \/ PostponedEntry(Free(b)) /\ Free(b) \in Op
  <2>2. NewOps({Free(b)})
    BY <1>3, NewFree DEF TrackDealloc
  <2>3. \A c \in Blocks : Free(b) # Alloc(c)
    BY Ops
  <2>4. CASE pc[p] = "idle"
    BY <1>3, <2>2, <2>3, <2>4, Ops
    DEF TrackDealloc, TrackOp, FirstLevel, FirstLevelEntry
  <2>5. CASE pc[p] # "idle"
    BY <1>3, <2>2, <2>3, <2>5, Ops
    DEF TrackDealloc, TrackOp, FirstLevel, PostponedEntry, TypeOK
  <2> QED
    BY <2>4, <2>5
<1>4. ASSUME NEW p \in Procs, NEW b \in Blocks, NEW c \in Blocks,
             TrackRealloc(p, b, c)
      PROVE  /\ FirstLevelEntry(p, {Free(b), Alloc(c)})
             /\ {Free(b), Alloc(c)} \in SUBSET Op
  <2>1. NewOps({Free(b), Alloc(c)})
    BY <1>4, NewRealloc DEF TrackRealloc
  <2>2. \A d \in Blocks : Alloc(d) \in {Free(b), Alloc(c)} => d = c
    BY Ops
  <2>3. blk'[c] = "allocating"
    BY <1>4 DEF TrackRealloc, TypeOK
  <2> QED
    BY <1>4, <2>1, <2>2, <2>3, Ops DEF TrackRealloc, FirstLevelEntry
<1> QED
  BY <1>1, <1>2, <1>3, <1>4 DEF Next, Progress

-----------------------------------------------------------------------------
(* Types and stages.                                                       *)

LEMMA InitIInv == Init => IInv
<1> SUFFICES ASSUME Init
             PROVE  IInv
  OBVIOUS
<1>1. postponed \in Seq(Op) /\ Len(postponed) = 0
  BY EmptySeq DEF Init
<1>2. TypeOK
  <2>1. /\ blk \in [Blocks -> BlockState]
        /\ pc \in [Procs -> {"idle", "process", "lock", "track"}]
        /\ mine \in [Procs -> SUBSET Op]
        /\ todo \in [Procs -> SUBSET Op]
        /\ lock \in Procs \cup {NoProc}
    BY DEF Init, BlockState
  <2>2. Len(postponed) <= Capacity /\ maxPostponedSize \in Len(postponed) .. Capacity
    BY <1>1, CapacityAssumption DEF Init
  <2> QED
    BY <1>1, <2>1, <2>2 DEF Init, TypeOK
<1>3. StageInv
  BY ProcAssumption DEF Init, StageInv, Procs
<1>4. /\ Performed = {} /\ Queued = {} /\ Waiting = {} /\ InFlight = {}
      /\ inner = {} /\ consumed = {} /\ dropped = {}
  <2>1. Performed = {}
    BY DEF Init, Performed, Op
  <2> QED
    BY <1>1, <2>1 DEF Init, Queued, Waiting, InFlight
<1>5. OnceOrDropped
  BY <1>1, <1>4 DEF Init, OnceOrDropped, Applied
<1>6. OrderInv
  BY <1>1, <1>4 DEF OrderInv, Applied
<1> QED
  BY <1>2, <1>3, <1>5, <1>6 DEF IInv

LEMMA NextType ==
  ASSUME TypeOK, StageInv, [Next]_vars
  PROVE  TypeOK'
<1> USE DEF TypeOK
<1>0. Len(postponed) \in Nat /\ Capacity \in Nat \ {0}
  BY CapacityAssumption
<1>1. ASSUME NEW p \in Procs, NEW ops \in SUBSET Op, FirstLevelEntry(p, ops)
      PROVE  TypeOK'
  BY <1>1 DEF FirstLevelEntry, EnterFirstLevel, NewOps
<1>2. ASSUME NEW o \in Op, PostponedEntry(o)
      PROVE  TypeOK'
  <2> USE <1>2 DEF PostponedEntry, NewOps, Postpone
  <2>1. CASE QueueFull
    BY <2>1
  <2>2. CASE ~QueueFull
    <3>1. postponed' = Append(postponed, o) /\ maxPostponedSize' = Peak(Append(postponed, o))
      BY <2>2
    <3>2. postponed' \in Seq(Op) /\ Len(postponed') = Len(postponed) + 1
      BY <3>1, QueueAppend
    <3>3. Len(postponed') <= Capacity /\ maxPostponedSize' \in Len(postponed') .. Capacity
      BY <1>0, <2>2, <3>1, <3>2 DEF QueueFull, Peak
    <3> QED
      BY <2>2, <3>2, <3>3
  <2> QED
    BY <2>1, <2>2
<1>3. ASSUME NEW p \in Procs, ProcessPostponed(p)
      PROVE  TypeOK'
  <2> USE <1>3 DEF ProcessPostponed, NothingPostponed, PopFront
  <2>1. CASE postponed = <<>>
    BY <2>1
  <2>2. CASE postponed # <<>>
    <3>1. /\ postponed' \in Seq(Op) /\ Len(postponed') = Len(postponed) - 1
          /\ {postponed[1]} \in SUBSET Op
      BY <2>2, QueueTail
    <3>2. Len(postponed') <= Capacity /\ maxPostponedSize' \in Len(postponed') .. Capacity
      BY <1>0, <3>1
    <3> QED
      BY <2>2, <3>1, <3>2
  <2> QED
    BY <2>1, <2>2
<1>4. ASSUME NEW p \in Procs, LockTracker(p)
      PROVE  TypeOK'
  BY <1>4 DEF LockTracker
<1>5. ASSUME NEW p \in Procs, Apply(p)
      PROVE  TypeOK'
  BY <1>5 DEF Apply, BlockState
<1>6. CASE WorkerConsume
  BY <1>6 DEF WorkerConsume, BlockState
<1>7. CASE UNCHANGED vars
  BY <1>7 DEF vars
<1> QED
  BY <1>1, <1>2, <1>3, <1>4, <1>5, <1>6, <1>7, StepCases

LEMMA NextStage ==
  ASSUME TypeOK, StageInv, [Next]_vars
  PROVE  StageInv'
<1> USE ProcAssumption DEF TypeOK, StageInv, Procs
<1>1. ASSUME NEW p \in Procs, NEW ops \in SUBSET Op, FirstLevelEntry(p, ops)
      PROVE  StageInv'
  BY <1>1 DEF FirstLevelEntry, EnterFirstLevel
<1>2. ASSUME NEW o \in Op, PostponedEntry(o)
      PROVE  StageInv'
  BY <1>2 DEF PostponedEntry
<1>3. ASSUME NEW p \in Procs, ProcessPostponed(p)
      PROVE  StageInv'
  BY <1>3 DEF ProcessPostponed
<1>4. ASSUME NEW p \in Procs, LockTracker(p)
      PROVE  StageInv'
  BY <1>4 DEF LockTracker
<1>5. ASSUME NEW p \in Procs, Apply(p)
      PROVE  StageInv'
  BY <1>5 DEF Apply
<1>6. CASE WorkerConsume
  BY <1>6 DEF WorkerConsume
<1>7. CASE UNCHANGED vars
  BY <1>7 DEF vars
<1> QED
  BY <1>1, <1>2, <1>3, <1>4, <1>5, <1>6, <1>7, StepCases

-----------------------------------------------------------------------------
(* Every operation is in one place.                                        *)

\* A step that swaps or completes blocks performs no operation.
LEMMA SamePerformed ==
  ASSUME TypeOK,
         \A b \in Blocks : /\ blk[b] = "fresh" <=> blk'[b] = "fresh"
                           /\ blk[b] = "freed" <=> blk'[b] = "freed"
  PROVE  Performed' = Performed
  BY DEF Performed, Op

LEMMA NextOnce ==
  ASSUME IInv, [Next]_vars
  PROVE  OnceOrDropped'
<1> USE DEF IInv
<1>0. /\ Performed \subseteq Op /\ Queued \subseteq Op /\ Waiting \subseteq Op
      /\ InFlight \subseteq Op
  BY DEF Performed, Queued, Waiting, InFlight
<1>1. ASSUME NEW p \in Procs, NEW ops \in SUBSET Op, FirstLevelEntry(p, ops)
      PROVE  OnceOrDropped'
  <2> USE <1>1 DEF FirstLevelEntry, EnterFirstLevel, NewOps
  <2>1. mine[p] = {} /\ mine' = [mine EXCEPT ![p] = ops]
    BY DEF StageInv
  <2>2. \A q \in Procs : mine'[q] = IF q = p THEN ops ELSE mine[q]
    BY <2>1 DEF TypeOK
  <2>3. Waiting' = Waiting \cup ops
    BY <2>1, <2>2 DEF Waiting
  <2>4. InFlight' = InFlight /\ Queued' = Queued
    BY DEF InFlight, Queued
  <2>5. \A q \in Procs : mine[q] \subseteq Performed
    BY DEF OnceOrDropped, Waiting, TypeOK
  <2> QED
    BY <1>0, <2>2, <2>3, <2>4, <2>5 DEF OnceOrDropped, Applied
<1>2. ASSUME NEW o \in Op, PostponedEntry(o)
      PROVE  OnceOrDropped'
  <2> USE <1>2 DEF PostponedEntry, NewOps, Postpone
  <2>1. InFlight' = InFlight /\ Waiting' = Waiting
    BY DEF InFlight, Waiting
  <2>2. CASE QueueFull
    <3>1. Queued' = Queued /\ dropped' = dropped \cup {o}
      BY <2>2 DEF Queued
    <3> QED
      BY <2>1, <2>2, <3>1 DEF OnceOrDropped, Applied
  <2>3. CASE ~QueueFull
    <3>1. /\ Queued' = Queued \cup {o} /\ dropped' = dropped
          /\ Len(postponed') = Len(postponed) + 1
          /\ \A i \in 1 .. Len(postponed) : postponed'[i] = postponed[i]
          /\ postponed'[Len(postponed) + 1] = o
      BY <2>3, QueueAppend DEF TypeOK
    <3>2. \A i \in 1 .. Len(postponed) : postponed[i] # o
      BY DEF OnceOrDropped, Queued
    <3>3. Len(postponed) \in Nat
      BY DEF TypeOK
    <3>4. \A i, j \in 1 .. Len(postponed') : i # j => postponed'[i] # postponed'[j]
      BY <3>1, <3>2, <3>3 DEF OnceOrDropped
    <3> QED
      BY <2>1, <3>1, <3>4 DEF OnceOrDropped, Applied
  <2> QED
    BY <2>2, <2>3
<1>3. ASSUME NEW p \in Procs, ProcessPostponed(p)
      PROVE  OnceOrDropped'
  <2> USE <1>3 DEF ProcessPostponed, NothingPostponed, PopFront
  <2>0. todo[p] = {} /\ Performed' = Performed
    BY DEF StageInv, Performed
  <2>1. CASE postponed = <<>>
    <3>1. /\ \A q \in Procs : todo'[q] = IF q = p THEN mine[p] ELSE todo[q]
          /\ \A q \in Procs : mine'[q] = IF q = p THEN {} ELSE mine[q]
      BY <2>1 DEF TypeOK
    <3>2. InFlight' = InFlight \cup mine[p]
      BY <2>0, <3>1 DEF InFlight, TypeOK
    <3>3. Waiting' = Waiting \ mine[p] /\ mine[p] \subseteq Waiting
      BY <3>1 DEF Waiting, TypeOK, OnceOrDropped
    <3>4. Queued' = Queued /\ postponed' = postponed
      BY <2>1 DEF Queued
    <3>5. \A q \in Procs : todo[q] \subseteq InFlight
      BY DEF InFlight, TypeOK
    <3>6. \A q, r \in Procs : q # r => mine'[q] \cap mine'[r] = {}
                                       /\ todo'[q] \cap todo'[r] = {}
      BY <3>1, <3>3, <3>5 DEF OnceOrDropped
    <3> QED
      BY <2>0, <3>2, <3>3, <3>4, <3>6 DEF OnceOrDropped, Applied
  <2>2. CASE postponed # <<>>
    <3> DEFINE x == postponed[1]
    <3>1. /\ x \in Op /\ x \in Queued /\ Queued' \subseteq Queued
          /\ \A y \in Queued : y # x => y \in Queued'
          /\ Len(postponed) \in Nat \ {0} /\ Len(postponed') = Len(postponed) - 1
          /\ \A i \in 1 .. Len(postponed') : postponed'[i] = postponed[i + 1]
      BY <2>2, QueueTail DEF TypeOK
    <3>2. \A i, j \in 1 .. Len(postponed) : i # j => postponed[i] # postponed[j]
      BY DEF OnceOrDropped
    <3>3. \A i, j \in 1 .. Len(postponed') : i # j => postponed'[i] # postponed'[j]
      BY <3>1, <3>2
    <3>4. ASSUME NEW i \in 1 .. Len(postponed')
          PROVE  postponed'[i] # x
      <4>1. i + 1 \in 1 .. Len(postponed) /\ 1 \in 1 .. Len(postponed) /\ i + 1 # 1
        BY <3>1
      <4> QED
        BY <3>1, <3>2, <4>1
    <3>5. x \notin Queued'
      BY <3>4 DEF Queued
    <3>6. \A q \in Procs : todo'[q] = IF q = p THEN {x} ELSE todo[q]
      BY <2>2 DEF TypeOK
    <3>7. InFlight' = InFlight \cup {x}
      BY <2>0, <3>1, <3>6 DEF InFlight
    <3>8. Waiting' = Waiting /\ mine' = mine
      BY <2>2 DEF Waiting
    <3>9. \A q \in Procs : todo[q] \subseteq InFlight
      BY DEF InFlight, TypeOK
    <3>10. \A q, r \in Procs : q # r => todo'[q] \cap todo'[r] = {}
      BY <3>1, <3>6, <3>9 DEF OnceOrDropped
    <3>11. Queued = Queued' \cup {x}
      BY <3>1
    <3> HIDE DEF x
    <3> QED
      BY <2>0, <3>1, <3>3, <3>5, <3>7, <3>8, <3>10, <3>11 DEF OnceOrDropped, Applied
  <2> QED
    BY <2>1, <2>2
<1>4. ASSUME NEW p \in Procs, LockTracker(p)
      PROVE  OnceOrDropped'
  BY <1>4 DEF LockTracker, OnceOrDropped, Applied, Performed, Queued, Waiting, InFlight
<1>5. ASSUME NEW p \in Procs, Apply(p)
      PROVE  OnceOrDropped'
  <2> USE <1>5 DEF Apply
  <2>1. Performed' = Performed
    <3>1. \A b \in Blocks : /\ blk[b] = "fresh" <=> blk'[b] = "fresh"
                            /\ blk[b] = "freed" <=> blk'[b] = "freed"
      BY DEF TypeOK
    <3> QED
      BY <3>1, SamePerformed
  <2>2. \A q \in Procs : todo'[q] = IF q = p THEN {} ELSE todo[q]
    BY DEF TypeOK
  <2>3. InFlight' = InFlight \ todo[p] /\ todo[p] \subseteq InFlight
    BY <2>2 DEF InFlight, TypeOK, OnceOrDropped
  <2>4. Waiting' = Waiting /\ Queued' = Queued
    BY DEF Waiting, Queued
  <2> QED
    BY <2>1, <2>2, <2>3, <2>4 DEF OnceOrDropped, Applied
<1>6. CASE WorkerConsume
  <2> USE <1>6 DEF WorkerConsume
  <2>1. Performed' = Performed
    <3>1. \A b \in Blocks : /\ blk[b] = "fresh" <=> blk'[b] = "fresh"
                            /\ blk[b] = "freed" <=> blk'[b] = "freed"
      BY DEF TypeOK
    <3> QED
      BY <3>1, SamePerformed
  <2>2. Waiting' = Waiting /\ Queued' = Queued /\ InFlight' = InFlight
    BY DEF Waiting, Queued, InFlight
  <2> QED
    BY <2>1, <2>2 DEF OnceOrDropped, Applied
<1>7. CASE UNCHANGED vars
  BY <1>7 DEF vars, OnceOrDropped, Applied, Performed, Queued, Waiting, InFlight
<1> QED
  BY <1>1, <1>2, <1>3, <1>4, <1>5, <1>6, <1>7, StepCases

-----------------------------------------------------------------------------
(* A deallocation does not leave its allocation behind.                    *)

LEMMA NextOrder ==
  ASSUME IInv, [Next]_vars
  PROVE  OrderInv'
<1> USE DEF IInv
<1>a. \A b \in Blocks : Alloc(b) \in Op /\ Free(b) \in Op
  BY Ops
<1>b. \A b \in Blocks : Free(b) \in Performed => Alloc(b) \in Performed
                                                 /\ Alloc(b) \notin Waiting
  BY PerformedOps DEF OrderInv
<1>c. Len(postponed) \in Nat
  BY DEF TypeOK
<1>1. ASSUME NEW p \in Procs, NEW ops \in SUBSET Op, FirstLevelEntry(p, ops)
      PROVE  OrderInv'
  <2> USE <1>1 DEF FirstLevelEntry, EnterFirstLevel, NewOps
  <2>1. \A q \in Procs : mine'[q] = IF q = p THEN ops ELSE mine[q]
    BY DEF TypeOK
  <2>2. \A o \in Waiting' : o \in Waiting \/ o \in ops
    BY <2>1 DEF Waiting
  <2>3. InFlight' = InFlight /\ Applied' = Applied
    BY DEF InFlight, Applied
  <2> QED
    BY <2>2, <2>3 DEF OrderInv
<1>2. ASSUME NEW o \in Op, PostponedEntry(o)
      PROVE  OrderInv'
  <2> USE <1>2 DEF PostponedEntry, NewOps, Postpone
  <2>1. InFlight' = InFlight /\ Applied' = Applied /\ Waiting' = Waiting
        /\ dropped \subseteq dropped'
    BY DEF InFlight, Applied, Waiting
  <2>2. ASSUME NEW b \in Blocks, NEW i \in 1 .. Len(postponed'),
               NEW j \in 1 .. Len(postponed'),
               postponed'[i] = Free(b), postponed'[j] = Alloc(b)
        PROVE  j < i
    <3>1. CASE QueueFull
      BY <2>2, <3>1 DEF OrderInv
    <3>2. CASE ~QueueFull
      <4>1. /\ Len(postponed') = Len(postponed) + 1
            /\ \A k \in 1 .. Len(postponed) : postponed'[k] = postponed[k]
            /\ postponed'[Len(postponed) + 1] = o
        BY <3>2, QueueAppend DEF TypeOK
      <4>2. CASE i \in 1 .. Len(postponed) /\ j \in 1 .. Len(postponed)
        BY <2>2, <4>1, <4>2 DEF OrderInv
      <4>3. CASE i = Len(postponed) + 1
        <5>1. j # i
          BY <2>2, Ops
        <5> QED
          BY <1>c, <4>1, <4>3, <5>1
      <4>4. CASE i \in 1 .. Len(postponed) /\ j = Len(postponed) + 1
        <5>1. o = Alloc(b) /\ postponed[i] = Free(b)
          BY <2>2, <4>1, <4>4
        <5>2. Free(b) \in Queued
          BY <1>a, <4>4, <5>1 DEF Queued
        <5>3. Free(b) \in Performed
          BY <5>2 DEF OnceOrDropped
        <5> QED
          BY <5>1, <5>3
      <4> QED
        BY <1>c, <4>1, <4>2, <4>3, <4>4
    <3> QED
      BY <3>1, <3>2
  <2> QED
    BY <2>1, <2>2 DEF OrderInv
<1>3. ASSUME NEW p \in Procs, ProcessPostponed(p)
      PROVE  OrderInv'
  <2> USE <1>3 DEF ProcessPostponed, NothingPostponed, PopFront
  <2>0. Applied' = Applied /\ dropped' = dropped /\ blk' = blk /\ todo[p] = {}
    BY DEF Applied, StageInv
  <2>1. CASE postponed = <<>>
    <3>1. /\ \A q \in Procs : todo'[q] = IF q = p THEN mine[p] ELSE todo[q]
          /\ \A q \in Procs : mine'[q] = IF q = p THEN {} ELSE mine[q]
      BY <2>1 DEF TypeOK
    <3>2. Waiting' \subseteq Waiting /\ InFlight' = InFlight \cup mine[p]
          /\ mine[p] \subseteq Waiting
      BY <2>0, <3>1 DEF Waiting, InFlight, TypeOK
    <3>3. Queued = {} /\ postponed' = postponed
      BY <2>1 DEF Queued
    <3>4. ASSUME NEW b \in Blocks, Free(b) \in mine[p]
          PROVE  Alloc(b) \in Applied \cup InFlight \cup dropped
      <4>1. Free(b) \in Performed
        BY <3>2, <3>4 DEF OnceOrDropped
      <4> QED
        BY <1>b, <3>3, <4>1 DEF OnceOrDropped, Applied
    <3> QED
      BY <2>0, <3>2, <3>3, <3>4 DEF OrderInv
  <2>2. CASE postponed # <<>>
    <3> DEFINE x == postponed[1]
    <3>1. /\ x \in Op /\ x \in Queued
          /\ Len(postponed) \in Nat \ {0} /\ Len(postponed') = Len(postponed) - 1
          /\ \A i \in 1 .. Len(postponed') : postponed'[i] = postponed[i + 1]
      BY <2>2, QueueTail DEF TypeOK
    <3>2. Waiting' = Waiting
      BY <2>2 DEF Waiting
    <3>3. \A q \in Procs : todo'[q] = IF q = p THEN {x} ELSE todo[q]
      BY <2>2 DEF TypeOK
    <3>4. InFlight' = InFlight \cup {x}
      BY <2>0, <3>1, <3>3 DEF InFlight
    <3>5. ASSUME NEW b \in Blocks, Free(b) = x
          PROVE  Alloc(b) \in Applied \cup InFlight \cup dropped
      <4>1. Free(b) \in Performed
        BY <3>1, <3>5 DEF OnceOrDropped
      <4>2. Alloc(b) \notin Queued
        <5> SUFFICES ASSUME NEW j \in 1 .. Len(postponed), postponed[j] = Alloc(b)
                     PROVE  FALSE
          BY DEF Queued
        <5>1. 1 \in 1 .. Len(postponed) /\ postponed[1] = Free(b)
          BY <3>1, <3>5
        <5>2. j < 1
          BY <5>1 DEF OrderInv
        <5> QED
          BY <5>2
      <4> QED
        BY <1>b, <4>1, <4>2 DEF OnceOrDropped, Applied
    <3>6. ASSUME NEW b \in Blocks, NEW i \in 1 .. Len(postponed'),
                 NEW j \in 1 .. Len(postponed'),
                 postponed'[i] = Free(b), postponed'[j] = Alloc(b)
          PROVE  j < i
      <4>1. /\ i + 1 \in 1 .. Len(postponed) /\ j + 1 \in 1 .. Len(postponed)
            /\ postponed[i + 1] = Free(b) /\ postponed[j + 1] = Alloc(b)
        BY <3>1, <3>6
      <4>2. j + 1 < i + 1
        BY <4>1 DEF OrderInv
      <4> QED
        BY <4>2
    <3> HIDE DEF x
    <3> QED
      BY <2>0, <3>2, <3>4, <3>5, <3>6 DEF OrderInv
  <2> QED
    BY <2>1, <2>2
<1>4. ASSUME NEW p \in Procs, LockTracker(p)
      PROVE  OrderInv'
  BY <1>4 DEF LockTracker, OrderInv, Applied, Waiting, InFlight
<1>5. ASSUME NEW p \in Procs, Apply(p)
      PROVE  OrderInv'
  <2> USE <1>5 DEF Apply
  <2>1. \A q \in Procs : todo'[q] = IF q = p THEN {} ELSE todo[q]
    BY DEF TypeOK
  <2>2. /\ Applied' = Applied \cup todo[p]
        /\ InFlight' \subseteq InFlight /\ todo[p] \subseteq InFlight
        /\ InFlight \subseteq InFlight' \cup todo[p]
    BY <2>1 DEF Applied, InFlight, TypeOK
  <2>3. Waiting' = Waiting
    BY DEF Waiting
  <2>4. ASSUME NEW b \in Blocks, Alloc(b) \in Waiting
        PROVE  blk'[b] = "allocating"
    <3>1. Alloc(b) \notin todo[p] /\ blk[b] = "allocating"
      BY <2>2, <2>4 DEF OnceOrDropped, OrderInv
    <3> QED
      BY <3>1 DEF TypeOK
  <2> QED
    BY <2>2, <2>3, <2>4 DEF OrderInv
<1>6. CASE WorkerConsume
  <2> USE <1>6 DEF WorkerConsume
  <2>1. Applied' = Applied /\ InFlight' = InFlight /\ Waiting' = Waiting
    BY DEF Applied, InFlight, Waiting
  <2>2. \A b \in Blocks : blk[b] = "allocating" => blk'[b] = "allocating"
    BY DEF TypeOK
  <2> QED
    BY <2>1, <2>2 DEF OrderInv
<1>7. CASE UNCHANGED vars
  BY <1>7 DEF vars, OrderInv, Applied, Waiting, InFlight
<1> QED
  BY <1>1, <1>2, <1>3, <1>4, <1>5, <1>6, <1>7, StepCases

-----------------------------------------------------------------------------
(* Theorems.                                                               *)

LEMMA Invariant == Spec => []IInv
<1>1. IInv /\ [Next]_vars => IInv'
  BY NextType, NextStage, NextOnce, NextOrder DEF IInv
<1> QED
  BY InitIInv, <1>1, PTL DEF Spec

\* The inner tracker, the queue and its peak keep their types: in particular
\* the queue never exceeds its capacity.
THEOREM TypeCorrect == Spec => []TypeOK
<1>1. IInv => TypeOK
  BY DEF IInv
<1> QED
  BY <1>1, Invariant, PTL

\* Every operation of MemHawk itself is counted once, unless it was skipped
\* because the queue was full.
THEOREM CountedOnceOrDropped == Spec => []OnceOrDropped
<1>1. IInv => OnceOrDropped
  BY DEF IInv
<1> QED
  BY <1>1, Invariant, PTL

\* A deallocation that is counted first has its allocation in the hands of a
\* process that is about to count it, or the allocation was skipped.
THEOREM AllocationNotLeftBehind == Spec => []NotLeftBehind
<1>1. IInv => NotLeftBehind
  BY DEF IInv, OrderInv, NotLeftBehind
<1> QED
  BY <1>1, Invariant, PTL

\* The peak that is logged at the end tells whether operations were skipped.
THEOREM PeakTells == Spec => []DropsAreVisible
<1>1. Init => DropsAreVisible
  BY DEF Init, DropsAreVisible
<1>2. ASSUME IInv, DropsAreVisible, [Next]_vars
      PROVE  DropsAreVisible'
  <2>1. IInv' /\ Capacity \in Nat /\ Len(postponed) \in Nat
    BY <1>2, NextType, NextStage, NextOnce, NextOrder, CapacityAssumption
    DEF IInv, TypeOK
  <2>2. ASSUME NEW o \in Op, Postpone(o)
        PROVE  DropsAreVisible'
    <3>1. CASE QueueFull
      <4>1. maxPostponedSize = Capacity
        BY <1>2, <2>1, <3>1 DEF QueueFull, IInv, TypeOK
      <4> QED
        BY <2>2, <3>1, <4>1 DEF Postpone, DropsAreVisible
    <3>2. CASE ~QueueFull
      <4>1. /\ dropped' = dropped /\ postponed' = Append(postponed, o)
            /\ Len(postponed') \in Nat
        BY <2>1, <2>2, <3>2 DEF Postpone, IInv, TypeOK
      <4>2. maxPostponedSize' >= maxPostponedSize /\ maxPostponedSize' <= Capacity
        <5>1. maxPostponedSize \in Nat /\ maxPostponedSize <= Capacity
          BY <1>2, <2>1 DEF IInv, TypeOK
        <5>2. maxPostponedSize' = Peak(Append(postponed, o))
          BY <2>2, <3>2 DEF Postpone
        <5>3. Len(Append(postponed, o)) \in Nat
          BY <4>1
        <5>4. maxPostponedSize' <= Capacity
          BY <2>1 DEF IInv, TypeOK
        <5> QED
          BY <5>1, <5>2, <5>3, <5>4 DEF Peak
      <4> QED
        BY <1>2, <2>1, <4>1, <4>2 DEF DropsAreVisible, IInv, TypeOK
    <3> QED
      BY <3>1, <3>2
  <2>3. \/ \E o \in Op : Postpone(o)
        \/ UNCHANGED <<maxPostponedSize, dropped>>
    BY <1>2, StepCases
    DEF IInv, FirstLevelEntry, EnterFirstLevel, PostponedEntry,
        ProcessPostponed, LockTracker, Apply, WorkerConsume, vars
  <2> QED
    BY <1>2, <2>2, <2>3 DEF DropsAreVisible
<1> QED
  BY <1>1, <1>2, Invariant, PTL DEF Spec
=============================================================================
