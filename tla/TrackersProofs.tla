--------------------------- MODULE TrackersProofs ---------------------------
(***************************************************************************)
(* Proofs about Trackers, for any number of threads and blocks.            *)
(*                                                                         *)
(* The invariants rest on each other in this order: types, then CallInv    *)
(* (which blocks are inside a hook), RegistryInv (who owns which tracker), *)
(* ExactlyOnce, and WalkInv (what the worker's walk has already taken).    *)
(***************************************************************************)
EXTENDS Trackers, SequenceTheorems, TLAPS

\* A block inside a hook is in the request of exactly one thread, and its
\* state says which half of the request it is.
CallInv ==
  /\ \A t \in Threads : \A b \in Blocks :
       /\ b \in call[t].alloc => blk[b] = "allocating"
       /\ b \in call[t].free => blk[b] = "freeing"
  /\ \A t, u \in Threads : t # u =>
       (call[t].alloc \cup call[t].free) \cap (call[u].alloc \cup call[u].free) = {}

\* What a thread's stage of life says about its tracker, and that every
\* tracker in use has been created.
RegistryInv ==
  /\ \A t \in Threads :
       /\ life[t] = "run" => gtl_tracker[t] = finalizer[t]
       /\ life[t] \in {"reclaim", "locked"} => finalizer[t] # NoTracker
       /\ life[t] \in {"reclaim", "locked", "exiting"} =>
            gtl_tracker[t] = ExitingThreadsTracker
       /\ life[t] \in {"exiting", "dead"} => finalizer[t] = NoTracker
       /\ life[t] = "dead" => gtl_tracker[t] \notin TrackerId
       /\ call[t] # NoRequest => life[t] \in {"run", "locked", "exiting"}
       /\ finalizer[t] # NoTracker => finalizer[t] < thTrackers
  /\ \A i \in 1 .. Len(finished) : finished[i] < thTrackers

\* A tracker the walk has passed holds nothing that was tracked before the
\* walk began.
Visited(k) ==
  \/ wpc = "print"
  \/ wpc = "consume" /\ k \in TrackerId /\ k < wi
  \/ wpc = "account" /\ k \in TrackerId /\ k <= wi
  \/ wpc = "account" /\ wi = thTrackers

Walking == wpc \in {"consume", "account", "print"}

WalkInv ==
  /\ wi <= thTrackers
  /\ \A k \in TrackerId : k >= thTrackers => diff[k] = {}
  /\ passStart \subseteq Tracked
  /\ Walking => flushed \subseteq passStart
  /\ ~Walking => passStart \subseteq flushed
  /\ \A k \in Tracker : Visited(k) => diff[k] \cap passStart = {}
  /\ \A b \in Blocks : Free(b) \in passStart => Alloc(b) \in passStart

-----------------------------------------------------------------------------
(* What a step is.                                                         *)

\* Every step is one of the actions, or changes nothing.
LEMMA NextCases ==
  ASSUME [Next]_vars
  PROVE  \/ \E t \in Threads, req \in Request : BeginCall(t, req)
         \/ \E t \in Threads : RegisterThread(t)
         \/ \E t \in Threads : Track(t)
         \/ \E t \in Threads : ThreadExit(t)
         \/ \E t \in Threads : ReclaimLock(t)
         \/ \E t \in Threads : ReclaimTracker(t)
         \/ \E t \in Threads : ThreadEnd(t)
         \/ WorkerCheck
         \/ WorkerLock
         \/ WorkerWake
         \/ WorkerUpdateData
         \/ ConsumeDiff
         \/ WorkerAccountThreadTracker
         \/ WorkerPrintData
         \/ DeinitMemhawk
         \/ Stop
         \/ Join
         \/ UNCHANGED vars
<1>1. CASE \E t \in Threads : ThreadStep(t)
  <2>1. PICK t \in Threads : ThreadStep(t)
    BY <1>1
  <2>2. ASSUME NEW b \in Blocks, NEW c \in Blocks
        PROVE  /\ [free |-> {}, alloc |-> {b}] \in Request
               /\ [free |-> {b}, alloc |-> {}] \in Request
               /\ [free |-> {b}, alloc |-> {c}] \in Request
    BY DEF Request
  <2> QED
    BY <2>1, <2>2 DEF ThreadStep, Malloc, Dealloc, Realloc
<1>2. CASE WorkerStep
  BY <1>2 DEF WorkerStep
<1> QED
  BY <1>1, <1>2 DEF Next

-----------------------------------------------------------------------------
(* Types.                                                                  *)

LEMMA InitType == Init => TypeOK
<1> SUFFICES ASSUME Init
             PROVE  TypeOK
  OBVIOUS
<1>1. <<>> \in Seq(TrackerId)
  OBVIOUS
<1>2. NoRequest \in Request
  BY DEF NoRequest, Request
<1>3. /\ blk \in [Blocks -> BlockState]
      /\ call \in [Threads -> Request]
      /\ gtl_tracker \in [Threads -> Tracker \cup {NoTracker}]
      /\ finalizer \in [Threads -> TrackerId \cup {NoTracker}]
      /\ life \in [Threads -> LifeState]
      /\ diff \in [Tracker -> SUBSET Op]
  BY <1>2 DEF Init, BlockState, LifeState
<1>4. /\ thTrackers \in 0 .. MaxTrackers
      /\ wi \in 0 .. MaxTrackers
      /\ finished \in Seq(TrackerId)
  BY <1>1, MaxTrackersAssumption DEF Init
<1> QED
  BY <1>3, <1>4 DEF Init, TypeOK

LEMMA NextType == TypeOK /\ RegistryInv /\ [Next]_vars => TypeOK'
<1> SUFFICES ASSUME TypeOK, RegistryInv, [Next]_vars
             PROVE  TypeOK'
  OBVIOUS
<1> USE MaxTrackersAssumption, SpecialTrackersAssumption
<1>1. CASE \E t \in Threads, req \in Request : BeginCall(t, req)
  BY <1>1 DEF TypeOK, BeginCall, BlockState, registryVars, workerVars, stopVars
<1>2. CASE \E t \in Threads : RegisterThread(t)
  <2>1. PICK t \in Threads : RegisterThread(t)
    BY <1>2
  <2>2. CASE finished # <<>>
    <3>1. /\ finished[Len(finished)] \in TrackerId
          /\ PopFinished \in Seq(TrackerId)
      BY <2>2 DEF TypeOK, PopFinished
    <3>2. /\ gtl_tracker' = [gtl_tracker EXCEPT ![t] = finished[Len(finished)]]
          /\ finalizer' = [finalizer EXCEPT ![t] = finished[Len(finished)]]
          /\ finished' = PopFinished
          /\ UNCHANGED <<thTrackers, blk, call, life, workerVars, stopVars, diff>>
      BY <2>1, <2>2 DEF RegisterThread, SetUpThreadTracker
    <3>3. /\ gtl_tracker' \in [Threads -> Tracker \cup {NoTracker}]
          /\ finalizer' \in [Threads -> TrackerId \cup {NoTracker}]
      BY <3>1, <3>2 DEF TypeOK, Tracker
    <3> QED
      BY <3>1, <3>2, <3>3 DEF TypeOK, workerVars, stopVars
  <2>3. CASE finished = <<>>
    <3>1. /\ thTrackers < MaxTrackers /\ thTrackers' = thTrackers + 1
          /\ gtl_tracker' = [gtl_tracker EXCEPT ![t] = thTrackers]
          /\ finalizer' = [finalizer EXCEPT ![t] = thTrackers]
          /\ UNCHANGED <<finished, blk, call, life, workerVars, stopVars, diff>>
      BY <2>1, <2>3 DEF RegisterThread, SetUpThreadTracker
    <3>2. thTrackers \in TrackerId /\ thTrackers' \in 0 .. MaxTrackers
      BY <3>1 DEF TypeOK, TrackerId
    <3>3. /\ gtl_tracker' \in [Threads -> Tracker \cup {NoTracker}]
          /\ finalizer' \in [Threads -> TrackerId \cup {NoTracker}]
      BY <3>1, <3>2 DEF TypeOK, Tracker
    <3> QED
      BY <3>1, <3>2, <3>3 DEF TypeOK, workerVars, stopVars
  <2> QED
    BY <2>2, <2>3
<1>3. CASE \E t \in Threads : Track(t)
  BY <1>3
  DEF TypeOK, Track, BlockState, Request, NoRequest, OpsOf, registryVars,
      workerVars, stopVars
<1>4. CASE \E t \in Threads : ThreadExit(t)
  BY <1>4
  DEF TypeOK, ThreadExit, RedirectedTo, LifeState, Tracker, registryVars,
      workerVars, stopVars
<1>5. CASE \E t \in Threads : ReclaimLock(t)
  BY <1>5 DEF TypeOK, ReclaimLock, LifeState, registryVars, workerVars, stopVars
<1>6. CASE \E t \in Threads : ReclaimTracker(t)
  <2>1. PICK t \in Threads : ReclaimTracker(t)
    BY <1>6
  <2>2. finalizer[t] \in TrackerId
    BY <2>1 DEF TypeOK, RegistryInv, ReclaimTracker
  <2>3. PushFinished(finalizer[t]) \in Seq(TrackerId)
    BY <2>2 DEF TypeOK, PushFinished
  <2> QED
    BY <2>1, <2>3 DEF TypeOK, ReclaimTracker, LifeState, workerVars, stopVars
<1>7. CASE \E t \in Threads : ThreadEnd(t)
  BY <1>7 DEF TypeOK, ThreadEnd, LifeState, registryVars, workerVars, stopVars
<1>8. CASE WorkerCheck \/ WorkerLock \/ WorkerWake
  BY <1>8
  DEF TypeOK, WorkerCheck, WorkerLock, WorkerWake, threadVars, registryVars, stopVars
<1>9. CASE WorkerUpdateData
  BY <1>9
  DEF TypeOK, WorkerUpdateData, Tracked, threadVars, registryVars, stopVars
<1>10. CASE ConsumeDiff
  <2>1. WalkTracker(wi) \in Tracker
    BY DEF TypeOK, WalkTracker, Tracker, TrackerId
  <2> QED
    BY <1>10, <2>1
    DEF TypeOK, ConsumeDiff, DiffAfterConsume, threadVars, registryVars, stopVars
<1>11. CASE WorkerAccountThreadTracker
  BY <1>11
  DEF TypeOK, WorkerAccountThreadTracker, LastPosition, threadVars,
      registryVars, stopVars
<1>12. CASE WorkerPrintData
  BY <1>12
  DEF TypeOK, WorkerPrintData, Report, threadVars, registryVars, stopVars
<1>13. CASE DeinitMemhawk
  BY <1>13
  DEF TypeOK, DeinitMemhawk, Tracked, threadVars, registryVars, workerVars
<1>14. CASE Stop \/ Join
  BY <1>14 DEF TypeOK, Stop, Join, threadVars, registryVars, workerVars
<1>15. CASE UNCHANGED vars
  BY <1>15
  DEF TypeOK, vars, threadVars, registryVars, workerVars, stopVars
<1> QED
  BY NextCases, <1>1, <1>2, <1>3, <1>4, <1>5, <1>6, <1>7, <1>8, <1>9, <1>10,
     <1>11, <1>12, <1>13, <1>14, <1>15

-----------------------------------------------------------------------------
(* The registry of trackers.                                               *)

\* pop_back removes the last element and keeps the others.
LEMMA FrontOfSequence ==
  ASSUME NEW S, NEW s \in Seq(S), Len(s) \in Nat \ {0}
  PROVE  /\ SubSeq(s, 1, Len(s) - 1) \in Seq(S)
         /\ Len(SubSeq(s, 1, Len(s) - 1)) = Len(s) - 1
         /\ \A i \in 1 .. Len(s) - 1 : SubSeq(s, 1, Len(s) - 1)[i] = s[i]
<1> DEFINE n == Len(s) - 1
<1>1. n \in Nat /\ \A i \in 1 .. n : s[i] \in S
  OBVIOUS
<1> HIDE DEF n
<1>2. /\ SubSeq(s, 1, n) \in Seq(S)
      /\ Len(SubSeq(s, 1, n)) = IF 1 <= n THEN n - 1 + 1 ELSE 0
      /\ \A i \in 1 .. n - 1 + 1 : SubSeq(s, 1, n)[i] = s[1 + i - 1]
  BY <1>1, SubSeqProperties
<1>3. /\ SubSeq(s, 1, n) \in Seq(S)
      /\ Len(SubSeq(s, 1, n)) = n
      /\ \A i \in 1 .. n : SubSeq(s, 1, n)[i] = s[i]
  BY <1>1, <1>2
<1> QED
  BY <1>3 DEF n

LEMMA InitRegistry == Init => RegistryInv /\ OneOwner /\ NoTrackerForgotten
<1> SUFFICES ASSUME Init
             PROVE  RegistryInv /\ OneOwner /\ NoTrackerForgotten
  OBVIOUS
<1>1. Len(finished) = 0
  BY DEF Init
<1>2. NoTracker \notin TrackerId
  BY SpecialTrackersAssumption, MaxTrackersAssumption DEF TrackerId
<1> QED
  BY <1>1, <1>2 DEF Init, RegistryInv, OneOwner, NoTrackerForgotten

\* Steps that leave the registry alone.
LEMMA RegistryFrame ==
  ASSUME [Next]_vars
  PROVE  \/ \E t \in Threads, req \in Request : BeginCall(t, req)
         \/ \E t \in Threads : RegisterThread(t)
         \/ \E t \in Threads : Track(t)
         \/ \E t \in Threads : ThreadExit(t)
         \/ \E t \in Threads : ReclaimLock(t)
         \/ \E t \in Threads : ReclaimTracker(t)
         \/ \E t \in Threads : ThreadEnd(t)
         \/ UNCHANGED <<call, gtl_tracker, finalizer, life, thTrackers, finished>>
BY NextCases
DEF WorkerCheck, WorkerLock, WorkerWake, WorkerUpdateData, ConsumeDiff,
    WorkerAccountThreadTracker, WorkerPrintData, DeinitMemhawk, Stop, Join,
    vars, threadVars, registryVars, workerVars, stopVars

LEMMA NextRegistry ==
  TypeOK /\ RegistryInv /\ OneOwner /\ [Next]_vars => RegistryInv' /\ OneOwner'
<1> SUFFICES ASSUME TypeOK, RegistryInv, OneOwner, [Next]_vars
             PROVE  RegistryInv' /\ OneOwner'
  OBVIOUS
<1>0. /\ NoTracker \notin TrackerId
      /\ ExitingThreadsTracker \notin TrackerId
      /\ NoTracker # ExitingThreadsTracker
      /\ TrackerId \subseteq Int
  BY SpecialTrackersAssumption, MaxTrackersAssumption DEF TrackerId
<1>1. CASE \E t \in Threads, req \in Request : BeginCall(t, req)
  BY <1>1 DEF TypeOK, RegistryInv, OneOwner, BeginCall, registryVars
<1>2. CASE \E t \in Threads : RegisterThread(t)
  <2>1. PICK t \in Threads : RegisterThread(t)
    BY <1>2
  <2>2. /\ life[t] = "run"
        /\ finalizer[t] = NoTracker
    BY <1>0, <2>1 DEF RegistryInv, RegisterThread
  <2>3. CASE finished # <<>>
    <3> DEFINE n == Len(finished)
               k == finished[n]
    <3>1. /\ n \in 1 .. n
          /\ k \in TrackerId
          /\ k < thTrackers
      BY <2>3 DEF TypeOK, RegistryInv
    <3>2. /\ finished' = PopFinished
          /\ Len(PopFinished) = n - 1
          /\ \A i \in 1 .. n - 1 : PopFinished[i] = finished[i]
      <4>1. finished' = PopFinished
        BY <2>1, <2>3 DEF RegisterThread
      <4>2. n \in Nat \ {0} /\ finished \in Seq(TrackerId)
        BY <3>1 DEF TypeOK
      <4>3. /\ Len(PopFinished) = n - 1
            /\ \A i \in 1 .. n - 1 : PopFinished[i] = finished[i]
        BY <4>2, FrontOfSequence DEF PopFinished
      <4> QED
        BY <4>1, <4>3
    <3>3. /\ gtl_tracker' = [gtl_tracker EXCEPT ![t] = k]
          /\ finalizer' = [finalizer EXCEPT ![t] = k]
          /\ UNCHANGED <<call, life, thTrackers>>
      BY <2>1, <2>3 DEF RegisterThread, SetUpThreadTracker
    <3>4. \A i \in 1 .. n - 1 : finished[i] # k
      BY <3>1 DEF OneOwner
    <3>5. \A u \in Threads : finalizer[u] # k
      BY <3>1 DEF OneOwner
    <3> HIDE DEF n, k
    <3>6. RegistryInv'
      BY <1>0, <2>2, <3>1, <3>2, <3>3 DEF TypeOK, RegistryInv, n
    <3>7. OneOwner'
      BY <1>0, <2>2, <3>1, <3>2, <3>3, <3>4, <3>5 DEF TypeOK, OneOwner, n
    <3> QED
      BY <3>6, <3>7
  <2>4. CASE finished = <<>>
    <3>1. /\ gtl_tracker' = [gtl_tracker EXCEPT ![t] = thTrackers]
          /\ finalizer' = [finalizer EXCEPT ![t] = thTrackers]
          /\ thTrackers' = thTrackers + 1
          /\ thTrackers \in TrackerId
          /\ UNCHANGED <<call, life, finished>>
      BY <2>1, <2>4, MaxTrackersAssumption
      DEF TypeOK, RegisterThread, SetUpThreadTracker, TrackerId
    <3>2. Len(finished) = 0
      BY <2>4
    <3>3. \A u \in Threads : finalizer[u] # thTrackers
      BY <1>0, <3>1 DEF TypeOK, RegistryInv
    <3>4. RegistryInv'
      <4>1. thTrackers \in Int /\ thTrackers < thTrackers'
        BY <3>1 DEF TypeOK
      <4>2. ASSUME NEW u \in Threads, finalizer'[u] # NoTracker
            PROVE  finalizer'[u] < thTrackers'
        <5>1. CASE u = t
          BY <3>1, <4>1, <5>1 DEF TypeOK
        <5>2. CASE u # t
          <6>1. finalizer'[u] = finalizer[u] /\ finalizer[u] \in TrackerId
            BY <3>1, <4>2, <5>2 DEF TypeOK
          <6>2. finalizer[u] < thTrackers /\ finalizer[u] \in Int
            BY <1>0, <6>1 DEF RegistryInv
          <6> QED
            BY <3>1, <4>1, <6>1, <6>2
        <5> QED
          BY <5>1, <5>2
      <4> QED
        BY <1>0, <2>2, <3>1, <3>2, <4>2 DEF TypeOK, RegistryInv
    <3>5. OneOwner'
      BY <1>0, <2>2, <3>1, <3>2, <3>3 DEF TypeOK, OneOwner
    <3> QED
      BY <3>4, <3>5
  <2> QED
    BY <2>3, <2>4
<1>3. CASE \E t \in Threads : Track(t)
  BY <1>3 DEF TypeOK, RegistryInv, OneOwner, Track, registryVars
<1>4. CASE \E t \in Threads : ThreadExit(t)
  BY <1>0, <1>4
  DEF TypeOK, RegistryInv, OneOwner, ThreadExit, RedirectedTo, registryVars
<1>5. CASE \E t \in Threads : ReclaimLock(t)
  BY <1>0, <1>5 DEF TypeOK, RegistryInv, OneOwner, ReclaimLock, registryVars
<1>6. CASE \E t \in Threads : ReclaimTracker(t)
  <2>1. PICK t \in Threads : ReclaimTracker(t)
    BY <1>6
  <2> DEFINE n == Len(finished)
             k == finalizer[t]
  <2>2. /\ k \in TrackerId
        /\ k < thTrackers
        /\ gtl_tracker[t] = ExitingThreadsTracker
    BY <2>1 DEF TypeOK, RegistryInv, ReclaimTracker
  <2>3. /\ finished' = Append(finished, k)
        /\ n \in Nat
        /\ Len(finished') = n + 1
        /\ \A i \in 1 .. n : finished'[i] = finished[i]
        /\ finished'[n + 1] = k
    BY <2>1, <2>2 DEF TypeOK, ReclaimTracker, PushFinished
  <2>4. /\ finalizer' = [finalizer EXCEPT ![t] = NoTracker]
        /\ life' = [life EXCEPT ![t] = "exiting"]
        /\ call[t] = NoRequest
        /\ UNCHANGED <<call, gtl_tracker, thTrackers>>
    BY <2>1 DEF ReclaimTracker
  <2>5. /\ \A i \in 1 .. n : finished[i] # k
        /\ \A u \in Threads : u # t => finalizer[u] # k
    BY <1>0, <2>2 DEF OneOwner
  <2>6. \A i \in 1 .. n : finished[i] \in TrackerId
    BY DEF TypeOK
  <2> HIDE DEF n, k
  <2>7. RegistryInv'
    BY <1>0, <2>2, <2>3, <2>4 DEF TypeOK, RegistryInv, n
  <2>8. OneOwner'
    BY <1>0, <2>2, <2>3, <2>4, <2>5, <2>6 DEF TypeOK, OneOwner, n
  <2> QED
    BY <2>7, <2>8
<1>7. CASE \E t \in Threads : ThreadEnd(t)
  BY <1>0, <1>7 DEF TypeOK, RegistryInv, OneOwner, ThreadEnd, registryVars
<1>8. CASE UNCHANGED <<call, gtl_tracker, finalizer, life, thTrackers, finished>>
  BY <1>8 DEF RegistryInv, OneOwner
<1> QED
  BY RegistryFrame, <1>1, <1>2, <1>3, <1>4, <1>5, <1>6, <1>7, <1>8

\* The state of MemHawk is always of the declared shape: in particular every
\* tracker id in the pool, in a finalizer or in gtl_tracker is one that the
\* worker's walk can index, whatever the number of threads.
THEOREM TypeCorrect == Spec => []TypeOK
<1>1. Init => TypeOK /\ RegistryInv /\ OneOwner
  BY InitType, InitRegistry
<1>2. TypeOK /\ RegistryInv /\ OneOwner /\ [Next]_vars
        => (TypeOK /\ RegistryInv /\ OneOwner)'
  BY NextType, NextRegistry
<1> QED
  BY <1>1, <1>2, PTL DEF Spec

LEMMA NextNoTrackerForgotten ==
  TypeOK /\ RegistryInv /\ NoTrackerForgotten /\ [Next]_vars => NoTrackerForgotten'
<1> SUFFICES ASSUME TypeOK, RegistryInv, NoTrackerForgotten, [Next]_vars,
                    NEW k \in 0 .. thTrackers' - 1
             PROVE  \/ \E t \in Threads : finalizer'[t] = k
                    \/ \E i \in 1 .. Len(finished') : finished'[i] = k
  BY DEF NoTrackerForgotten
<1>0. NoTracker \notin Int
  BY SpecialTrackersAssumption
<1>1. CASE \E t \in Threads : RegisterThread(t)
  <2>1. PICK t \in Threads : RegisterThread(t)
    BY <1>1
  <2>2. finalizer[t] = NoTracker
    BY <2>1, SpecialTrackersAssumption DEF RegistryInv, RegisterThread
  <2>3. CASE finished # <<>>
    <3> DEFINE n == Len(finished)
    <3>1. n \in Nat \ {0} /\ finished \in Seq(TrackerId)
      BY <2>3 DEF TypeOK
    <3>2. /\ Len(finished') = n - 1
          /\ \A i \in 1 .. n - 1 : finished'[i] = finished[i]
      BY <2>1, <2>3, <3>1, FrontOfSequence DEF RegisterThread, PopFinished
    <3>3. /\ finalizer'[t] = finished[n]
          /\ \A u \in Threads : u # t => finalizer'[u] = finalizer[u]
          /\ thTrackers' = thTrackers
      BY <2>1, <2>3 DEF TypeOK, RegisterThread, SetUpThreadTracker
    <3>4. CASE \E u \in Threads : finalizer[u] = k
      BY <1>0, <2>2, <3>3, <3>4 DEF TypeOK
    <3>5. CASE \E i \in 1 .. n : finished[i] = k
      <4>1. PICK i \in 1 .. n : finished[i] = k
        BY <3>5
      <4>2. CASE i = n
        BY <3>3, <4>1, <4>2
      <4>3. CASE i \in 1 .. n - 1
        BY <3>2, <4>1, <4>3
      <4> QED
        BY <3>1, <4>2, <4>3
    <3> QED
      BY <3>3, <3>4, <3>5 DEF NoTrackerForgotten
  <2>4. CASE finished = <<>>
    <3>1. /\ finalizer'[t] = thTrackers
          /\ \A u \in Threads : u # t => finalizer'[u] = finalizer[u]
          /\ thTrackers' = thTrackers + 1
          /\ Len(finished) = 0
          /\ thTrackers \in Int
      BY <2>1, <2>4 DEF TypeOK, RegisterThread, SetUpThreadTracker
    <3>2. CASE k = thTrackers
      BY <3>1, <3>2
    <3>3. CASE k \in 0 .. thTrackers - 1
      BY <1>0, <2>2, <3>1, <3>3 DEF NoTrackerForgotten
    <3> QED
      BY <3>1, <3>2, <3>3
  <2> QED
    BY <2>3, <2>4
<1>2. CASE \E t \in Threads : ReclaimTracker(t)
  <2>1. PICK t \in Threads : ReclaimTracker(t)
    BY <1>2
  <2> DEFINE n == Len(finished)
  <2>2. finalizer[t] \in TrackerId
    BY <2>1 DEF TypeOK, RegistryInv, ReclaimTracker
  <2>3. /\ n \in Nat
        /\ Len(finished') = n + 1
        /\ \A i \in 1 .. n : finished'[i] = finished[i]
        /\ finished'[n + 1] = finalizer[t]
        /\ \A u \in Threads : u # t => finalizer'[u] = finalizer[u]
        /\ thTrackers' = thTrackers
    BY <2>1, <2>2 DEF TypeOK, ReclaimTracker, PushFinished
  <2> HIDE DEF n
  <2>4. CASE \E u \in Threads : finalizer[u] = k
    BY <2>3, <2>4
  <2>5. CASE \E i \in 1 .. n : finished[i] = k
    BY <2>3, <2>5
  <2> QED
    BY <2>3, <2>4, <2>5 DEF NoTrackerForgotten, n
<1>3. CASE UNCHANGED <<finalizer, thTrackers, finished>>
  BY <1>3 DEF NoTrackerForgotten
<1> QED
  BY RegistryFrame, <1>1, <1>2, <1>3
  DEF BeginCall, Track, ThreadExit, ReclaimLock, ThreadEnd, registryVars

\* The registry keeps its promises for any number of threads coming and
\* going: a tracker has one owner, and none is forgotten.
THEOREM RegistryCorrect == Spec => []RegistryInOrder
<1> DEFINE Inv == TypeOK /\ RegistryInv /\ OneOwner /\ NoTrackerForgotten
<1>1. Init => Inv
  BY InitType, InitRegistry
<1>2. Inv /\ [Next]_vars => Inv'
  BY NextType, NextRegistry, NextNoTrackerForgotten
<1>3. Inv => RegistryInOrder
  BY DEF RegistryInOrder
<1> QED
  BY <1>1, <1>2, <1>3, PTL DEF Spec

-----------------------------------------------------------------------------
(* Blocks inside hooks, and the operations they stand for.                 *)

\* Only the hooks change the state of a block.
LEMMA BlockFrame ==
  ASSUME [Next]_vars
  PROVE  \/ \E t \in Threads, req \in Request : BeginCall(t, req)
         \/ \E t \in Threads : Track(t)
         \/ UNCHANGED <<blk, call>>
BY NextCases
DEF RegisterThread, ThreadExit, ReclaimLock, ReclaimTracker, ThreadEnd,
    WorkerCheck, WorkerLock, WorkerWake, WorkerUpdateData, ConsumeDiff,
    WorkerAccountThreadTracker, WorkerPrintData, DeinitMemhawk, Stop, Join,
    vars, threadVars, registryVars, workerVars, stopVars

LEMMA InitCall == Init => CallInv
BY DEF Init, CallInv, NoRequest

LEMMA NextCall == TypeOK /\ CallInv /\ [Next]_vars => CallInv'
<1> SUFFICES ASSUME TypeOK, CallInv, [Next]_vars
             PROVE  CallInv'
  OBVIOUS
<1>1. CASE \E t \in Threads, req \in Request : BeginCall(t, req)
  <2>1. PICK t \in Threads, req \in Request : BeginCall(t, req)
    BY <1>1
  <2>2. /\ call' = [call EXCEPT ![t] = req]
        /\ call[t] = NoRequest
        /\ req.free \subseteq Blocks
        /\ req.alloc \subseteq Blocks
        /\ \A b \in req.free : blk[b] = "live"
        /\ \A b \in req.alloc : blk[b] = "fresh"
        /\ \A b \in Blocks :
             blk'[b] = IF b \in req.free THEN "freeing"
                       ELSE IF b \in req.alloc THEN "allocating"
                       ELSE blk[b]
    BY <2>1 DEF BeginCall, Request
  <2>3. \A u \in Threads : \A b \in Blocks :
          b \in call[u].alloc \cup call[u].free => b \notin req.free \cup req.alloc
    BY <2>2 DEF CallInv
  <2>4. \A u \in Threads : call[u].alloc \cup call[u].free \subseteq Blocks
    BY DEF TypeOK, Request
  <2>5. \A u \in Threads : call'[u] = IF u = t THEN req ELSE call[u]
    BY <2>2 DEF TypeOK
  <2>6. ASSUME NEW u \in Threads, NEW b \in Blocks
        PROVE  /\ b \in call'[u].alloc => blk'[b] = "allocating"
               /\ b \in call'[u].free => blk'[b] = "freeing"
    BY <2>2, <2>3, <2>5 DEF CallInv
  <2>7. ASSUME NEW u \in Threads, NEW v \in Threads, u # v
        PROVE  (call'[u].alloc \cup call'[u].free)
                 \cap (call'[v].alloc \cup call'[v].free) = {}
    BY <2>2, <2>3, <2>4, <2>5, <2>7 DEF CallInv
  <2> QED
    BY <2>6, <2>7 DEF CallInv
<1>2. CASE \E t \in Threads : Track(t)
  <2>1. PICK t \in Threads : Track(t)
    BY <1>2
  <2>2. \A u \in Threads : call'[u] = IF u = t THEN NoRequest ELSE call[u]
    BY <2>1 DEF TypeOK, Track
  <2>3. NoRequest.alloc = {} /\ NoRequest.free = {}
    BY DEF NoRequest
  <2>4. \A b \in Blocks :
          blk'[b] = blk[b] \/ b \in call[t].free \cup call[t].alloc
    BY <2>1 DEF Track
  <2> QED
    BY <2>2, <2>3, <2>4 DEF CallInv
<1>3. CASE UNCHANGED <<blk, call>>
  BY <1>3 DEF CallInv
<1> QED
  BY BlockFrame, <1>1, <1>2, <1>3

\* Entering a hook tracks nothing.
LEMMA BeginCallTracks ==
  ASSUME TypeOK, NEW t \in Threads, NEW req \in Request, BeginCall(t, req)
  PROVE  Tracked' = Tracked
<1>1. ASSUME NEW o \in Op
      PROVE  o \in Tracked' <=> o \in Tracked
  <2>1. o[2] \in Blocks
    BY DEF Op
  <2>2. /\ blk'[o[2]] = IF o[2] \in req.free THEN "freeing"
                        ELSE IF o[2] \in req.alloc THEN "allocating"
                        ELSE blk[o[2]]
        /\ o[2] \in req.free => blk[o[2]] = "live"
        /\ o[2] \in req.alloc => blk[o[2]] = "fresh"
    BY <2>1 DEF BeginCall
  <2> QED
    BY <2>2 DEF Tracked
<1> QED
  BY <1>1 DEF Tracked

\* The call tracks its own operations, none of which was tracked before.
LEMMA TrackTracks ==
  ASSUME TypeOK, CallInv, NEW t \in Threads, Track(t)
  PROVE  /\ Tracked' = Tracked \cup OpsOf(call[t])
         /\ OpsOf(call[t]) \cap Tracked = {}
<1>1. ASSUME NEW o \in Op
      PROVE  /\ o \in Tracked' <=> o \in Tracked \/ o \in OpsOf(call[t])
             /\ ~(o \in OpsOf(call[t]) /\ o \in Tracked)
  <2>1. o[2] \in Blocks /\ o[1] \in {"Alloc", "Free"}
    BY DEF Op
  <2>2. /\ blk'[o[2]] = IF o[2] \in call[t].free THEN "freed"
                        ELSE IF o[2] \in call[t].alloc THEN "live"
                        ELSE blk[o[2]]
        /\ o[2] \in call[t].free => blk[o[2]] = "freeing"
        /\ o[2] \in call[t].alloc => blk[o[2]] = "allocating"
    BY <2>1 DEF Track, CallInv
  <2> QED
    BY <2>1, <2>2 DEF Tracked, OpsOf
<1>2. Tracked \subseteq Op /\ Tracked' \subseteq Op /\ OpsOf(call[t]) \subseteq Op
  BY DEF Tracked, OpsOf
<1> QED
  BY <1>1, <1>2

-----------------------------------------------------------------------------
(* Exactly once.                                                           *)

\* The induction needs that the worker's storage is empty when it consumes.
LocalInv == local # {} => wpc = "account"

\* Only Track, ConsumeDiff, WorkerAccountThreadTracker and WorkerPrintData
\* move operations.
LEMMA PlaceFrame ==
  ASSUME [Next]_vars
  PROVE  \/ \E t \in Threads : Track(t)
         \/ ConsumeDiff
         \/ WorkerAccountThreadTracker
         \/ WorkerPrintData
         \/ /\ UNCHANGED <<diff, local, accounted, flushed, prevFlushed>>
            /\ wpc' = wpc \/ local = {} \/ wpc # "account"
            /\ \/ \E t \in Threads, req \in Request : BeginCall(t, req)
               \/ UNCHANGED blk
BY NextCases
DEF BeginCall, RegisterThread, ThreadExit, ReclaimLock, ReclaimTracker,
    ThreadEnd, WorkerCheck, WorkerLock, WorkerWake, WorkerUpdateData,
    DeinitMemhawk, Stop, Join, vars, threadVars, registryVars, workerVars,
    stopVars

LEMMA InitExactlyOnce == Init => ExactlyOnce /\ LocalInv
<1> SUFFICES ASSUME Init
             PROVE  ExactlyOnce /\ LocalInv
  OBVIOUS
<1>1. Tracked = {}
  <2>1. ASSUME NEW o \in Op
        PROVE  blk[o[2]] = "fresh"
    BY DEF Init, Op
  <2> QED
    BY <2>1 DEF Tracked
<1> QED
  BY <1>1 DEF Init, ExactlyOnce, LocalInv

LEMMA NextExactlyOnce ==
  TypeOK /\ CallInv /\ ExactlyOnce /\ LocalInv /\ [Next]_vars
    => ExactlyOnce' /\ LocalInv'
<1> SUFFICES ASSUME TypeOK, CallInv, ExactlyOnce, LocalInv, [Next]_vars
             PROVE  ExactlyOnce' /\ LocalInv'
  OBVIOUS
<1>1. CASE \E t \in Threads : Track(t)
  <2>1. PICK t \in Threads : Track(t)
    BY <1>1
  <2> DEFINE g == gtl_tracker[t]
             new == OpsOf(call[t])
  <2>2. /\ g \in Tracker
        /\ \A k \in Tracker : diff'[k] = IF k = g THEN diff[k] \cup new ELSE diff[k]
        /\ UNCHANGED <<local, accounted, flushed, wpc>>
    BY <2>1 DEF TypeOK, Track, workerVars
  <2>3. Tracked' = Tracked \cup new /\ new \cap Tracked = {}
    BY <2>1, TrackTracks
  <2> HIDE DEF g, new
  <2>4. (UNION {diff'[k] : k \in Tracker}) = (UNION {diff[k] : k \in Tracker}) \cup new
    BY <2>2
  <2>5. \A k \in Tracker : diff[k] \subseteq Tracked
    BY DEF ExactlyOnce
  <2>6. local \cup accounted \cup flushed \subseteq Tracked
    BY DEF ExactlyOnce
  <2> QED
    BY <2>2, <2>3, <2>4, <2>5, <2>6 DEF ExactlyOnce, LocalInv
<1>2. CASE ConsumeDiff
  <2> DEFINE w == WalkTracker(wi)
  <2>1. w \in Tracker
    BY MaxTrackersAssumption DEF TypeOK, WalkTracker, Tracker, TrackerId
  <2>2. /\ local = {}
        /\ local' = diff[w]
        /\ wpc' = "account"
        /\ \A k \in Tracker : diff'[k] = IF k = w THEN {} ELSE diff[k]
        /\ UNCHANGED <<accounted, flushed, blk>>
    BY <1>2, <2>1 DEF TypeOK, LocalInv, ConsumeDiff, DiffAfterConsume, threadVars
  <2>3. Tracked' = Tracked
    BY <2>2 DEF Tracked
  <2> HIDE DEF w
  <2>4. (UNION {diff[k] : k \in Tracker})
          = (UNION {diff'[k] : k \in Tracker}) \cup local'
    BY <2>1, <2>2
  <2> QED
    BY <2>1, <2>2, <2>3, <2>4 DEF ExactlyOnce, LocalInv
<1>3. CASE WorkerAccountThreadTracker
  <2>1. /\ accounted' = accounted \cup local
        /\ local' = {}
        /\ UNCHANGED <<diff, flushed, blk>>
    BY <1>3 DEF WorkerAccountThreadTracker, threadVars
  <2>2. Tracked' = Tracked
    BY <2>1 DEF Tracked
  <2> QED
    BY <2>1, <2>2 DEF ExactlyOnce, LocalInv
<1>4. CASE WorkerPrintData
  <2>1. /\ flushed' = flushed \cup accounted
        /\ accounted' = {}
        /\ wpc = "print"
        /\ UNCHANGED <<diff, local, blk>>
    BY <1>4 DEF WorkerPrintData, Report, threadVars
  <2>2. Tracked' = Tracked
    BY <2>1 DEF Tracked
  <2> QED
    BY <2>1, <2>2 DEF ExactlyOnce, LocalInv
<1>5. CASE /\ UNCHANGED <<diff, local, accounted, flushed>>
           /\ wpc' = wpc \/ local = {} \/ wpc # "account"
           /\ \/ \E t \in Threads, req \in Request : BeginCall(t, req)
              \/ UNCHANGED blk
  <2>1. Tracked' = Tracked
    BY <1>5, BeginCallTracks DEF Tracked
  <2> QED
    BY <1>5, <2>1 DEF ExactlyOnce, LocalInv
<1> QED
  BY PlaceFrame, <1>1, <1>2, <1>3, <1>4, <1>5

\* No tracked operation is lost or counted twice on its way from a hook to
\* the report, for any number of threads, trackers and operations.
THEOREM TrackedExactlyOnce == Spec => []ExactlyOnce
<1> DEFINE Inv == /\ TypeOK /\ RegistryInv /\ OneOwner
                  /\ CallInv /\ ExactlyOnce /\ LocalInv
<1>1. Init => Inv
  BY InitType, InitRegistry, InitCall, InitExactlyOnce
<1>2. Inv /\ [Next]_vars => Inv'
  BY NextType, NextRegistry, NextCall, NextExactlyOnce
<1>3. Inv => ExactlyOnce
  OBVIOUS
<1> QED
  BY <1>1, <1>2, <1>3, PTL DEF Spec

-----------------------------------------------------------------------------
(* The walk of the worker.                                                 *)

\* Steps that matter to the walk; the others change neither its position nor
\* what the trackers and the reports contain.
LEMMA WalkFrame ==
  ASSUME [Next]_vars
  PROVE  \/ \E t \in Threads : Track(t)
         \/ \E t \in Threads : RegisterThread(t)
         \/ WorkerUpdateData
         \/ ConsumeDiff
         \/ WorkerAccountThreadTracker
         \/ WorkerPrintData
         \/ /\ UNCHANGED <<diff, wi, thTrackers, passStart, flushed, prevFlushed>>
            /\ wpc' = wpc \/ (~Walking /\ ~Walking')
            /\ \/ \E t \in Threads, req \in Request : BeginCall(t, req)
               \/ UNCHANGED blk
BY NextCases
DEF BeginCall, ThreadExit, ReclaimLock, ReclaimTracker, ThreadEnd,
    WorkerCheck, WorkerLock, WorkerWake, DeinitMemhawk, Stop, Join, Walking,
    vars, threadVars, registryVars, workerVars, stopVars

\* A tracked deallocation is of a block whose allocation is tracked.
LEMMA TrackedClosed ==
  \A b \in Blocks : Free(b) \in Tracked => Alloc(b) \in Tracked
<1> SUFFICES ASSUME NEW b \in Blocks, Free(b) \in Tracked
             PROVE  Alloc(b) \in Tracked
  OBVIOUS
<1>1. /\ Free(b)[1] = "Free" /\ Free(b)[2] = b
      /\ Alloc(b)[1] = "Alloc" /\ Alloc(b)[2] = b
      /\ Alloc(b) \in Op
  BY DEF Free, Alloc, Op
<1>2. blk[b] = "freed"
  BY <1>1 DEF Tracked
<1> QED
  BY <1>1, <1>2 DEF Tracked

LEMMA InitWalk == Init => WalkInv /\ TornForOneReport
BY MaxTrackersAssumption
DEF Init, WalkInv, TornForOneReport, Walking, Visited, Tracker, TrackerId

LEMMA NextWalk ==
  /\ TypeOK /\ RegistryInv /\ OneOwner /\ CallInv /\ ExactlyOnce /\ LocalInv
  /\ WalkInv /\ TornForOneReport /\ [Next]_vars
  => WalkInv' /\ TornForOneReport'
<1> SUFFICES ASSUME TypeOK, RegistryInv, OneOwner, CallInv, ExactlyOnce, LocalInv,
                    WalkInv, TornForOneReport, [Next]_vars
             PROVE  WalkInv' /\ TornForOneReport'
  OBVIOUS
<1>0. /\ ExitingThreadsTracker \notin TrackerId
      /\ NoTracker \notin TrackerId
      /\ TrackerId \subseteq Int
      /\ thTrackers \in Nat /\ wi \in Nat /\ thTrackers <= MaxTrackers
      /\ MaxTrackers \in Nat
  BY MaxTrackersAssumption, SpecialTrackersAssumption DEF TypeOK, TrackerId
<1>1. CASE \E t \in Threads : Track(t)
  <2>1. PICK t \in Threads : Track(t)
    BY <1>1
  <2> DEFINE g == gtl_tracker[t]
             new == OpsOf(call[t])
  <2>2. /\ g \in Tracker
        /\ \A k \in Tracker : diff'[k] = IF k = g THEN diff[k] \cup new ELSE diff[k]
        /\ UNCHANGED <<wi, thTrackers, wpc, passStart, flushed, prevFlushed>>
    BY <2>1 DEF TypeOK, Track, workerVars, registryVars
  <2>3. Tracked' = Tracked \cup new /\ new \cap Tracked = {}
    BY <2>1, TrackTracks
  <2>4. g \in TrackerId => g < thTrackers
    BY <1>0 DEF OneOwner, RegistryInv
  <2> HIDE DEF g, new
  <2>5. \A k \in TrackerId : k >= thTrackers' => diff'[k] = {}
    BY <1>0, <2>2, <2>4 DEF WalkInv, Tracker
  <2>6. \A k \in Tracker : Visited(k)' => diff'[k] \cap passStart' = {}
    BY <2>2, <2>3 DEF WalkInv, Visited
  <2> QED
    BY <2>2, <2>3, <2>5, <2>6 DEF WalkInv, TornForOneReport, Walking
<1>2. CASE \E t \in Threads : RegisterThread(t)
  <2>1. /\ UNCHANGED <<diff, wi, wpc, passStart, flushed, prevFlushed, blk>>
        /\ wpc \notin {"consume", "account"}
        /\ thTrackers' \in {thTrackers, thTrackers + 1}
    BY <1>2 DEF RegisterThread, ThTrackersMtFree, workerVars
  <2>2. Tracked' = Tracked
    BY <2>1 DEF Tracked
  <2>3. wi' <= thTrackers' /\ thTrackers <= thTrackers'
    BY <1>0, <2>1 DEF WalkInv
  <2>4. \A k \in TrackerId : k >= thTrackers' => diff'[k] = {}
    BY <1>0, <2>1 DEF WalkInv
  <2> QED
    BY <2>1, <2>2, <2>3, <2>4 DEF WalkInv, TornForOneReport, Walking, Visited
<1>3. CASE WorkerUpdateData
  <2>1. /\ UNCHANGED <<diff, thTrackers, flushed, prevFlushed, blk>>
        /\ wpc' = "consume"
        /\ wi' = 0
        /\ passStart' = Tracked
    BY <1>3 DEF WorkerUpdateData, threadVars, registryVars
  <2>2. Tracked' = Tracked
    BY <2>1 DEF Tracked
  <2>3. flushed \subseteq Tracked
    BY DEF ExactlyOnce
  <2>4. \A k \in Tracker : ~Visited(k)'
    BY <1>0, <2>1 DEF Visited, TrackerId
  <2> QED
    BY <1>0, <2>1, <2>2, <2>3, <2>4, TrackedClosed
    DEF WalkInv, TornForOneReport, Walking
<1>4. CASE ConsumeDiff
  <2> DEFINE w == WalkTracker(wi)
  <2>1. w \in Tracker
    BY <1>0 DEF WalkInv, WalkTracker, Tracker, TrackerId
  <2>2. /\ wpc = "consume"
        /\ wpc' = "account"
        /\ \A k \in Tracker : diff'[k] = IF k = w THEN {} ELSE diff[k]
        /\ UNCHANGED <<wi, thTrackers, passStart, flushed, prevFlushed, blk>>
    BY <1>4, <2>1
    DEF TypeOK, ConsumeDiff, DiffAfterConsume, threadVars, registryVars
  <2>3. Tracked' = Tracked
    BY <2>2 DEF Tracked
  <2>4. ASSUME NEW k \in Tracker, Visited(k)'
        PROVE  diff'[k] \cap passStart = {}
    <3>1. CASE k = w
      BY <2>2, <3>1
    <3>2. CASE k # w
      <4>1. diff'[k] = diff[k]
        BY <2>2, <3>2
      <4>2. CASE k \in TrackerId /\ k < wi
        BY <2>2, <4>1, <4>2 DEF WalkInv, Visited
      <4>3. CASE k \in TrackerId /\ k >= wi
        <5>1. wi = thTrackers
          BY <1>0, <2>2, <2>4, <3>2, <4>3 DEF WalkInv, Visited, WalkTracker
        <5> QED
          BY <4>1, <4>3, <5>1 DEF WalkInv
      <4>4. CASE k = ExitingThreadsTracker
        <5>1. wi = thTrackers
          BY <1>0, <2>2, <2>4, <4>4 DEF Visited
        <5> QED
          BY <1>0, <3>2, <4>4, <5>1 DEF WalkTracker
      <4> QED
        BY <1>0, <4>2, <4>3, <4>4 DEF Tracker
    <3> QED
      BY <3>1, <3>2
  <2>5. \A k \in TrackerId : k >= thTrackers' => diff'[k] = {}
    BY <2>2 DEF WalkInv, Tracker
  <2> QED
    BY <2>2, <2>3, <2>4, <2>5 DEF WalkInv, TornForOneReport, Walking
<1>5. CASE WorkerAccountThreadTracker
  <2>1. /\ wpc = "account"
        /\ \/ wi < thTrackers /\ wi' = wi + 1 /\ wpc' = "consume"
           \/ wi = thTrackers /\ wi' = 0 /\ wpc' = "print"
        /\ UNCHANGED <<diff, thTrackers, passStart, flushed, prevFlushed, blk>>
    BY <1>0, <1>5
    DEF WalkInv, WorkerAccountThreadTracker, LastPosition, threadVars, registryVars
  <2>2. Tracked' = Tracked
    BY <2>1 DEF Tracked
  <2>3. ASSUME NEW k \in Tracker, Visited(k)'
        PROVE  Visited(k)
    <3>1. CASE wpc' = "print"
      BY <2>1, <3>1 DEF Visited
    <3>2. CASE wpc' = "consume"
      <4>1. k \in TrackerId /\ k < wi + 1 /\ k \in Int
        BY <1>0, <2>1, <2>3, <3>2 DEF Visited
      <4>2. k <= wi
        BY <1>0, <4>1
      <4> QED
        BY <2>1, <4>1, <4>2 DEF Visited
    <3> QED
      BY <2>1, <3>1, <3>2
  <2>4. wi' <= thTrackers'
    BY <1>0, <2>1
  <2> QED
    BY <2>1, <2>2, <2>3, <2>4 DEF WalkInv, TornForOneReport, Walking
<1>6. CASE WorkerPrintData
  <2>1. /\ wpc = "print"
        /\ wpc' = "check"
        /\ flushed' = flushed \cup accounted
        /\ prevFlushed' = flushed
        /\ UNCHANGED <<diff, wi, thTrackers, passStart, blk>>
    BY <1>6 DEF WorkerPrintData, Report, threadVars, registryVars
  <2>2. Tracked' = Tracked
    BY <2>1 DEF Tracked
  <2>3. local = {} /\ \A k \in Tracker : diff[k] \cap passStart = {}
    BY <2>1 DEF LocalInv, WalkInv, Visited
  <2>4. passStart \subseteq flushed'
    BY <2>1, <2>3 DEF WalkInv, ExactlyOnce
  <2>5. flushed \subseteq passStart
    BY <2>1 DEF WalkInv, Walking
  <2>6. TornForOneReport'
    BY <2>1, <2>4, <2>5 DEF TornForOneReport, WalkInv
  <2>7. WalkInv'
    BY <2>1, <2>2, <2>4 DEF WalkInv, Walking, Visited
  <2> QED
    BY <2>6, <2>7
<1>7. CASE /\ UNCHANGED <<diff, wi, thTrackers, passStart, flushed, prevFlushed>>
           /\ wpc' = wpc \/ (~Walking /\ ~Walking')
           /\ \/ \E t \in Threads, req \in Request : BeginCall(t, req)
              \/ UNCHANGED blk
  <2>1. Tracked' = Tracked
    BY <1>7, BeginCallTracks DEF Tracked
  <2>2. \A k \in Tracker : Visited(k)' => Visited(k)
    BY <1>7 DEF Visited, Walking
  <2> QED
    BY <1>7, <2>1, <2>2 DEF WalkInv, TornForOneReport, Walking
<1> QED
  BY WalkFrame, <1>1, <1>2, <1>3, <1>4, <1>5, <1>6, <1>7

\* The inductive invariant.
IInv ==
  /\ TypeOK /\ RegistryInv /\ OneOwner /\ CallInv
  /\ ExactlyOnce /\ LocalInv /\ WalkInv /\ TornForOneReport

LEMMA Inductive == Spec => []IInv
<1>1. Init => IInv
  BY InitType, InitRegistry, InitCall, InitExactlyOnce, InitWalk DEF IInv
<1>2. IInv /\ [Next]_vars => IInv'
  BY NextType, NextRegistry, NextCall, NextExactlyOnce, NextWalk DEF IInv
<1> QED
  BY <1>1, <1>2, PTL DEF Spec

\* A deallocation reported without its allocation is a matter of one report.
THEOREM ReportsTornOnce == Spec => []TornForOneReport
<1>1. IInv => TornForOneReport
  BY DEF IInv
<1> QED
  BY <1>1, Inductive, PTL

\* The trackers, the worker and its locks implement the abstract promise: each
\* report contains everything that was tracked when its walk began, and
\* nothing that did not happen.
THEOREM Refinement == Spec => ImplementsAccounting
<1>1. Init => Abstract!Init
  <2>1. ASSUME Init, NEW o \in Op
        PROVE  blk[o[2]] = "fresh"
    BY <2>1 DEF Init, Op
  <2> QED
    BY <2>1 DEF Init, Abstract!Init, Tracked
<1>2. IInv /\ [Next]_vars => [Abstract!Next]_(Abstract!vars)
  <2> SUFFICES ASSUME IInv, [Next]_vars
               PROVE  [Abstract!Next]_(Abstract!vars)
    OBVIOUS
  <2>1. CASE \E t \in Threads : Track(t)
    <3>1. PICK t \in Threads : Track(t)
      BY <2>1
    <3>2. Tracked' = Tracked \cup OpsOf(call[t])
      BY <3>1, TrackTracks DEF IInv
    <3>3. OpsOf(call[t]) \subseteq Op /\ Tracked \subseteq Op
      BY DEF OpsOf, Tracked
    <3>4. UNCHANGED <<passStart, flushed>>
      BY <3>1 DEF Track, workerVars
    <3>5. Abstract!Perform
      BY <3>2, <3>3, <3>4 DEF Abstract!Perform
    <3> QED
      BY <3>5 DEF Abstract!Next
  <2>2. CASE \E t \in Threads : RegisterThread(t)
    <3>1. UNCHANGED <<blk, passStart, flushed>>
      BY <2>2 DEF RegisterThread, workerVars
    <3> QED
      BY <3>1 DEF Abstract!vars, Tracked
  <2>3. CASE WorkerUpdateData
    <3>1. passStart' = Tracked /\ UNCHANGED <<blk, flushed>>
      BY <2>3 DEF WorkerUpdateData, threadVars
    <3>2. Abstract!TakeCut
      BY <3>1 DEF Abstract!TakeCut, Tracked
    <3> QED
      BY <3>2 DEF Abstract!Next
  <2>4. CASE ConsumeDiff \/ WorkerAccountThreadTracker
    <3>1. UNCHANGED <<blk, passStart, flushed>>
      BY <2>4 DEF ConsumeDiff, WorkerAccountThreadTracker, threadVars
    <3> QED
      BY <3>1 DEF Abstract!vars, Tracked
  <2>5. CASE WorkerPrintData
    <3>1. /\ wpc = "print"
          /\ flushed' = flushed \cup accounted
          /\ UNCHANGED <<blk, passStart>>
      BY <2>5 DEF WorkerPrintData, Report, threadVars
    <3>2. passStart \subseteq flushed'
      <4>1. local = {} /\ \A k \in Tracker : diff[k] \cap passStart = {}
        BY <3>1 DEF IInv, LocalInv, WalkInv, Visited
      <4> QED
        BY <3>1, <4>1 DEF IInv, WalkInv, ExactlyOnce
    <3>3. flushed' \subseteq Tracked
      BY <3>1 DEF IInv, ExactlyOnce
    <3>4. Abstract!Publish
      BY <3>1, <3>2, <3>3 DEF Abstract!Publish, Tracked
    <3> QED
      BY <3>4 DEF Abstract!Next
  <2>6. CASE /\ UNCHANGED <<diff, wi, thTrackers, passStart, flushed, prevFlushed>>
             /\ \/ \E t \in Threads, req \in Request : BeginCall(t, req)
                \/ UNCHANGED blk
    <3>1. Tracked' = Tracked
      BY <2>6, BeginCallTracks DEF Tracked, IInv
    <3> QED
      BY <2>6, <3>1 DEF Abstract!vars
  <2> QED
    BY WalkFrame, <2>1, <2>2, <2>3, <2>4, <2>5, <2>6
<1> QED
  BY <1>1, <1>2, Inductive, PTL DEF Spec, ImplementsAccounting, Abstract!Spec
=============================================================================
