---------------------------- MODULE OwnedGuards ----------------------------
(***************************************************************************)
(* OwnedGuards (impl/owned_guards.h), the registry behind the thread       *)
(* finalizers of MemHawk.  A callback is executed when its guard is        *)
(* destroyed (a thread exits) or when the owner drains (it is destroyed),  *)
(* whichever comes first, and the two may meet.                            *)
(*                                                                         *)
(* A callback stands for its CallbackState and for its CallbackGuard.  The *)
(* lists are represented by sets: a callback is registered once, so        *)
(* list::remove removes one element, and the order in which Drain executes *)
(* its local list is left open.  The critical sections of State::mt, the   *)
(* atomic exchange of execute and the return of a callback are one action  *)
(* each; a callback that throws returns, too.                              *)
(***************************************************************************)
EXTENDS Integers

CONSTANTS
  Callbacks,    \* callbacks that can be registered; bounds the model
  Drainers,     \* threads that call Drain or destroy the owner
  NoCallback    \* no callback

ASSUME NoCallbackAssumption == NoCallback \notin Callbacks

VARIABLES
  callbacks,    \* State::callbacks
  executed,     \* CallbackState::m_executed
  guard,        \* life of each CallbackGuard, see GuardState
  owner,        \* "alive", "drain" (in its destructor), "destroyed"
  dpc,          \* Drain, per drainer: "idle", "drain", "destroy" (the Drain
                \* of the destructor)
  local,        \* Drain's local list: the callbacks it has still to execute
  current,      \* the callback whose body a drainer is in, or NoCallback
  runs          \* history: how often the body of a callback was entered

guardsVars == <<callbacks, executed, guard, owner, dpc, local, current, runs>>

\* "none": Register not called; "held": Register returned it; "removed": its
\* destructor has left the critical section; "running": its destructor is in
\* the body of the callback; "gone": destroyed.
GuardState == {"none", "held", "removed", "running", "gone"}

GuardsTypeOK ==
  /\ callbacks \in SUBSET Callbacks
  /\ executed \in [Callbacks -> BOOLEAN]
  /\ guard \in [Callbacks -> GuardState]
  /\ owner \in {"alive", "drain", "destroyed"}
  /\ dpc \in [Drainers -> {"idle", "drain", "destroy"}]
  /\ local \in [Drainers -> SUBSET Callbacks]
  /\ current \in [Drainers -> Callbacks \cup {NoCallback}]
  /\ runs \in [Callbacks -> 0 .. 1]

GuardsInit ==
  /\ callbacks = {}
  /\ executed = [c \in Callbacks |-> FALSE]
  /\ guard = [c \in Callbacks |-> "none"]
  /\ owner = "alive"
  /\ dpc = [d \in Drainers |-> "idle"]
  /\ local = [d \in Drainers |-> {}]
  /\ current = [d \in Drainers |-> NoCallback]
  /\ runs = [c \in Callbacks |-> 0]

-----------------------------------------------------------------------------
(* Parts of the actions below, each after the mutant that a plausible slip *)
(* of the code would make of it.                                           *)

\* m_executed.exchange(true)                  (mutant: the flag is ignored)
MutantAlreadyExecuted(c) == FALSE
AlreadyExecuted(c) == executed[c]

\* m_state->callbacks.push_back(callbackState)
PushCallback(c) == callbacks \cup {c}

\* what ~CallbackGuard does after the critical section
\*                        (mutant: it leaves the callback to the owner)
MutantAfterRemoval == "gone"
AfterRemoval == "removed"

\* Drain returns when its local list is exhausted
\*                        (mutant: after the first callback)
MutantDrained(d) == \E c \in Callbacks : c \notin local[d] /\ executed[c]
Drained(d) == local[d] = {}

\* std::swap(local, m_state->callbacks)      (mutant: local stays empty)
MutantSwappedOut == {}
SwappedOut == callbacks

-----------------------------------------------------------------------------
(* The threads that own guards.                                            *)

\* Register needs the owner: users call it before they destroy the owner.
Register(c) ==
  /\ owner = "alive"
  /\ guard[c] = "none"
  /\ callbacks' = PushCallback(c)
  /\ guard' = [guard EXCEPT ![c] = "held"]
  /\ UNCHANGED <<executed, owner, dpc, local, current, runs>>

\* ~CallbackGuard, the critical section.  The guard shares m_state with the
\* owner, so this needs no owner.
RemoveCallback(c) ==
  /\ guard[c] = "held"
  /\ callbacks' = callbacks \ {c}
  /\ guard' = [guard EXCEPT ![c] = AfterRemoval]
  /\ UNCHANGED <<executed, owner, dpc, local, current, runs>>

\* execute: the exchange, and the early return or the entry of the body
Execute(c) ==
  /\ executed' = [executed EXCEPT ![c] = TRUE]
  /\ runs' = IF AlreadyExecuted(c) THEN runs ELSE [runs EXCEPT ![c] = @ + 1]

GuardExecute(c) ==
  /\ guard[c] = "removed"
  /\ Execute(c)
  /\ guard' = [guard EXCEPT ![c] = IF AlreadyExecuted(c) THEN "gone"
                                   ELSE "running"]
  /\ UNCHANGED <<callbacks, owner, dpc, local, current>>

GuardCallbackReturns(c) ==
  /\ guard[c] = "running"
  /\ guard' = [guard EXCEPT ![c] = "gone"]
  /\ UNCHANGED <<callbacks, executed, owner, dpc, local, current, runs>>

-----------------------------------------------------------------------------
(* The owner.                                                              *)

\* The critical section of Drain
SwapCallbacks(d) ==
  /\ local' = [local EXCEPT ![d] = SwappedOut]
  /\ callbacks' = {}
  /\ UNCHANGED <<executed, guard, current, runs>>

\* Drain, called while the owner is alive
Drain(d) ==
  /\ owner = "alive"
  /\ dpc[d] = "idle"
  /\ dpc' = [dpc EXCEPT ![d] = "drain"]
  /\ SwapCallbacks(d)
  /\ UNCHANGED owner

\* ~OwnedGuards: users destroy the owner once, when no call of Drain is on.
DestroyOwner(d) ==
  /\ owner = "alive"
  /\ \A e \in Drainers : dpc[e] = "idle"
  /\ owner' = "drain"
  /\ dpc' = [dpc EXCEPT ![d] = "destroy"]
  /\ SwapCallbacks(d)

DrainExecute(d, c) ==
  /\ dpc[d] # "idle"
  /\ current[d] = NoCallback
  /\ c \in local[d]
  /\ Execute(c)
  /\ local' = [local EXCEPT ![d] = @ \ {c}]
  /\ current' = [current EXCEPT ![d] = IF AlreadyExecuted(c) THEN NoCallback ELSE c]
  /\ UNCHANGED <<callbacks, guard, owner, dpc>>

DrainCallbackReturns(d) ==
  /\ current[d] # NoCallback
  /\ current' = [current EXCEPT ![d] = NoCallback]
  /\ UNCHANGED <<callbacks, executed, guard, owner, dpc, local, runs>>

DrainReturns(d) ==
  /\ dpc[d] # "idle"
  /\ current[d] = NoCallback
  /\ Drained(d)
  /\ dpc' = [dpc EXCEPT ![d] = "idle"]
  /\ owner' = IF dpc[d] = "destroy" THEN "destroyed" ELSE owner
  /\ UNCHANGED <<callbacks, executed, guard, local, current, runs>>

-----------------------------------------------------------------------------
GuardStep(c) ==
  \/ Register(c)
  \/ RemoveCallback(c)
  \/ GuardExecute(c)
  \/ GuardCallbackReturns(c)

DrainStep(d) ==
  \/ Drain(d)
  \/ DestroyOwner(d)
  \/ \E c \in Callbacks : DrainExecute(d, c)
  \/ DrainCallbackReturns(d)
  \/ DrainReturns(d)

GuardsNext ==
  \/ \E c \in Callbacks : GuardStep(c)
  \/ \E d \in Drainers : DrainStep(d)

GuardsSpec == GuardsInit /\ [][GuardsNext]_guardsVars

(***************************************************************************)
(* Fairness: a destructor or a Drain that has begun goes on (spin locks    *)
(* are held for a few statements, callbacks return).  Nothing forces a     *)
(* guard or the owner to be destroyed.                                     *)
(***************************************************************************)
GuardsFairness ==
  /\ \A c \in Callbacks : WF_guardsVars(GuardExecute(c) \/ GuardCallbackReturns(c))
  /\ \A d \in Drainers : WF_guardsVars(\/ \E c \in Callbacks : DrainExecute(d, c)
                                       \/ DrainCallbackReturns(d)
                                       \/ DrainReturns(d))

FairGuardsSpec == GuardsSpec /\ GuardsFairness

-----------------------------------------------------------------------------
(* Properties.                                                             *)

\* The body of the callback is running.
Running(c) == guard[c] = "running" \/ \E d \in Drainers : current[d] = c

\* Somebody who will execute the callback holds it.
Held(c) ==
  \/ c \in callbacks
  \/ guard[c] = "removed"
  \/ \E d \in Drainers : c \in local[d]

\* What OnceCallbacks calls the phase of a callback.
PhaseOf(c) ==
  IF guard[c] = "none" THEN "new"
  ELSE IF runs[c] = 0 THEN "registered"
  ELSE IF Running(c) THEN "running"
  ELSE "done"

\* Seen through its phase, a callback behaves as OnceCallbacks says: however
\* the guard's destructor and Drain interleave, its body is entered once and
\* by one of the two.
Abstract == INSTANCE OnceCallbacks WITH
  phase <- [c \in Callbacks |-> PhaseOf(c)]
CalledOnce == Abstract!Spec

\* A registered callback that was not executed is never out of everybody's
\* hands, though both Drain and ~CallbackGuard take it off the shared list
\* before they execute it.
NoCallbackLost ==
  \A c \in Callbacks : guard[c] # "none" /\ runs[c] = 0 => Held(c)

\* Guards may outlive the owner, and a callback of MemHawk uses the owner's
\* owner.  Once ~OwnedGuards has returned, the only callbacks that can still
\* be entered, or still run, are those of guards whose destructor had already
\* begun: a guard that is destroyed later finds its callback executed.
SettledWhenDestroyed ==
  owner = "destroyed" =>
    \A c \in Callbacks :
      runs[c] = 0 \/ Running(c) => guard[c] \in {"none", "removed", "running"}

\* A callback is called and returns once its guard's destructor or the
\* owner's destructor has begun.
EventuallyCalled ==
  \A c \in Callbacks :
    guard[c] = "removed" \/ (guard[c] = "held" /\ owner = "drain")
      ~> runs[c] = 1 /\ ~Running(c)
=============================================================================
