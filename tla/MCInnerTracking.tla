-------------------------- MODULE MCInnerTracking --------------------------
(***************************************************************************)
(* Two parts of the library that run inside the program's threads, for     *)
(* TLC: the accounting of MemHawk's own allocations (InnerTracking) and    *)
(* the guards behind the thread finalizers (OwnedGuards).  They share no   *)
(* variable: one run explores each of them while the other rests.          *)
(***************************************************************************)
EXTENDS InnerTracking, OwnedGuards

VARIABLE part       \* the part explored

mcVars == <<part, vars, guardsVars>>

MCInit == part \in {"inner", "guards"} /\ Init /\ GuardsInit

RestButInner == UNCHANGED <<part, guardsVars>>
RestButGuards == UNCHANGED <<part, vars>>

Tracking == part = "inner" /\ Next /\ RestButInner
Guarding == part = "guards" /\ GuardsNext /\ RestButGuards

\* The fairness of InnerTracking and of OwnedGuards, each for its own part.
MCSpec ==
  /\ MCInit /\ [][Tracking \/ Guarding]_mcVars
  /\ \A p \in Procs :
       /\ WF_mcVars(part = "inner" /\ ProcessPostponed(p) /\ RestButInner)
       /\ SF_mcVars(part = "inner" /\ LockTracker(p) /\ RestButInner)
       /\ WF_mcVars(part = "inner" /\ Apply(p) /\ RestButInner)
  /\ \A c \in Callbacks :
       WF_mcVars(part = "guards" /\ (GuardExecute(c) \/ GuardCallbackReturns(c)) /\ RestButGuards)
  /\ \A d \in Drainers :
       WF_mcVars(/\ part = "guards" /\ RestButGuards
                 /\ \/ \E c \in Callbacks : DrainExecute(d, c)
                    \/ DrainCallbackReturns(d)
                    \/ DrainReturns(d))
=============================================================================
