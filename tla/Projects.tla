------------------------------ MODULE Projects ------------------------------
(***************************************************************************)
(* What conter promises to those who apply and delete projects, without    *)
(* saying how: while a request for a project is under way, everything of   *)
(* that project, and nothing of any other, may be in any state; a project  *)
(* is remembered with some services only when exactly these are in place,  *)
(* and forgotten only when nothing is left of it.                          *)
(***************************************************************************)
EXTENDS SequencesExt

CONSTANTS
    Projects, Services, Hashes, Domains,
    NotSaved     \* marks a project that is not known

VARIABLES
    saved,       \* saved[p]: the services p is remembered with, or NotSaved
    phase,       \* phase[p]: how far the request for p is
    deployment   \* deployment[p]: what there is of p

\* Which domains lead to which services, and which services run in which version
Deployment == [routed : SUBSET (Domains \X Services), running : SUBSET (Services \X Hashes)]

Nothing == [routed |-> {}, running |-> {}]

Wanted(services) ==
    [routed  |-> UNION {s.domains \X {s.name} : s \in ToSet(services)},
     running |-> {<<s.name, s.hash>> : s \in ToSet(services)}]

Init ==
    /\ saved = [p \in Projects |-> NotSaved]
    /\ phase = [p \in Projects |-> "idle"]
    /\ deployment = [p \in Projects |-> Nothing]

Enter(p, from, to) == phase[p] = from /\ phase' = [phase EXCEPT ![p] = to]

Begin(p) == Enter(p, "idle", "working") /\ UNCHANGED <<saved, deployment>>

\* Only the project being worked on changes.
Work(p) ==
    /\ phase[p] = "working"
    /\ deployment' \in [Projects -> Deployment]
    /\ \A q \in Projects \ {p} : deployment'[q] = deployment[q]
    /\ UNCHANGED <<saved, phase>>

Settle(p) ==
    /\ Enter(p, "working", "done")
    /\ saved' = [saved EXCEPT ![p] = saved'[p]]
    /\ deployment[p] = IF saved'[p] = NotSaved THEN Nothing ELSE Wanted(saved'[p])
    /\ UNCHANGED deployment

Fail(p) == Enter(p, "working", "done") /\ UNCHANGED <<saved, deployment>>

End(p) == Enter(p, "done", "idle") /\ UNCHANGED <<saved, deployment>>

\* The daemon dies: no request is under way any more.
Crash == phase' = [p \in Projects |-> "idle"] /\ UNCHANGED <<saved, deployment>>

\* A service stops by itself.
Decay(p) ==
    /\ deployment'[p].running \subseteq deployment[p].running
    /\ deployment' = [deployment EXCEPT ![p].running = deployment'[p].running]
    /\ UNCHANGED <<saved, phase>>

Next ==
    \/ \E p \in Projects : \/ Begin(p) \/ Work(p) \/ Settle(p) \/ Fail(p) \/ End(p)
                           \/ Decay(p)
    \/ Crash

Spec == Init /\ [][Next]_<<saved, phase, deployment>>
=============================================================================
