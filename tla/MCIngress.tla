----------------------------- MODULE MCIngress ------------------------------
(***************************************************************************)
(* Instances of Ingress for TLC.                                           *)
(***************************************************************************)
EXTENDS Ingress

CONSTANTS p1, p2, s1, s2, d1, d2, d3, e1

\* Two services that both want d1, and a second domain for one of them.
ContendedIngresses ==
    {[domains |-> {d1, d2}, project |-> p1, service |-> s1, endpoint |-> e1],
     [domains |-> {d1}, project |-> p2, service |-> s1, endpoint |-> e1]}

\* Two services of one project that both want d1, and a second project that
\* wants another domain.
OwnDomains ==
    {[domains |-> {d1, d2}, project |-> p1, service |-> s1, endpoint |-> e1],
     [domains |-> {d1}, project |-> p1, service |-> s2, endpoint |-> e1],
     [domains |-> {d3}, project |-> p2, service |-> s1, endpoint |-> e1],
     [domains |-> {d3}, project |-> p2, service |-> s1, endpoint |-> NoEndpoint]}
=============================================================================
