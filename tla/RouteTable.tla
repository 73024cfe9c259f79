----------------------------- MODULE RouteTable -----------------------------
(***************************************************************************)
(* What the ingress manager promises about domain names, without saying    *)
(* how: every domain is free or has one owner (a service of a project), a  *)
(* service claims a set of domains in one step and only when each of them  *)
(* is free or its own already, and a domain changes hands only by being    *)
(* released first.                                                         *)
(***************************************************************************)
CONSTANTS
    Domains,   \* the domain names
    Owners,    \* the services that may own a domain
    Free       \* marks a domain without an owner

VARIABLE owner   \* owner[d]: the service that traffic for d goes to, or Free

TypeOK == owner \in [Domains -> Owners \cup {Free}]

Init == owner = [d \in Domains |-> Free]

\* Service o becomes the owner of every domain of ds, or of none.
Claim(o, ds) ==
    /\ \A d \in ds : owner[d] \in {Free, o}
    /\ owner' = [d \in Domains |-> IF d \in ds THEN o ELSE owner[d]]

Release(d) == owner' = [owner EXCEPT ![d] = Free]

Next ==
    \/ \E o \in Owners, ds \in SUBSET Domains : Claim(o, ds)
    \/ \E d \in Domains : Release(d)

Spec == Init /\ [][Next]_owner
=============================================================================
