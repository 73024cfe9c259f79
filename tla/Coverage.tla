------------------------------ MODULE Coverage ------------------------------
(***************************************************************************)
(* What the certificate manager promises about domain names, without       *)
(* saying how: a domain gets a certificate only after somebody has asked   *)
(* for one, the domains of a certificate get it together, and from then on *)
(* the domain is covered for good; only the certificate grows older.       *)
(***************************************************************************)
CONSTANTS
    Domains,    \* the domain names
    Requests    \* the sets of domains that certificates are asked for

VARIABLES
    coverage,   \* coverage[d]: the age of the certificate in use for d, if any
    pending     \* the domains for which a certificate is sought

cvars == <<coverage, pending>>

Ages == {"fresh", "expiring", "expired"}

TypeOK ==
    /\ coverage \in [Domains -> Ages \cup {"none"}]
    /\ pending \in SUBSET Domains

Init ==
    /\ coverage = [d \in Domains |-> "none"]
    /\ pending = {}

Covered == {d \in Domains : coverage[d] # "none"}

\* A service is exposed on these domains, or certificates there are have to be
\* renewed.
Ask(ds) ==
    /\ ds \in Requests \/ ds \subseteq Covered
    /\ pending' = pending \cup ds
    /\ UNCHANGED coverage

\* Nothing is sought for these any more.
GiveUp(ds) ==
    /\ pending' = pending \ ds
    /\ UNCHANGED coverage

\* Each domain of the certificate has it at the same moment; others may be
\* seeking one for some of these domains still.
Issue(ds) ==
    /\ ds \subseteq pending
    /\ coverage' = [d \in Domains |-> IF d \in ds THEN "fresh" ELSE coverage[d]]
    /\ pending' \in {pending \ satisfied : satisfied \in SUBSET ds}

\* The domains of one certificate grow older together.
Age(ds) ==
    /\ \E step \in {<<"fresh", "expiring">>, <<"expiring", "expired">>} :
          /\ \A d \in ds : coverage[d] = step[1]
          /\ coverage' = [d \in Domains |-> IF d \in ds THEN step[2] ELSE coverage[d]]
    /\ UNCHANGED pending

Next == \E ds \in SUBSET Domains : Ask(ds) \/ GiveUp(ds) \/ Issue(ds) \/ Age(ds)

Spec == Init /\ [][Next]_cvars
=============================================================================
