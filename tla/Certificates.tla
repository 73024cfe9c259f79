---------------------------- MODULE Certificates ----------------------------
(***************************************************************************)
(* The certificate manager (src/manager/certificates.go) over the          *)
(* certificates, mappings and challenges buckets of the database.          *)
(*                                                                         *)
(* A certificate is requested by RegisterRoute, by a renewal over HTTP and *)
(* by the batch job; each request for a certificate becomes an order that  *)
(* runs on a goroutine of its own, in the ACME client, and calls back to   *)
(* present and to clean up a challenge per domain.  No lock is taken: one  *)
(* database transaction is one step.  ACME is configured and every         *)
(* certificate is of challenge type HTTP-01, the only type that is ever    *)
(* requested.                                                              *)
(***************************************************************************)
EXTENDS Naturals, FiniteSets

CONSTANTS
    Threads,      \* goroutines that serve requests
    Domains,      \* domain names
    Requests,     \* the sets of domains that services are exposed on
    Ids,          \* certificate ids, as numbers (UUIDs: never handed out twice)
    Orders,       \* slots for the orders that are under way, as numbers
    Gone,         \* marks an id without a certificate
    None,         \* no id, no challenge, no domain
    Oldest,       \* bound on the age of certificates: time stands still then
    MaxMishaps,   \* bound on crashes, failed validations and failed writes
    MaxMoves      \* bound on domains that stop pointing to this machine

ASSUME ConstantsAssumption ==
    /\ Requests \subseteq (SUBSET Domains) \ {{}}
    /\ Ids \subseteq Nat
    /\ Orders \subseteq Nat
    /\ None \notin Ids \cup Orders \cup Domains
    /\ \A ds \in SUBSET Domains, a \in {"fresh", "expiring", "expired"} :
          Gone # [domains |-> ds, age |-> a]

VARIABLES
    certificates,   \* certificates[id]: the certificate stored under id, or Gone
    mappings,       \* mappings[d]: the id of the certificate in use for d, or None
    challenges,     \* challenges[d]: the order whose token is stored for d, or None
    pc,             \* pc[t]: where thread t is
    want,           \* want[t]: the domains ChallengeCreate was called with
    todo,           \* todo[t]: those its loop has yet to visit
    free,           \* free[t]: those without a challenge: the order's domains
    queue,          \* queue[t]: the listed certificates the batch job has left
    unused,         \* unused[t]: the certificate it is about to remove
    stage,          \* stage[o]: where order o is
    domains,        \* domains[o]: the domains of order o
    unsolved,       \* unsolved[o]: those not tried yet
    solving,        \* solving[o]: the domain being validated
    broken,         \* broken[o]: whether some domain could not be validated
    reachable,      \* the domains that point to this machine
    mishaps

stores == <<certificates, mappings, challenges>>
threads == <<pc, want, todo, free, queue, unused>>
orders == <<stage, domains, unsolved, solving, broken>>
vars == <<stores, threads, orders, reachable, mishaps>>

\* The 30 days before the expiry are the age "expiring".
Ages == {"fresh", "expiring", "expired"}
Certificate == [domains : SUBSET Domains, age : Ages]

TypeOK ==
    /\ certificates \in [Ids -> Certificate \cup {Gone}]
    /\ mappings \in [Domains -> Ids \cup {None}]
    /\ challenges \in [Domains -> Orders \cup {None}]
    /\ pc \in [Threads -> {"idle", "valid", "check", "batch", "batchCheck", "remove"}]
    /\ want \in [Threads -> SUBSET Domains]
    /\ todo \in [Threads -> SUBSET Domains]
    /\ free \in [Threads -> SUBSET Domains]
    /\ queue \in [Threads -> SUBSET Ids]
    /\ unused \in [Threads -> Ids \cup {None}]
    /\ stage \in [Orders -> {"unborn", "obtain", "presented", "cleanUp", "store"}]
    /\ domains \in [Orders -> SUBSET Domains]
    /\ unsolved \in [Orders -> SUBSET Domains]
    /\ solving \in [Orders -> Domains \cup {None}]
    /\ broken \in [Orders -> BOOLEAN]
    /\ reachable \in SUBSET Domains
    /\ mishaps \in Nat

Init ==
    /\ certificates = [id \in Ids |-> Gone]
    /\ mappings = [d \in Domains |-> None]
    /\ challenges = [d \in Domains |-> None]
    /\ pc = [t \in Threads |-> "idle"]
    /\ want = [t \in Threads |-> {}]
    /\ todo = [t \in Threads |-> {}]
    /\ free = [t \in Threads |-> {}]
    /\ queue = [t \in Threads |-> {}]
    /\ unused = [t \in Threads |-> None]
    /\ stage = [o \in Orders |-> "unborn"]
    /\ domains = [o \in Orders |-> {}]
    /\ unsolved = [o \in Orders |-> {}]
    /\ solving = [o \in Orders |-> None]
    /\ broken = [o \in Orders |-> FALSE]
    /\ reachable = Domains
    /\ mishaps = 0

Goto(t, label) == pc' = [pc EXCEPT ![t] = label]
Enter(o, s) == stage' = [stage EXCEPT ![o] = s]

\* GetCertificate: the certificate the mapping of d leads to
Has(d) == mappings[d] # None /\ certificates[mappings[d]] # Gone
AgeOf(d) == certificates[mappings[d]].age

(***************************************************************************)
(* Asking for certificates                                                 *)
(***************************************************************************)

\* RegisterRoute first asks HasValidCertificate, domain by domain.
HasValidCertificate(t, ds) ==
    /\ pc[t] = "idle"
    /\ want' = [want EXCEPT ![t] = ds]
    /\ todo' = [todo EXCEPT ![t] = ds]
    /\ Goto(t, "valid")
    /\ UNCHANGED <<stores, free, queue, unused, orders, reachable, mishaps>>

ValidFor(d) == Has(d) /\ AgeOf(d) # "expired"

\* The first domain without a valid certificate makes it call ChallengeCreate
\* for all of them.
CheckValid(t) ==
    /\ pc[t] = "valid"
    /\ \/ /\ \E d \in todo[t] :
                IF ValidFor(d)
                THEN todo' = [todo EXCEPT ![t] = @ \ {d}] /\ UNCHANGED pc
                ELSE todo' = [todo EXCEPT ![t] = want[t]] /\ Goto(t, "check")
          /\ UNCHANGED want
       \/ /\ todo[t] = {}
          /\ Goto(t, "idle")
          /\ want' = [want EXCEPT ![t] = {}]
          /\ UNCHANGED todo
    /\ UNCHANGED <<stores, free, queue, unused, orders, reachable, mishaps>>

ChallengeCreate(t, ds, label) ==
    /\ want' = [want EXCEPT ![t] = ds]
    /\ todo' = [todo EXCEPT ![t] = ds]
    /\ Goto(t, label)

\* HandleCertificateRenew: for the one domain, which has a certificate
Renew(t, d) ==
    /\ pc[t] = "idle"
    /\ Has(d)
    /\ ChallengeCreate(t, {d}, "check")
    /\ UNCHANGED <<stores, free, queue, unused, orders, reachable, mishaps>>

Checking(t) == pc[t] \in {"check", "batchCheck"}

\* A domain that has a challenge in the database is left out of the order.
Challenged(d) == challenges[d] # None

CheckDomain(t) ==
    /\ Checking(t)
    /\ \E d \in todo[t] :
          /\ todo' = [todo EXCEPT ![t] = @ \ {d}]
          /\ free' = [free EXCEPT ![t] = IF Challenged(d) THEN @ ELSE @ \cup {d}]
    /\ UNCHANGED <<stores, pc, want, queue, unused, orders, reachable, mishaps>>

\* A slot that no order is in and no leftover challenge carries the token of;
\* the first one will do.
NewOrder(o) ==
    LET Unborn(q) == stage[q] = "unborn" /\ \A d \in Domains : challenges[d] # q
    IN  Unborn(o) /\ \A q \in Orders : Unborn(q) => o <= q

\* The order is started in the background; with no domain left there is none,
\* and the certificate authority refuses an order when too many are open.
SubmitOrder(t) ==
    /\ Checking(t)
    /\ todo[t] = {}
    /\ \/ /\ free[t] = {} \/ \A o \in Orders : ~NewOrder(o)
          /\ UNCHANGED orders
       \/ /\ free[t] # {}
          /\ \E o \in Orders :
                /\ NewOrder(o)
                /\ Enter(o, "obtain")
                /\ domains' = [domains EXCEPT ![o] = free[t]]
                /\ unsolved' = [unsolved EXCEPT ![o] = free[t]]
                /\ broken' = [broken EXCEPT ![o] = FALSE]
                /\ UNCHANGED solving
    /\ Goto(t, IF pc[t] = "batchCheck" THEN "batch" ELSE "idle")
    /\ free' = [free EXCEPT ![t] = {}]
    /\ want' = [want EXCEPT ![t] = {}]
    /\ UNCHANGED <<stores, todo, queue, unused, reachable, mishaps>>

(***************************************************************************)
(* The batch job                                                           *)
(***************************************************************************)
Stored == {id \in Ids : certificates[id] # Gone}

StartBatch(t) ==
    /\ pc[t] = "idle"
    /\ queue' = [queue EXCEPT ![t] = Stored]
    /\ Goto(t, "batch")
    /\ UNCHANGED <<stores, want, todo, free, unused, orders, reachable, mishaps>>

\* Mutant: an expired certificate does not count as used.
IsValidAndInUse(id) == \E d \in Domains : mappings[d] = id /\ AgeOf(d) # "expired"

IsCertificateInUse(id) == \E d \in Domains : mappings[d] = id

\* Mutant: renewal waits for the expiry.
IsExpired(id) == certificates[id].age = "expired"

NeedsRenewal(id) == certificates[id].age # "fresh"

\* A certificate that is in use is renewed when it expires within 30 days; one
\* that is not is removed, in a later transaction.
InspectCertificate(t) ==
    /\ pc[t] = "batch"
    /\ \E id \in queue[t] :
          /\ queue' = [queue EXCEPT ![t] = @ \ {id}]
          /\ \/ /\ IsCertificateInUse(id)
                /\ IF NeedsRenewal(id)
                   THEN ChallengeCreate(t, certificates[id].domains, "batchCheck")
                   ELSE UNCHANGED <<want, todo, pc>>
                /\ UNCHANGED unused
             \/ /\ ~IsCertificateInUse(id)
                /\ unused' = [unused EXCEPT ![t] = id]
                /\ Goto(t, "remove")
                /\ UNCHANGED <<want, todo>>
    /\ UNCHANGED <<stores, free, orders, reachable, mishaps>>

\* Mutant: an empty value is put instead of deleting the key.
BlankCertificateById(t) ==
    /\ pc[t] = "remove"
    /\ certificates' = [certificates EXCEPT ![unused[t]] = None]
    /\ unused' = [unused EXCEPT ![t] = None]
    /\ Goto(t, "batch")
    /\ UNCHANGED <<mappings, challenges, want, todo, free, queue, orders, reachable, mishaps>>

\* Mutant: the transaction is not committed.
RemoveNothing(t) ==
    /\ pc[t] = "remove"
    /\ unused' = [unused EXCEPT ![t] = None]
    /\ Goto(t, "batch")
    /\ UNCHANGED <<stores, want, todo, free, queue, orders, reachable, mishaps>>

RemoveCertificateById(t) ==
    /\ pc[t] = "remove"
    /\ certificates' = [certificates EXCEPT ![unused[t]] = Gone]
    /\ unused' = [unused EXCEPT ![t] = None]
    /\ Goto(t, "batch")
    /\ UNCHANGED <<mappings, challenges, want, todo, free, queue, orders, reachable, mishaps>>

EndBatch(t) ==
    /\ pc[t] = "batch"
    /\ queue[t] = {}
    /\ Goto(t, "idle")
    /\ UNCHANGED <<stores, want, todo, free, queue, unused, orders, reachable, mishaps>>

(***************************************************************************)
(* An order: the ACME client validates the domains one after the other     *)
(***************************************************************************)

\* SetAcmeChallenge overwrites whatever challenge there is.
Present(o) ==
    /\ stage[o] = "obtain"
    /\ \E d \in unsolved[o] :
          /\ challenges' = [challenges EXCEPT ![d] = o]
          /\ solving' = [solving EXCEPT ![o] = d]
    /\ Enter(o, "presented")
    /\ UNCHANGED <<certificates, mappings, threads, domains, unsolved, broken, reachable, mishaps>>

\* The certificate authority remembers an earlier validation of the domain.
AlreadyValidated(o) ==
    /\ stage[o] = "obtain"
    /\ \E d \in unsolved[o] : unsolved' = [unsolved EXCEPT ![o] = @ \ {d}]
    /\ UNCHANGED <<stores, threads, stage, domains, solving, broken, reachable, mishaps>>

\* Authorize: the proxy answers for the domain with the stored token only.
Authorize(o) == challenges[solving[o]] = o

\* The certificate authority asks for the token at the domain.
Validate(o) ==
    /\ stage[o] = "presented"
    /\ broken' = [broken EXCEPT ![o] = @ \/ ~(Authorize(o) /\ solving[o] \in reachable)]
    /\ Enter(o, "cleanUp")
    /\ UNCHANGED <<stores, threads, domains, unsolved, solving, reachable, mishaps>>

\* Mutant: the token is not compared.
AnyChallenge(o, d) == TRUE

\* RemoveAcmeChallenge compares the token before it deletes.
OwnChallenge(o, d) == challenges[d] = o

\* Mutant: the challenge stays in the database.
CleanUpNothing(o) ==
    /\ stage[o] = "cleanUp"
    /\ unsolved' = [unsolved EXCEPT ![o] = @ \ {solving[o]}]
    /\ solving' = [solving EXCEPT ![o] = None]
    /\ Enter(o, "obtain")
    /\ UNCHANGED <<stores, threads, domains, broken, reachable, mishaps>>

CleanUp(o) ==
    /\ stage[o] = "cleanUp"
    /\ challenges' = IF OwnChallenge(o, solving[o])
                     THEN [challenges EXCEPT ![solving[o]] = None]
                     ELSE challenges
    /\ unsolved' = [unsolved EXCEPT ![o] = @ \ {solving[o]}]
    /\ solving' = [solving EXCEPT ![o] = None]
    /\ Enter(o, "obtain")
    /\ UNCHANGED <<certificates, mappings, threads, domains, broken, reachable, mishaps>>

Forget(o) ==
    /\ Enter(o, "unborn")
    /\ domains' = [domains EXCEPT ![o] = {}]
    /\ unsolved' = [unsolved EXCEPT ![o] = {}]
    /\ solving' = [solving EXCEPT ![o] = None]
    /\ broken' = [broken EXCEPT ![o] = FALSE]

\* One domain that could not be validated spoils the order.
Obtained(o) ==
    /\ stage[o] = "obtain"
    /\ unsolved[o] = {}
    /\ \/ broken[o] /\ Forget(o)
       \/ ~broken[o] /\ Enter(o, "store") /\ UNCHANGED <<domains, unsolved, solving, broken>>
    /\ UNCHANGED <<stores, threads, reachable, mishaps>>

\* Mutant: ids are handed out again.
ReusedId(id) ==
    LET Unstored(i) == certificates[i] = Gone
    IN  Unstored(id) /\ \A i \in Ids : Unstored(i) => id <= i

\* A new UUID: no certificate, and no batch job, knows it; the first will do.
NewId(id) ==
    LET Fresh(i) == /\ certificates[i] = Gone
                    /\ \A t \in Threads : i \notin queue[t] /\ i # unused[t]
    IN  Fresh(id) /\ \A i \in Ids : Fresh(i) => id <= i

\* Mutant: only one of the domains is mapped to the certificate.
MapOneDomain(o) ==
    /\ stage[o] = "store"
    /\ \E id \in Ids, d \in domains[o] :
          /\ NewId(id)
          /\ certificates' = [certificates EXCEPT ![id] = [domains |-> domains[o], age |-> "fresh"]]
          /\ mappings' = [mappings EXCEPT ![d] = id]
    /\ Forget(o)
    /\ UNCHANGED <<challenges, threads, reachable, mishaps>>

\* The certificate and the mappings of its domains are one transaction.
SetCertificate(o) ==
    /\ stage[o] = "store"
    /\ \E id \in Ids :
          /\ NewId(id)
          /\ certificates' = [certificates EXCEPT ![id] = [domains |-> domains[o], age |-> "fresh"]]
          /\ mappings' = [d \in Domains |-> IF d \in domains[o] THEN id ELSE mappings[d]]
    /\ Forget(o)
    /\ UNCHANGED <<challenges, threads, reachable, mishaps>>

(***************************************************************************)
(* The world                                                               *)
(***************************************************************************)

\* Time passes: the expiry of a certificate comes nearer.
Grow(id) ==
    /\ id \in Stored
    /\ certificates[id].age \notin {Oldest, "expired"}
    /\ certificates' = [certificates EXCEPT ![id].age =
                           IF @ = "fresh" THEN "expiring" ELSE "expired"]
    /\ UNCHANGED <<mappings, challenges, threads, orders, reachable, mishaps>>

\* The owner of a domain points it to another machine.
MoveAway(d) ==
    /\ d \in reachable
    /\ Cardinality(Domains \ reachable) < MaxMoves
    /\ reachable' = reachable \ {d}
    /\ UNCHANGED <<stores, threads, orders, mishaps>>

Mishap == mishaps < MaxMishaps /\ mishaps' = mishaps + 1

\* The certificate authority rejects the domain or cannot be reached.
ValidationFails(o) ==
    /\ Mishap
    /\ stage[o] = "presented"
    /\ broken' = [broken EXCEPT ![o] = TRUE]
    /\ Enter(o, "cleanUp")
    /\ UNCHANGED <<stores, threads, domains, unsolved, solving, reachable>>

\* The challenge cannot be written, and the domain not be validated.
PresentFails(o) ==
    /\ Mishap
    /\ stage[o] = "obtain"
    /\ \E d \in unsolved[o] : unsolved' = [unsolved EXCEPT ![o] = @ \ {d}]
    /\ broken' = [broken EXCEPT ![o] = TRUE]
    /\ UNCHANGED <<stores, threads, stage, domains, solving, reachable>>

\* The challenge cannot be removed; the ACME client logs that and goes on.
CleanUpFails(o) ==
    /\ Mishap
    /\ stage[o] = "cleanUp"
    /\ unsolved' = [unsolved EXCEPT ![o] = @ \ {solving[o]}]
    /\ solving' = [solving EXCEPT ![o] = None]
    /\ Enter(o, "obtain")
    /\ UNCHANGED <<stores, threads, domains, broken, reachable>>

\* The batch job logs that a certificate cannot be removed and goes on.
RemoveFails(t) ==
    /\ Mishap
    /\ pc[t] = "remove"
    /\ unused' = [unused EXCEPT ![t] = None]
    /\ Goto(t, "batch")
    /\ UNCHANGED <<stores, want, todo, free, queue, orders, reachable>>

\* The certificate cannot be written and is lost.
StoreFails(o) ==
    /\ Mishap
    /\ stage[o] = "store"
    /\ Forget(o)
    /\ UNCHANGED <<stores, threads, reachable>>

\* The bound on certificates: with no id left the order is dropped.
NoIdLeft(o) ==
    /\ stage[o] = "store"
    /\ \A id \in Ids : ~NewId(id)
    /\ Forget(o)
    /\ UNCHANGED <<stores, threads, reachable, mishaps>>

\* The daemon dies and is started again: only the database survives.
Crash ==
    /\ Mishap
    /\ pc' = [t \in Threads |-> "idle"]
    /\ want' = [t \in Threads |-> {}]
    /\ todo' = [t \in Threads |-> {}]
    /\ free' = [t \in Threads |-> {}]
    /\ queue' = [t \in Threads |-> {}]
    /\ unused' = [t \in Threads |-> None]
    /\ stage' = [o \in Orders |-> "unborn"]
    /\ domains' = [o \in Orders |-> {}]
    /\ unsolved' = [o \in Orders |-> {}]
    /\ solving' = [o \in Orders |-> None]
    /\ broken' = [o \in Orders |-> FALSE]
    /\ UNCHANGED <<stores, reachable>>

(***************************************************************************)
(* The specification                                                       *)
(***************************************************************************)
Client(t) ==
    \/ \E ds \in Requests : HasValidCertificate(t, ds)
    \/ \E d \in Domains : Renew(t, d)
    \/ StartBatch(t)

ThreadStep(t) ==
    \/ CheckValid(t) \/ CheckDomain(t) \/ SubmitOrder(t)
    \/ InspectCertificate(t) \/ RemoveCertificateById(t) \/ EndBatch(t)

OrderStep(o) ==
    \/ Present(o) \/ AlreadyValidated(o) \/ Validate(o) \/ CleanUp(o)
    \/ Obtained(o) \/ SetCertificate(o)

OrderFails(o) == PresentFails(o) \/ ValidationFails(o) \/ CleanUpFails(o) \/ StoreFails(o)

Elsewhere ==
    \/ \E d \in Domains : MoveAway(d)
    \/ \E o \in Orders : OrderFails(o)
    \/ \E t \in Threads : RemoveFails(t)
    \/ Crash

World == (\E id \in Ids : Grow(id)) \/ Elsewhere

Next ==
    \/ \E t \in Threads : Client(t) \/ ThreadStep(t)
    \/ \E o \in Orders : OrderStep(o) \/ NoIdLeft(o)
    \/ World

Spec == Init /\ [][Next]_vars

\* Clients and the operator wait until nothing is under way, and time passes
\* then: a batch job reads each age once, so certificates might as well have
\* aged before it began.
Quiet == (\A t \in Threads : pc[t] = "idle") /\ (\A o \in Orders : stage[o] = "unborn")

\* Enough ids are left for what the next batch job stores.
Room == Cardinality(Stored) + Cardinality(Domains) < Cardinality(Ids)

QuietNext ==
    \/ \E t \in Threads :
          \/ Quiet /\ Room /\ \E ds \in Requests : HasValidCertificate(t, ds)
          \/ Quiet /\ StartBatch(t)
          \/ ThreadStep(t)
    \/ \E o \in Orders : OrderStep(o)
    \/ Quiet /\ \E id \in Ids : Grow(id)
    \/ Elsewhere

\* The batch job is triggered again and again, goroutines run, and calls to
\* the database and to the certificate authority return.
QuietSpec ==
    /\ Init
    /\ [][QuietNext]_vars
    /\ \A t \in Threads : WF_vars(ThreadStep(t)) /\ SF_vars(Quiet /\ StartBatch(t))
    /\ \A o \in Orders : WF_vars(OrderStep(o))

(***************************************************************************)
(* Properties                                                              *)
(***************************************************************************)

\* A mapping always leads to a stored certificate for that domain: the batch
\* job decides that a certificate is unused in one transaction and removes it
\* in a later one, while orders add certificates and move mappings.
MappingsLeadToCertificates ==
    \A d \in Domains : mappings[d] # None =>
        /\ certificates[mappings[d]] # Gone
        /\ d \in certificates[mappings[d]].domains

\* A domain that once had a certificate is never left without one, so the
\* proxy never falls back to a self-signed certificate for it.
CertificatesKept == [][\A d \in Domains : Has(d) => Has(d)']_vars

\* A challenge disappears only when the order it was stored for cleans up for
\* that very domain: of two orders that work on one domain, the one whose token
\* was overwritten does not take the other one's away.
ChallengesCleanedByOwner ==
    [][\A d \in Domains :
          challenges[d] # None /\ challenges'[d] = None
             => stage[challenges[d]] = "cleanUp" /\ solving[challenges[d]] = d]_vars

\* Challenges do not pile up: without mishaps, a stored challenge belongs to
\* an order that is working on that very domain.
ChallengesHaveOrders ==
    \A d \in Domains : challenges[d] # None /\ mishaps = 0
        => solving[challenges[d]] = d

Aged(d) == Has(d) /\ AgeOf(d) # "fresh"
Renewed(d) == Has(d) /\ AgeOf(d) = "fresh"

\* "any certificate that will expire within 30 days will get renewed"
\* (certificates.go:27): a domain that keeps pointing to this machine gets a
\* fresh certificate, provided that the batch job is triggered.
RenewedEventually ==
    \A d \in Domains : Aged(d) ~> Renewed(d) \/ d \notin reachable

\* Nothing but a challenge left in the database, by a crash or by a clean-up
\* that failed, stands in the way of a renewal for good: whatever else goes
\* wrong in validating and storing is made up for by a later batch job.
RenewedUnlessBlocked ==
    \A d \in Domains : Aged(d) ~> Renewed(d) \/ d \notin reachable \/ []Challenged(d)

\* "clean up all certificates that are not referenced anymore"
\* (certificates.go:272)
UnusedRemovedEventually ==
    \A id \in Ids : (id \in Stored /\ ~IsCertificateInUse(id)) ~> (id \notin Stored)

\* The domains as the visitors of the proxy see them
CoverageOf(d) == IF Has(d) THEN AgeOf(d) ELSE "none"

Sought == (UNION {want[t] : t \in Threads}) \cup (UNION {domains[o] : o \in Orders})

Promise == INSTANCE Coverage
              WITH coverage <- [d \in Domains |-> CoverageOf(d)], pending <- Sought

\* However requests, batch jobs, orders and crashes interleave, only domains
\* that somebody asked for get certificates, those of one order get theirs
\* together, and none is ever left without again: the manager implements
\* Coverage.
ImplementsCoverage == Promise!Spec
=============================================================================
