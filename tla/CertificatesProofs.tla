-------------------------- MODULE CertificatesProofs -------------------------
(***************************************************************************)
(* Theorems about Certificates, for any number of threads, orders, domains *)
(* and certificates, and any bounds on mishaps.                            *)
(***************************************************************************)
EXTENDS Certificates, TLAPS

(***************************************************************************)
(* The inductive invariant.  The batch job decides that a certificate is   *)
(* unused in one transaction and removes it in a later one.  What makes    *)
(* this safe is that a certificate that is not in use never comes into use *)
(* again: only a new certificate, under a new id, gets mappings.           *)
(***************************************************************************)

\* What a thread is about to remove is still unused.
StillUnused ==
    \A t \in Threads : pc[t] = "remove" =>
        /\ unused[t] \in Ids
        /\ \A d \in Domains : mappings[d] # unused[t]

IInv ==
    /\ TypeOK
    /\ MappingsLeadToCertificates
    /\ StillUnused

\* Nothing is stored at first.
LEMMA InitIInv == Init => IInv
BY ConstantsAssumption
   DEF Init, IInv, TypeOK, MappingsLeadToCertificates, StillUnused, Certificate, Ages

\* A stored certificate is a record, which the mark Gone is not.
LEMMA CertificateNotGone ==
    ASSUME NEW ds \in SUBSET Domains, NEW a \in Ages
    PROVE  Gone # [domains |-> ds, age |-> a]
BY ConstantsAssumption DEF Ages

\* A request or a batch job that runs alone stores nothing.
LEMMA ThreadsKeepIInv ==
    ASSUME IInv, NEW t \in Threads, Client(t) \/ ThreadStep(t)
    PROVE  IInv'
<1> USE ConstantsAssumption DEF IInv, TypeOK, StillUnused, Goto, Enter, stores, orders
<1>1. ASSUME NEW ds \in Requests, HasValidCertificate(t, ds) PROVE IInv'
  BY <1>1 DEF HasValidCertificate, MappingsLeadToCertificates
<1>2. ASSUME NEW d \in Domains, Renew(t, d) PROVE IInv'
  BY <1>2 DEF Renew, ChallengeCreate, MappingsLeadToCertificates
<1>3. CASE StartBatch(t)
  BY <1>3 DEF StartBatch, Stored, MappingsLeadToCertificates
<1>4. CASE CheckValid(t)
  BY <1>4 DEF CheckValid, MappingsLeadToCertificates
<1>5. CASE CheckDomain(t)
  BY <1>5 DEF CheckDomain, Checking, MappingsLeadToCertificates
<1>6. CASE SubmitOrder(t)
  <2>1. pc[t] # "remove" /\ pc'[t] # "remove"
    BY <1>6 DEF SubmitOrder, Checking
  <2>2. UNCHANGED <<certificates, mappings, challenges, todo, queue, unused, solving, reachable,
                    mishaps>>
    BY <1>6 DEF SubmitOrder
  <2>3. StillUnused'
    BY <1>6, <2>1, <2>2 DEF SubmitOrder
  <2>4. /\ pc' \in [Threads -> {"idle", "valid", "check", "batch", "batchCheck", "remove"}]
        /\ free' \in [Threads -> SUBSET Domains]
        /\ want' \in [Threads -> SUBSET Domains]
    BY <1>6 DEF SubmitOrder
  <2>5. /\ stage' \in [Orders -> {"unborn", "obtain", "presented", "cleanUp", "store"}]
        /\ domains' \in [Orders -> SUBSET Domains]
        /\ unsolved' \in [Orders -> SUBSET Domains]
        /\ broken' \in [Orders -> BOOLEAN]
    <3>1. free[t] \in SUBSET Domains
      OBVIOUS
    <3>2. \/ UNCHANGED orders
          \/ \E o \in Orders : /\ Enter(o, "obtain")
                               /\ domains' = [domains EXCEPT ![o] = free[t]]
                               /\ unsolved' = [unsolved EXCEPT ![o] = free[t]]
                               /\ broken' = [broken EXCEPT ![o] = FALSE]
      BY <1>6 DEF SubmitOrder
    <3>3. CASE UNCHANGED orders
      BY <3>3
    <3>4. ASSUME NEW o \in Orders,
                 Enter(o, "obtain"),
                 domains' = [domains EXCEPT ![o] = free[t]],
                 unsolved' = [unsolved EXCEPT ![o] = free[t]],
                 broken' = [broken EXCEPT ![o] = FALSE]
          PROVE  /\ stage' \in [Orders -> {"unborn", "obtain", "presented", "cleanUp", "store"}]
                 /\ domains' \in [Orders -> SUBSET Domains]
                 /\ unsolved' \in [Orders -> SUBSET Domains]
                 /\ broken' \in [Orders -> BOOLEAN]
      BY <3>1, <3>4
    <3> QED BY <3>2, <3>3, <3>4
  <2> QED BY <2>2, <2>3, <2>4, <2>5 DEF MappingsLeadToCertificates
<1>7. CASE InspectCertificate(t)
  <2>1. PICK id \in queue[t] :
           /\ queue' = [queue EXCEPT ![t] = @ \ {id}]
           /\ \/ /\ IsCertificateInUse(id)
                 /\ \/ ChallengeCreate(t, certificates[id].domains, "batchCheck")
                    \/ UNCHANGED <<want, todo, pc>>
                 /\ UNCHANGED unused
              \/ /\ ~IsCertificateInUse(id)
                 /\ unused' = [unused EXCEPT ![t] = id]
                 /\ Goto(t, "remove")
                 /\ UNCHANGED <<want, todo>>
    BY <1>7 DEF InspectCertificate
  <2>2. UNCHANGED <<certificates, mappings, challenges, free, stage, domains, unsolved,
                    solving, broken, reachable, mishaps>>
    BY <1>7 DEF InspectCertificate
  <2>3. id \in Ids
    OBVIOUS
  <2>4. CASE IsCertificateInUse(id) /\ ChallengeCreate(t, certificates[id].domains, "batchCheck")
             /\ UNCHANGED unused
    <3>1. certificates[id] # Gone
      BY <2>3, <2>4 DEF IsCertificateInUse, MappingsLeadToCertificates
    <3>2. certificates[id] \in Certificate
      BY <2>3, <3>1
    <3>3. certificates[id].domains \subseteq Domains
      BY <3>2 DEF Certificate
    <3> QED BY <2>1, <2>2, <2>4, <3>3 DEF ChallengeCreate, MappingsLeadToCertificates
  <2>5. CASE UNCHANGED <<want, todo, pc, unused>>
    BY <2>1, <2>2, <2>5 DEF MappingsLeadToCertificates
  <2>6. CASE ~IsCertificateInUse(id) /\ unused' = [unused EXCEPT ![t] = id] /\ Goto(t, "remove")
             /\ UNCHANGED <<want, todo>>
    BY <2>1, <2>2, <2>3, <2>6 DEF IsCertificateInUse, MappingsLeadToCertificates
  <2> QED BY <2>1, <2>4, <2>5, <2>6
<1>8. CASE RemoveCertificateById(t)
  <2>1. TypeOK' /\ StillUnused'
    BY <1>8 DEF RemoveCertificateById
  <2>2. MappingsLeadToCertificates'
    BY <1>8 DEF RemoveCertificateById, MappingsLeadToCertificates
  <2> QED BY <2>1, <2>2
<1>9. CASE EndBatch(t)
  BY <1>9 DEF EndBatch, MappingsLeadToCertificates
<1> QED BY <1>1, <1>2, <1>3, <1>4, <1>5, <1>6, <1>7, <1>8, <1>9 DEF Client, ThreadStep

\* An order that stores its certificate does so under an id that no mapping
\* and no batch job knows.
LEMMA OrdersKeepIInv ==
    ASSUME IInv, NEW o \in Orders,
           OrderStep(o) \/ NoIdLeft(o) \/ OrderFails(o)
    PROVE  IInv'
<1> USE ConstantsAssumption DEF IInv, TypeOK, StillUnused, Enter, Forget, stores, threads, Mishap
<1>1. CASE Present(o)
  BY <1>1 DEF Present, MappingsLeadToCertificates
<1>2. CASE AlreadyValidated(o)
  BY <1>2 DEF AlreadyValidated, MappingsLeadToCertificates
<1>3. CASE Validate(o)
  BY <1>3 DEF Validate, Authorize, MappingsLeadToCertificates
<1>4. CASE CleanUp(o)
  BY <1>4 DEF CleanUp, MappingsLeadToCertificates
<1>5. CASE Obtained(o)
  <2>1. UNCHANGED <<certificates, mappings, challenges, pc, want, todo, free, queue, unused,
                    reachable, mishaps>>
    BY <1>5 DEF Obtained
  <2>2. MappingsLeadToCertificates' /\ StillUnused'
    BY <2>1 DEF MappingsLeadToCertificates
  <2>3. CASE Forget(o)
    BY <2>1, <2>2, <2>3
  <2>4. CASE Enter(o, "store") /\ UNCHANGED <<domains, unsolved, solving, broken>>
    BY <2>1, <2>2, <2>4
  <2> QED BY <1>5, <2>3, <2>4 DEF Obtained
<1>6. CASE SetCertificate(o)
  <2>1. PICK id \in Ids :
           /\ NewId(id)
           /\ certificates' = [certificates EXCEPT ![id] = [domains |-> domains[o], age |-> "fresh"]]
           /\ mappings' = [d \in Domains |-> IF d \in domains[o] THEN id ELSE mappings[d]]
    BY <1>6 DEF SetCertificate
  <2>2. certificates[id] = Gone /\ \A t \in Threads : id # unused[t]
    BY <2>1 DEF NewId
  <2>3. [domains |-> domains[o], age |-> "fresh"] \in Certificate
    BY DEF Certificate, Ages
  <2>4. MappingsLeadToCertificates'
    BY <2>1, <2>2, <2>3, CertificateNotGone DEF MappingsLeadToCertificates, Ages
  <2>5. StillUnused'
    BY <1>6, <2>1, <2>2 DEF SetCertificate
  <2>6. certificates' \in [Ids -> Certificate \cup {Gone}] /\ mappings' \in [Domains -> Ids \cup {None}]
    BY <2>1, <2>3
  <2> QED BY <1>6, <2>4, <2>5, <2>6 DEF SetCertificate
<1>7. CASE NoIdLeft(o)
  BY <1>7 DEF NoIdLeft, MappingsLeadToCertificates
<1>8. CASE ValidationFails(o)
  BY <1>8 DEF ValidationFails, MappingsLeadToCertificates
<1>9. CASE PresentFails(o)
  BY <1>9 DEF PresentFails, MappingsLeadToCertificates
<1>10. CASE CleanUpFails(o)
  BY <1>10 DEF CleanUpFails, MappingsLeadToCertificates
<1>11. CASE StoreFails(o)
  BY <1>11 DEF StoreFails, MappingsLeadToCertificates
<1> QED BY <1>1, <1>2, <1>3, <1>4, <1>5, <1>6, <1>7, <1>8, <1>9, <1>10, <1>11 DEF OrderStep, OrderFails

\* A certificate that grows older stays a certificate for its domains.
LEMMA GrowKeepsDomains ==
    ASSUME TypeOK, NEW id \in Ids, Grow(id)
    PROVE  /\ certificates'[id] \in Certificate
           /\ certificates'[id] # Gone
           /\ certificates'[id].domains = certificates[id].domains
           /\ \A i \in Ids \ {id} : certificates'[i] = certificates[i]
<1>1. certificates[id] \in Certificate
  BY DEF TypeOK, Grow, Stored
<1>2. PICK a \in Ages : certificates' = [certificates EXCEPT ![id].age = a]
  BY DEF Grow, Ages
<1>3. certificates'[id] = [certificates[id] EXCEPT !.age = a]
  BY <1>2 DEF TypeOK
<1>4. certificates'[id] = [domains |-> certificates[id].domains, age |-> a]
  BY <1>1, <1>3 DEF Certificate
<1> QED BY <1>1, <1>2, <1>4, CertificateNotGone DEF Certificate, TypeOK

LEMMA NextIInv == IInv /\ [Next]_vars => IInv'
<1> SUFFICES ASSUME IInv, [Next]_vars PROVE IInv'
  OBVIOUS
<1> USE ConstantsAssumption DEF IInv, TypeOK, StillUnused, stores, threads, orders
<1>1. ASSUME NEW id \in Ids, Grow(id) PROVE IInv'
  <2>1. UNCHANGED <<mappings, challenges, threads, orders, reachable, mishaps>>
    BY <1>1 DEF Grow
  <2>2. certificates' \in [Ids -> Certificate \cup {Gone}]
    BY <1>1, GrowKeepsDomains DEF Grow
  <2>3. MappingsLeadToCertificates'
    <3> SUFFICES ASSUME NEW d \in Domains, mappings[d] # None
                 PROVE  /\ certificates'[mappings[d]] # Gone
                        /\ d \in certificates'[mappings[d]].domains
      BY <2>1 DEF MappingsLeadToCertificates
    <3>1. /\ mappings[d] \in Ids
          /\ certificates[mappings[d]] # Gone
          /\ d \in certificates[mappings[d]].domains
      BY DEF MappingsLeadToCertificates
    <3>2. /\ certificates'[id] # Gone
          /\ certificates'[id].domains = certificates[id].domains
          /\ \A i \in Ids \ {id} : certificates'[i] = certificates[i]
      BY <1>1, GrowKeepsDomains
    <3>3. CASE mappings[d] = id
      BY <3>1, <3>2, <3>3
    <3>4. CASE mappings[d] # id
      BY <3>1, <3>2, <3>4
    <3> QED BY <3>3, <3>4
  <2> QED BY <2>1, <2>2, <2>3
<1>2. ASSUME NEW d \in Domains, MoveAway(d) PROVE IInv'
  BY <1>2 DEF MoveAway, MappingsLeadToCertificates
<1>3. CASE Crash
  BY <1>3 DEF Crash, Mishap, MappingsLeadToCertificates
<1>4. ASSUME NEW t \in Threads, RemoveFails(t) PROVE IInv'
  BY <1>4 DEF RemoveFails, Goto, Mishap, MappingsLeadToCertificates
<1>5. CASE UNCHANGED vars
  BY <1>5 DEF vars, MappingsLeadToCertificates
<1> QED BY <1>1, <1>2, <1>3, <1>4, <1>5, ThreadsKeepIInv, OrdersKeepIInv DEF Next, World, Elsewhere

\* The variables keep to their types, whatever is requested and however
\* requests, batch jobs and orders interleave.
THEOREM TypeCorrect == Spec => []TypeOK
<1>1. IInv => TypeOK
  BY DEF IInv
<1> QED BY <1>1, InitIInv, NextIInv, PTL DEF Spec

\* A mapping always leads to a stored certificate for that domain, although
\* the batch job removes certificates it found unused in an earlier step.
THEOREM MappingsSound == Spec => []MappingsLeadToCertificates
<1>1. IInv => MappingsLeadToCertificates
  BY DEF IInv
<1> QED BY <1>1, InitIInv, NextIInv, PTL DEF Spec

(***************************************************************************)
(* No domain loses its certificate.                                        *)
(***************************************************************************)

\* The steps that write to the certificates or mappings bucket
LEMMA CertificateChanges ==
    ASSUME [Next]_vars
    PROVE  \/ UNCHANGED <<certificates, mappings>>
           \/ \E t \in Threads : RemoveCertificateById(t)
           \/ \E o \in Orders : SetCertificate(o)
           \/ \E id \in Ids : Grow(id)
<1> DEFINE Kept == UNCHANGED <<certificates, mappings>>
<1> USE DEF stores
<1>1. ASSUME NEW t \in Threads, Client(t) PROVE Kept
  BY <1>1 DEF Client, HasValidCertificate, Renew, StartBatch
<1>2. ASSUME NEW t \in Threads, ThreadStep(t) PROVE Kept \/ RemoveCertificateById(t)
  BY <1>2 DEF ThreadStep, CheckValid, CheckDomain, SubmitOrder, InspectCertificate, EndBatch
<1>3. ASSUME NEW o \in Orders, OrderStep(o) \/ NoIdLeft(o) PROVE Kept \/ SetCertificate(o)
  BY <1>3 DEF OrderStep, Present, AlreadyValidated, Validate, CleanUp, Obtained, NoIdLeft
<1>4. ASSUME World PROVE Kept \/ \E id \in Ids : Grow(id)
  BY <1>4 DEF World, Elsewhere, MoveAway, OrderFails, PresentFails, ValidationFails,
              CleanUpFails, StoreFails, RemoveFails, Crash
<1>5. CASE UNCHANGED vars
  BY <1>5 DEF vars
<1> QED BY <1>1, <1>2, <1>3, <1>4, <1>5 DEF Next

\* A domain that has a certificate has one after every step: neither the batch
\* job nor an order that replaces the certificate leaves it without.
THEOREM NeverWithout == Spec => CertificatesKept
<1>1. IInv /\ [Next]_vars => [\A d \in Domains : Has(d) => Has(d)']_vars
  <2> SUFFICES ASSUME IInv, [Next]_vars, NEW d \in Domains, Has(d) PROVE Has(d)'
    OBVIOUS
  <2> USE ConstantsAssumption DEF IInv, TypeOK, Has
  <2>1. CASE UNCHANGED <<certificates, mappings>>
    BY <2>1
  <2>2. ASSUME NEW t \in Threads, RemoveCertificateById(t) PROVE Has(d)'
    BY <2>2 DEF RemoveCertificateById, StillUnused
  <2>3. ASSUME NEW o \in Orders, SetCertificate(o) PROVE Has(d)'
    <3>1. PICK id \in Ids :
             /\ NewId(id)
             /\ certificates' = [certificates EXCEPT ![id] = [domains |-> domains[o], age |-> "fresh"]]
             /\ mappings' = [e \in Domains |-> IF e \in domains[o] THEN id ELSE mappings[e]]
      BY <2>3 DEF SetCertificate
    <3>2. domains[o] \in SUBSET Domains /\ "fresh" \in Ages
      BY DEF Ages
    <3>3. Gone # [domains |-> domains[o], age |-> "fresh"]
      BY <3>2, CertificateNotGone
    <3> QED BY <3>1, <3>3
  <2>4. ASSUME NEW id \in Ids, Grow(id) PROVE Has(d)'
    <3>1. /\ certificates'[id] # Gone
          /\ \A i \in Ids \ {id} : certificates'[i] = certificates[i]
      BY <2>4, GrowKeepsDomains
    <3> QED BY <2>4, <3>1 DEF Grow
  <2> QED BY <2>1, <2>2, <2>3, <2>4, CertificateChanges
<1> QED BY <1>1, InitIInv, NextIInv, PTL DEF Spec, CertificatesKept

(***************************************************************************)
(* Challenges.  Two orders may work on one domain; each compares the       *)
(* stored token with its own before it removes it.                         *)
(***************************************************************************)

\* The steps that write to the challenges bucket
LEMMA ChallengeChanges ==
    ASSUME [Next]_vars
    PROVE  \/ UNCHANGED challenges
           \/ \E o \in Orders : Present(o) \/ CleanUp(o)
<1> USE DEF stores
<1>1. ASSUME NEW t \in Threads, Client(t) \/ ThreadStep(t) PROVE UNCHANGED challenges
  BY <1>1 DEF Client, HasValidCertificate, Renew, StartBatch, ThreadStep, CheckValid,
              CheckDomain, SubmitOrder, InspectCertificate, RemoveCertificateById, EndBatch
<1>2. ASSUME NEW o \in Orders, OrderStep(o) \/ NoIdLeft(o)
      PROVE  UNCHANGED challenges \/ Present(o) \/ CleanUp(o)
  BY <1>2 DEF OrderStep, AlreadyValidated, Validate, Obtained, SetCertificate, NoIdLeft
<1>3. ASSUME World PROVE UNCHANGED challenges
  BY <1>3 DEF World, Elsewhere, Grow, MoveAway, OrderFails, PresentFails, ValidationFails,
              CleanUpFails, StoreFails, RemoveFails, Crash
<1>4. CASE UNCHANGED vars
  BY <1>4 DEF vars
<1> QED BY <1>1, <1>2, <1>3, <1>4 DEF Next

\* A challenge leaves the database only in the cleanup of its own order, also
\* when another order has presented a challenge for the same domain.
THEOREM CleanedByOwner == Spec => ChallengesCleanedByOwner
<1> DEFINE Own == \A d \in Domains :
                     challenges[d] # None /\ challenges'[d] = None
                        => stage[challenges[d]] = "cleanUp" /\ solving[challenges[d]] = d
<1>1. IInv /\ [Next]_vars => [Own]_vars
  <2> SUFFICES ASSUME IInv, [Next]_vars,
                      NEW d \in Domains, challenges[d] # None, challenges'[d] = None
               PROVE  stage[challenges[d]] = "cleanUp" /\ solving[challenges[d]] = d
    OBVIOUS
  <2> USE ConstantsAssumption DEF IInv, TypeOK
  <2>1. ASSUME NEW o \in Orders, Present(o) PROVE FALSE
    BY <2>1 DEF Present
  <2>2. ASSUME NEW o \in Orders, CleanUp(o) PROVE challenges[d] = o /\ stage[o] = "cleanUp" /\ solving[o] = d
    BY <2>2 DEF CleanUp, OwnChallenge
  <2> QED BY <2>1, <2>2, ChallengeChanges
<1> QED BY <1>1, InitIInv, NextIInv, PTL DEF Spec, ChallengesCleanedByOwner

(***************************************************************************)
(* Without mishaps a challenge is there only while its order solves it:    *)
(* the order is then in one of the two stages between Present and CleanUp. *)
(***************************************************************************)
Solved ==
    \A d \in Domains : challenges[d] # None /\ mishaps = 0 =>
        /\ solving[challenges[d]] = d
        /\ stage[challenges[d]] \in {"presented", "cleanUp"}

CInv == TypeOK /\ Solved

\* As long as nothing fails and the daemon does not die, a challenge in the
\* database belongs to an order that is working on that domain: no renewal is
\* put off by a challenge nobody waits for.
THEOREM NoChallengeLeftBehind == Spec => []ChallengesHaveOrders
<1>1. Init => CInv
  BY InitIInv DEF Init, CInv, Solved, IInv
<1>2. IInv /\ CInv /\ [Next]_vars => CInv'
  <2> SUFFICES ASSUME IInv, Solved, [Next]_vars PROVE Solved'
    BY NextIInv DEF IInv, CInv
  <2> USE ConstantsAssumption DEF IInv, TypeOK, Solved, stores, threads, orders, Enter, Forget, Mishap
  <2>1. ASSUME NEW t \in Threads, Client(t) \/ ThreadStep(t) PROVE Solved'
    <3>1. \/ UNCHANGED <<challenges, stage, solving, mishaps>>
          \/ SubmitOrder(t)
      BY <2>1 DEF Client, HasValidCertificate, Renew, StartBatch, ThreadStep, CheckValid,
                  CheckDomain, InspectCertificate, RemoveCertificateById, EndBatch
    <3>2. CASE SubmitOrder(t)
      <4>1. UNCHANGED <<challenges, solving, mishaps>>
        BY <3>2 DEF SubmitOrder
      <4>2. UNCHANGED stage \/ \E o \in Orders : NewOrder(o) /\ Enter(o, "obtain")
        BY <3>2 DEF SubmitOrder
      <4>3. ASSUME NEW o \in Orders, NewOrder(o), Enter(o, "obtain") PROVE Solved'
        <5>1. \A d \in Domains : challenges[d] # o
          BY <4>3 DEF NewOrder
        <5> QED BY <4>1, <4>3, <5>1
      <4>4. CASE UNCHANGED stage
        BY <4>1, <4>4
      <4> QED BY <4>2, <4>3, <4>4
    <3> QED BY <3>1, <3>2
  <2>2. ASSUME NEW o \in Orders, Present(o) PROVE Solved'
    BY <2>2 DEF Present
  <2>3. ASSUME NEW o \in Orders, CleanUp(o) PROVE Solved'
    BY <2>3 DEF CleanUp, OwnChallenge
  <2>4. ASSUME NEW o \in Orders,
               AlreadyValidated(o) \/ Validate(o) \/ Obtained(o) \/ SetCertificate(o) \/ NoIdLeft(o)
        PROVE  Solved'
    <3>1. CASE AlreadyValidated(o)
      BY <3>1 DEF AlreadyValidated
    <3>2. CASE Validate(o)
      BY <3>2 DEF Validate
    <3>3. CASE Obtained(o) \/ SetCertificate(o) \/ NoIdLeft(o)
      <4>1. /\ stage[o] \notin {"presented", "cleanUp"}
            /\ UNCHANGED <<challenges, mishaps>>
            /\ \A q \in Orders \ {o} : stage'[q] = stage[q] /\ solving'[q] = solving[q]
        BY <3>3 DEF Obtained, SetCertificate, NoIdLeft
      <4>2. SUFFICES ASSUME NEW d \in Domains, challenges[d] # None, mishaps = 0
                     PROVE  /\ solving'[challenges[d]] = d
                            /\ stage'[challenges[d]] \in {"presented", "cleanUp"}
        BY <4>1
      <4>3. challenges[d] \in Orders \ {o}
        BY <4>1, <4>2
      <4> QED BY <4>1, <4>2, <4>3
    <3> QED BY <2>4, <3>1, <3>2, <3>3
  <2>5. CASE World
    <3>1. \/ UNCHANGED <<challenges, stage, solving, mishaps>>
          \/ UNCHANGED challenges /\ mishaps' = mishaps + 1
      <4>1. ASSUME NEW id \in Ids, Grow(id) PROVE UNCHANGED <<challenges, stage, solving, mishaps>>
        BY <4>1 DEF Grow
      <4>2. ASSUME NEW d \in Domains, MoveAway(d)
            PROVE  UNCHANGED <<challenges, stage, solving, mishaps>>
        BY <4>2 DEF MoveAway
      <4>3. ASSUME NEW o \in Orders, OrderFails(o)
            PROVE  UNCHANGED challenges /\ mishaps' = mishaps + 1
        BY <4>3 DEF OrderFails, PresentFails, ValidationFails, CleanUpFails, StoreFails
      <4>4. ASSUME NEW t \in Threads, RemoveFails(t)
            PROVE  UNCHANGED challenges /\ mishaps' = mishaps + 1
        BY <4>4 DEF RemoveFails
      <4>5. CASE Crash
        BY <4>5 DEF Crash
      <4> QED BY <2>5, <4>1, <4>2, <4>3, <4>4, <4>5 DEF World, Elsewhere
    <3>2. mishaps + 1 # 0
      OBVIOUS
    <3> QED BY <3>1, <3>2
  <2>6. CASE UNCHANGED vars
    BY <2>6 DEF vars
  <2> QED BY <2>1, <2>2, <2>3, <2>4, <2>5, <2>6 DEF Next, OrderStep
<1>3. CInv => ChallengesHaveOrders
  BY DEF CInv, Solved, ChallengesHaveOrders
<1> QED BY <1>1, <1>2, <1>3, InitIInv, NextIInv, PTL DEF Spec

(***************************************************************************)
(* The certificate manager implements Coverage.  A step either leaves the  *)
(* coverage of every domain as it is and seeks certificates for more or    *)
(* for fewer domains, or it is SetCertificate, which issues, or Grow,      *)
(* which ages.  What has to be known is which domains a thread asks for:   *)
(* that an order is for domains somebody wants, and that the batch job,    *)
(* which asks for all domains of a certificate, even those that have moved *)
(* to another one, asks for domains that are covered.                      *)
(***************************************************************************)

\* What thread t looks at, and has found free of challenges, it also wants.
Wants(t) ==
    /\ pc[t] \in {"idle", "batch", "remove"} => want[t] = {}
    /\ Checking(t) => todo[t] \subseteq want[t] /\ free[t] \subseteq want[t]
    /\ ~Checking(t) => free[t] = {}

\* The domains of a stored certificate have one, this or another.
StoredCovered == \A id \in Stored : \A d \in certificates[id].domains : mappings[d] # None

VInv == IInv /\ StoredCovered /\ \A t \in Threads : Wants(t)

LEMMA InitVInv == Init => VInv
BY InitIInv DEF Init, VInv, StoredCovered, Stored, Wants, Checking

\* A certificate comes with the mappings of its domains, and no mapping goes.
LEMMA NextStoredCovered == IInv /\ StoredCovered /\ [Next]_vars => StoredCovered'
<1> SUFFICES ASSUME IInv, StoredCovered, [Next]_vars,
                    NEW id \in Stored', NEW d \in certificates'[id].domains
             PROVE  mappings'[d] # None
  BY DEF StoredCovered
<1> USE ConstantsAssumption DEF IInv, TypeOK, StoredCovered, Stored
<1>1. CASE UNCHANGED <<certificates, mappings>>
  BY <1>1
<1>2. ASSUME NEW t \in Threads, RemoveCertificateById(t) PROVE mappings'[d] # None
  BY <1>2 DEF RemoveCertificateById
<1>3. ASSUME NEW o \in Orders, SetCertificate(o) PROVE mappings'[d] # None
  <2>1. PICK i \in Ids :
           /\ certificates' = [certificates EXCEPT ![i] = [domains |-> domains[o], age |-> "fresh"]]
           /\ mappings' = [e \in Domains |-> IF e \in domains[o] THEN i ELSE mappings[e]]
    BY <1>3 DEF SetCertificate
  <2>2. CASE id = i
    BY <2>1, <2>2
  <2>3. CASE id # i
    <3>1. certificates'[id] = certificates[id] /\ certificates[id] \in Certificate
      BY <2>1, <2>3
    <3> QED BY <2>1, <3>1 DEF Certificate
  <2> QED BY <2>2, <2>3
<1>4. ASSUME NEW i \in Ids, Grow(i) PROVE mappings'[d] # None
  <2>1. mappings' = mappings /\ certificates[i] # Gone
    BY <1>4 DEF Grow
  <2>2. /\ certificates'[i].domains = certificates[i].domains
        /\ \A j \in Ids \ {i} : certificates'[j] = certificates[j]
    BY <1>4, GrowKeepsDomains
  <2> QED BY <2>1, <2>2
<1> QED BY <1>1, <1>2, <1>3, <1>4, CertificateChanges

\* A thread enters the checks with all it wants, and leaves them with nothing.
LEMMA NextWants ==
    ASSUME IInv, \A t \in Threads : Wants(t), [Next]_vars
    PROVE  \A t \in Threads : Wants(t)'
<1> SUFFICES ASSUME NEW u \in Threads PROVE Wants(u)'
  OBVIOUS
<1> USE DEF IInv, TypeOK, Wants, Checking, Goto
<1>1. ASSUME NEW t \in Threads, Client(t) PROVE Wants(u)'
  BY <1>1 DEF Client, HasValidCertificate, Renew, StartBatch, ChallengeCreate
<1>2. ASSUME NEW t \in Threads, ThreadStep(t) PROVE Wants(u)'
  <2>1. CASE CheckValid(t)
    BY <2>1 DEF CheckValid
  <2>2. CASE CheckDomain(t)
    BY <2>2 DEF CheckDomain
  <2>3. CASE SubmitOrder(t)
    BY <2>3 DEF SubmitOrder
  <2>4. CASE InspectCertificate(t)
    BY <2>4 DEF InspectCertificate, ChallengeCreate
  <2>5. CASE RemoveCertificateById(t) \/ EndBatch(t)
    BY <2>5 DEF RemoveCertificateById, EndBatch
  <2> QED BY <1>2, <2>1, <2>2, <2>3, <2>4, <2>5 DEF ThreadStep
<1>3. CASE UNCHANGED threads
  BY <1>3 DEF threads
<1>4. ASSUME NEW o \in Orders, OrderStep(o) \/ NoIdLeft(o) PROVE UNCHANGED threads
  BY <1>4 DEF OrderStep, Present, AlreadyValidated, Validate, CleanUp, Obtained, SetCertificate,
              NoIdLeft
<1>5. ASSUME World, ~Crash, ~ \E t \in Threads : RemoveFails(t) PROVE UNCHANGED threads
  BY <1>5 DEF World, Elsewhere, Grow, MoveAway, OrderFails, PresentFails, ValidationFails,
              CleanUpFails, StoreFails
<1>6. ASSUME NEW t \in Threads, RemoveFails(t) PROVE Wants(u)'
  BY <1>6 DEF RemoveFails
<1>7. CASE Crash
  BY <1>7 DEF Crash
<1>8. CASE UNCHANGED vars
  BY <1>3, <1>8 DEF vars
<1> QED BY <1>1, <1>2, <1>3, <1>4, <1>5, <1>6, <1>7, <1>8 DEF Next

LEMMA NextVInv == VInv /\ [Next]_vars => VInv'
BY NextIInv, NextStoredCovered, NextWants DEF VInv

Seen == [d \in Domains |-> CoverageOf(d)]

\* A step on the domains as the visitors see them
Steps == [Promise!Next]_<<Seen, Sought>>

LEMMA SoughtIsTyped == IInv => Sought \subseteq Domains
BY DEF IInv, TypeOK, Sought

\* What neither covers nor ages a domain only seeks fewer certificates, unless
\* it asks for some.
LEMMA FewerSought ==
    ASSUME IInv, Seen' = Seen, Sought' \subseteq Sought
    PROVE  Steps
<1> DEFINE ds == Sought \ Sought'
<1>1. ds \in SUBSET Domains
  BY SoughtIsTyped
<1>2. Sought' = Sought \ ds
  OBVIOUS
<1>3. Promise!GiveUp(ds)
  BY <1>2 DEF Promise!GiveUp, Seen
<1> QED BY <1>1, <1>3 DEF Promise!Next, Steps

LEMMA MoreSought ==
    ASSUME IInv, Seen' = Seen, NEW ds \in SUBSET Domains, Sought' = Sought \cup ds,
           ds \in Requests \/ \A d \in ds : Has(d)
    PROVE  Steps
<1>1. \A d \in Domains : Has(d) => CoverageOf(d) # "none"
  BY DEF CoverageOf, Has, AgeOf, IInv, TypeOK, Certificate, Ages
<1>2. ds \in Requests \/ ds \subseteq Promise!Covered
  BY <1>1 DEF Promise!Covered
<1>3. Promise!Ask(ds)
  BY <1>2 DEF Promise!Ask, Seen
<1> QED BY <1>3 DEF Promise!Next, Steps

\* The coverage depends on certificates and mappings only.
LEMMA SeenStays == ASSUME UNCHANGED <<certificates, mappings>> PROVE Seen' = Seen
BY DEF Seen, CoverageOf, Has, AgeOf

\* What is sought depends on what threads want and orders are for.
LEMMA SoughtStays == ASSUME UNCHANGED <<want, domains>> PROVE Sought' = Sought
BY DEF Sought

\* Requests and batch jobs ask, or give up what they asked for, but for what
\* their orders are for.
LEMMA ThreadsSeek ==
    ASSUME VInv, NEW t \in Threads, Client(t) \/ ThreadStep(t)
    PROVE  Steps
<1>0. IInv /\ TypeOK /\ Wants(t)
  BY DEF VInv, IInv
<1>1. ASSUME NEW ds \in Requests, HasValidCertificate(t, ds) PROVE Steps
  <2>1. ds \in SUBSET Domains /\ want' = [want EXCEPT ![t] = ds] /\ want[t] = {}
    BY <1>0, <1>1, ConstantsAssumption DEF HasValidCertificate, Wants
  <2>2. Sought' = Sought \cup ds
    BY <1>0, <1>1, <2>1 DEF HasValidCertificate, orders, Sought, TypeOK
  <2>3. Seen' = Seen
    BY <1>1, SeenStays DEF HasValidCertificate, stores
  <2> QED BY <1>0, <2>1, <2>2, <2>3, MoreSought
<1>2. ASSUME NEW d \in Domains, Renew(t, d) PROVE Steps
  <2>1. want' = [want EXCEPT ![t] = {d}] /\ want[t] = {}
    BY <1>0, <1>2 DEF Renew, ChallengeCreate, Wants
  <2>2. Sought' = Sought \cup {d}
    BY <1>0, <1>2, <2>1 DEF Renew, orders, Sought, TypeOK
  <2>3. Seen' = Seen /\ Has(d)
    BY <1>2, SeenStays DEF Renew, stores
  <2> QED BY <1>0, <2>2, <2>3, MoreSought
<1>3. CASE StartBatch(t) \/ CheckDomain(t) \/ EndBatch(t)
  <2>1. UNCHANGED <<certificates, mappings, want, domains>>
    BY <1>3 DEF StartBatch, CheckDomain, EndBatch, stores, orders
  <2> QED BY <1>0, <2>1, SeenStays, SoughtStays, FewerSought
<1>4. CASE CheckValid(t)
  <2>1. /\ UNCHANGED <<certificates, mappings, domains>>
        /\ UNCHANGED want \/ want' = [want EXCEPT ![t] = {}]
    BY <1>4 DEF CheckValid, stores, orders
  <2>2. Sought' \subseteq Sought
    BY <1>0, <2>1 DEF Sought, TypeOK
  <2> QED BY <1>0, <2>1, <2>2, SeenStays, FewerSought
<1>5. CASE SubmitOrder(t)
  <2>1. /\ UNCHANGED <<certificates, mappings>>
        /\ want' = [want EXCEPT ![t] = {}]
        /\ \/ UNCHANGED domains
           \/ \E o \in Orders : domains' = [domains EXCEPT ![o] = free[t]]
        /\ free[t] \subseteq want[t]
    BY <1>0, <1>5 DEF SubmitOrder, stores, orders, Wants
  <2>2. Sought' \subseteq Sought
    BY <1>0, <2>1 DEF Sought, TypeOK
  <2> QED BY <1>0, <2>1, <2>2, SeenStays, FewerSought
<1>6. CASE InspectCertificate(t)
  <2>1. PICK id \in queue[t] :
           \/ /\ IsCertificateInUse(id)
              /\ want' = [want EXCEPT ![t] = certificates[id].domains]
           \/ UNCHANGED want
    BY <1>6 DEF InspectCertificate, ChallengeCreate
  <2>2. /\ UNCHANGED <<certificates, mappings, domains>>
        /\ want[t] = {}
        /\ id \in Ids
    BY <1>0, <1>6, <2>1 DEF InspectCertificate, stores, orders, Wants, TypeOK
  <2>3. Seen' = Seen
    BY <2>2, SeenStays
  <2>4. CASE UNCHANGED want
    BY <1>0, <2>2, <2>3, <2>4, SoughtStays, FewerSought
  <2>5. CASE IsCertificateInUse(id) /\ want' = [want EXCEPT ![t] = certificates[id].domains]
    <3> DEFINE ds == certificates[id].domains
    <3>1. id \in Stored
      BY <1>0, <2>2, <2>5, ConstantsAssumption
         DEF IsCertificateInUse, IInv, MappingsLeadToCertificates, Stored
    <3>2. ds \in SUBSET Domains
      BY <1>0, <3>1 DEF Stored, TypeOK, Certificate
    <3>3. \A d \in ds : Has(d)
      <4> SUFFICES ASSUME NEW d \in ds PROVE Has(d)
        OBVIOUS
      <4>1. d \in Domains /\ mappings[d] # None
        BY <3>1, <3>2 DEF VInv, StoredCovered
      <4> QED BY <1>0, <4>1 DEF IInv, MappingsLeadToCertificates, Has
    <3>4. Sought' = Sought \cup ds
      BY <1>0, <2>2, <2>5, <3>2 DEF Sought, TypeOK
    <3> QED BY <1>0, <2>3, <3>2, <3>3, <3>4, MoreSought
  <2> QED BY <2>1, <2>4, <2>5
<1>7. CASE RemoveCertificateById(t)
  <2>1. /\ pc[t] = "remove"
        /\ certificates' = [certificates EXCEPT ![unused[t]] = Gone]
        /\ UNCHANGED <<mappings, want, domains>>
    BY <1>7 DEF RemoveCertificateById, orders
  <2>2. \A d \in Domains : mappings[d] # None => certificates'[mappings[d]] = certificates[mappings[d]]
    BY <1>0, <2>1 DEF IInv, StillUnused, TypeOK
  <2>3. Seen' = Seen
    BY <2>1, <2>2 DEF Seen, CoverageOf, Has, AgeOf
  <2> QED BY <1>0, <2>1, <2>3, SoughtStays, FewerSought
<1> QED BY <1>1, <1>2, <1>3, <1>4, <1>5, <1>6, <1>7 DEF Client, ThreadStep

\* An order that stores its certificate issues it for its domains; others may
\* seek one for some of them.
LEMMA OrderIssues == ASSUME VInv, NEW o \in Orders, SetCertificate(o) PROVE Steps
<1>0. IInv /\ TypeOK /\ domains[o] \in SUBSET Domains
  BY DEF VInv, IInv, TypeOK
<1>1. PICK id \in Ids :
         /\ certificates[id] = Gone
         /\ certificates' = [certificates EXCEPT ![id] = [domains |-> domains[o], age |-> "fresh"]]
         /\ mappings' = [d \in Domains |-> IF d \in domains[o] THEN id ELSE mappings[d]]
  BY DEF SetCertificate, NewId
<1>2. UNCHANGED want /\ domains' = [domains EXCEPT ![o] = {}]
  BY DEF SetCertificate, Forget, threads
<1>3. ASSUME NEW d \in Domains
      PROVE  CoverageOf(d)' = IF d \in domains[o] THEN "fresh" ELSE CoverageOf(d)
  <2>1. CASE d \in domains[o]
    <3>1. [domains |-> domains[o], age |-> "fresh"] # Gone
      BY <1>0, CertificateNotGone DEF Ages
    <3> QED BY <1>0, <1>1, <2>1, <3>1, ConstantsAssumption DEF CoverageOf, Has, AgeOf, TypeOK
  <2>2. CASE d \notin domains[o]
    <3>1. mappings'[d] = mappings[d] /\ (mappings[d] # None => mappings[d] # id)
      BY <1>0, <1>1, <2>2 DEF IInv, MappingsLeadToCertificates
    <3> QED BY <1>0, <1>1, <2>2, <3>1 DEF CoverageOf, Has, AgeOf, TypeOK
  <2> QED BY <2>1, <2>2
<1>4. domains[o] \subseteq Sought
  BY DEF Sought
<1>5. Sought' \subseteq Sought /\ Sought \ domains[o] \subseteq Sought'
  BY <1>0, <1>2 DEF Sought, TypeOK
<1>6. Sought' \in {Sought \ satisfied : satisfied \in SUBSET domains[o]}
  <2> DEFINE satisfied == Sought \ Sought'
  <2>1. satisfied \in SUBSET domains[o] /\ Sought' = Sought \ satisfied
    BY <1>5
  <2> QED BY <2>1
<1>7. Promise!Issue(domains[o])
  BY <1>0, <1>3, <1>4, <1>6 DEF Promise!Issue
<1> QED BY <1>0, <1>7 DEF Promise!Next, Steps

\* What else happens to an order changes nothing, or drops it.
LEMMA OrdersSeek ==
    ASSUME VInv, NEW o \in Orders,
           \/ OrderStep(o) /\ ~SetCertificate(o)
           \/ NoIdLeft(o) \/ OrderFails(o)
    PROVE  Steps
<1>0. IInv /\ TypeOK
  BY DEF VInv, IInv
<1>1. /\ UNCHANGED <<certificates, mappings, want>>
      /\ UNCHANGED domains \/ domains' = [domains EXCEPT ![o] = {}]
  BY DEF OrderStep, Present, AlreadyValidated, Validate, CleanUp, Obtained, NoIdLeft,
         OrderFails, PresentFails, ValidationFails, CleanUpFails, StoreFails, Forget, stores, threads
<1>2. Sought' \subseteq Sought
  BY <1>0, <1>1 DEF Sought, TypeOK
<1> QED BY <1>0, <1>1, <1>2, SeenStays, FewerSought

\* The domains of a certificate grow older together.
LEMMA CertificateAges == ASSUME VInv, NEW id \in Ids, Grow(id) PROVE Steps
<1> DEFINE ds == {d \in Domains : mappings[d] = id}
           older == IF certificates[id].age = "fresh" THEN "expiring" ELSE "expired"
<1>0. IInv /\ TypeOK
  BY DEF VInv, IInv
<1>1. /\ certificates[id] \in Certificate /\ certificates[id] # Gone
      /\ certificates[id].age \in {"fresh", "expiring"}
      /\ certificates' = [certificates EXCEPT ![id].age = older]
      /\ UNCHANGED <<mappings, want, domains>>
  BY <1>0 DEF Grow, Stored, TypeOK, Certificate, Ages, threads, orders
<1>2. certificates'[id].age = older /\ certificates'[id] # Gone
  <2>1. certificates'[id] # Gone
    BY <1>0, GrowKeepsDomains
  <2>2. certificates'[id].age = older
    BY <1>0, <1>1 DEF TypeOK, Certificate
  <2> QED BY <2>1, <2>2
<1>3. \A i \in Ids \ {id} : certificates'[i] = certificates[i]
  BY <1>0, GrowKeepsDomains
<1>4. ASSUME NEW d \in Domains
      PROVE  CoverageOf(d)' = IF d \in ds THEN older ELSE CoverageOf(d)
  <2>1. CASE mappings[d] = id
    BY <1>1, <1>2, <2>1, ConstantsAssumption DEF CoverageOf, Has, AgeOf
  <2>2. CASE mappings[d] # id
    BY <1>0, <1>1, <1>3, <2>2 DEF CoverageOf, Has, AgeOf, TypeOK
  <2> QED BY <2>1, <2>2
<1>5. \A d \in ds : CoverageOf(d) = certificates[id].age
  BY <1>1, ConstantsAssumption DEF CoverageOf, Has, AgeOf
<1>6. Sought' = Sought
  BY <1>1, SoughtStays
<1>7. Promise!Age(ds)
  BY <1>1, <1>4, <1>5, <1>6 DEF Promise!Age
<1> QED BY <1>7 DEF Promise!Next, Steps

\* A crash forgets what was sought; a domain that moves away, and a removal that
\* fails, change nothing.
LEMMA ElsewhereSeek ==
    ASSUME VInv,
           \/ Crash
           \/ \E d \in Domains : MoveAway(d)
           \/ \E t \in Threads : RemoveFails(t)
           \/ UNCHANGED vars
    PROVE  Steps
<1>0. IInv /\ TypeOK
  BY DEF VInv, IInv
<1>1. CASE Crash
  <2>1. Sought' = {}
    BY <1>1 DEF Crash, Sought
  <2> QED BY <1>0, <1>1, <2>1, SeenStays, FewerSought DEF Crash, stores
<1>2. CASE ~Crash
  <2>1. UNCHANGED <<certificates, mappings, want, domains>>
    BY <1>2 DEF MoveAway, RemoveFails, vars, stores, threads, orders
  <2> QED BY <1>0, <2>1, SeenStays, SoughtStays, FewerSought
<1> QED BY <1>1, <1>2

LEMMA InitPromise == Init => Promise!Init
BY DEF Init, Promise!Init, CoverageOf, Has, Sought

\* The certificate manager keeps the promise of Coverage: only domains that
\* were asked for get a certificate, those of one order get it together, and
\* none is ever left without, whatever interleaves, fails or crashes.
THEOREM Refinement == Spec => ImplementsCoverage
<1>1. VInv /\ [Next]_vars => Steps
  <2> SUFFICES ASSUME VInv, [Next]_vars PROVE Steps
    OBVIOUS
  <2> QED BY ThreadsSeek, OrderIssues, OrdersSeek, CertificateAges, ElsewhereSeek
          DEF Next, World, Elsewhere
<1> QED BY <1>1, InitVInv, NextVInv, InitPromise, PTL
        DEF Spec, ImplementsCoverage, Promise!Spec, Promise!cvars, Steps, Seen

=============================================================================
